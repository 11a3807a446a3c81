----------------------------- MODULE DhcpClient -----------------------------
(***************************************************************************)
(* The DHCP client: one record per client, the handlers as operators from  *)
(* the record to the record and the message they send.  "events" are the   *)
(* scheduled calls of its handlers in the order of scheduling; "known"     *)
(* tells whether the client still has the EventId: Simulator::Remove       *)
(* reaches only such an event, and the next Schedule of the same id        *)
(* forgets it.                                                             *)
(***************************************************************************)
EXTENDS DhcpServer

CONSTANTS
    Rtrs,       \* time to the next Discover
    Collect,    \* time to collect offers
    NextOffer,  \* time to wait for an acknowledgement
    Renew,      \* T1 of a lease
    Rebind      \* T2 of a lease

ASSUME ClientAssumption ==
    /\ {Rtrs, Collect, NextOffer, Renew} \subseteq Nat \ {0}
    /\ Rebind \in Nat /\ Renew < Rebind /\ Rebind < Lease

VARIABLE client

\* Before StartApplication.
NewClient ==
    [running |-> FALSE, stopped |-> FALSE,
     state |-> "NONE",           \* m_state
     offered |-> FALSE,          \* m_offered
     offers |-> <<>>,            \* m_offerList
     my |-> NoAddress,           \* m_myAddress
     req |-> NoAddress,          \* m_offeredAddress
     iface |-> NoAddress,        \* the address of the interface
     events |-> <<>>]

RemoveKnown(events, what) ==
    Kept(events, {i \in DOMAIN events :
                    ~(events[i].what = what /\ events[i].known)})

RemoveKnownAll(events, whats) ==
    Kept(events, {i \in DOMAIN events :
                    ~(events[i].what \in whats /\ events[i].known)})

Schedule(events, what, delay) ==
    Append([i \in DOMAIN events |->
              IF events[i].what = what THEN [events[i] EXCEPT !.known = FALSE]
                                       ELSE events[i]],
           [what |-> what, left |-> delay, known |-> TRUE])

\* Simulator::Schedule whose EventId nobody keeps.
ScheduleUnknown(events, what, delay) ==
    Append(events, [what |-> what, left |-> delay, known |-> FALSE])

Sends(r, m) == [client |-> r, send |-> <<m>>]
Silent(r)   == [client |-> r, send |-> <<>>]

Boot(r) ==
    Sends([r EXCEPT !.state = "WAIT_OFFER", !.offered = FALSE,
                    !.events = Schedule(@, "Boot", Rtrs)],
          Msg("DISCOVER", NoAddress))

StartApplication(r) == Boot([r EXCEPT !.running = TRUE, !.my = NoAddress])

OfferHandler(r, a) ==
    Silent(IF r.offered
           THEN [r EXCEPT !.offers = Append(@, a)]
           ELSE [r EXCEPT !.offers = Append(@, a), !.offered = TRUE,
                          !.events = ScheduleUnknown(RemoveKnown(@, "Boot"),
                                                     "Select", Collect)])

\* A first request, or one that had no answer, is broadcast for the address
\* last asked for; the renewal asks for the client's own.
Request(r) ==
    IF r.state # "REFRESH_LEASE"
    THEN Sends([r EXCEPT !.state = "WAIT_ACK",
                         !.events = Schedule(@, "NextOffer", NextOffer)],
               Msg("REQ", r.req))
    ELSE Sends([r EXCEPT !.state = "WAIT_ACK", !.req = r.my],
               Msg("REQ", r.my))

Select(r) ==
    IF r.offers = <<>> THEN Boot(r)
    ELSE Request([r EXCEPT !.req = Head(r.offers), !.offers = <<>>,
                           !.offered = FALSE])

\* A bug: the end of the old lease stays scheduled.
AcceptAckTimeout(r) ==
    Silent([r EXCEPT !.my = r.req, !.iface = r.req, !.offers = <<>>,
                     !.state = "REFRESH_LEASE",
                     !.events = Schedule(Schedule(Schedule(
                         RemoveKnownAll(@, {"Rebind", "Renew"}),
                         "Renew", Renew), "Rebind", Rebind),
                         "Timeout", Lease)])

\* The address asked for is taken, not the one in the message.
AcceptAck(r) ==
    Silent([r EXCEPT !.my = r.req, !.iface = r.req, !.offers = <<>>,
                     !.state = "REFRESH_LEASE",
                     !.events = Schedule(Schedule(Schedule(
                         RemoveKnownAll(@, {"Rebind", "Renew", "Timeout"}),
                         "Renew", Renew), "Rebind", Rebind),
                         "Timeout", Lease)])

RemoveAndStart(r) ==
    StartApplication([r EXCEPT !.iface = NoAddress,
        !.events = RemoveKnownAll(@, {"NextOffer", "Renew", "Rebind", "Timeout"})])

\* NetHandler.
Handle(r, m) ==
    CASE r.state = "WAIT_OFFER" /\ m.type = "OFFER" -> OfferHandler(r, m.addr)
      [] r.state = "WAIT_ACK" /\ m.type = "ACK" ->
           AcceptAck([r EXCEPT !.events = RemoveKnown(@, "NextOffer")])
      [] r.state = "WAIT_ACK" /\ m.type = "NACK" ->
           Boot([r EXCEPT !.events = RemoveKnown(@, "NextOffer")])
      [] OTHER -> Silent(r)

Fire(r, what) ==
    CASE what = "Boot" -> Boot(r)
      [] what \in {"Select", "NextOffer"} -> Select(r)
      [] what \in {"Renew", "Rebind"} -> Request(r)
      [] what = "Timeout" -> RemoveAndStart(r)

\* A closed socket sends nothing.
Take(c, result) ==
    /\ client' = [client EXCEPT ![c] = result.client]
    /\ toServer' = IF result.client.stopped THEN toServer
                   ELSE [toServer EXCEPT ![c] = @ \o result.send]

ClientStarts(c) ==
    /\ ~client[c].running /\ ~client[c].stopped
    /\ Take(c, StartApplication(client[c]))
    /\ UNCHANGED <<server, toClient>>

\* StopApplication: the pending calls it knows of are removed and the socket is
\* closed.
ClientStops(c) ==
    /\ client[c].running /\ ~client[c].stopped
    /\ client' = [client EXCEPT ![c].stopped = TRUE,
                    ![c].iface = NoAddress,
                    ![c].events = RemoveKnownAll(@, {"Boot", "Renew", "Rebind",
                                                "Timeout", "NextOffer"})]
    /\ UNCHANGED <<server, toServer, toClient>>

\* A stopped client has no receive callback.
ClientReceives(c) ==
    /\ toClient[c] # <<>>
    /\ toClient' = [toClient EXCEPT ![c] = Tail(@)]
    /\ \/ /\ ~client[c].stopped
          /\ Take(c, Handle(client[c], Head(toClient[c])))
       \/ /\ client[c].stopped
          /\ UNCHANGED <<client, toServer>>
    /\ UNCHANGED server

Due(c) == {i \in DOMAIN client[c].events : client[c].events[i].left = 0}

\* The next event of the client, in the order of scheduling.
ClientEvent(c) ==
    /\ Due(c) # {}
    /\ LET i == CHOOSE k \in Due(c) : \A j \in Due(c) : k <= j
           r == [client[c] EXCEPT !.events = RemoveAt(@, i)]
       IN Take(c, Fire(r, client[c].events[i].what))
    /\ UNCHANGED <<server, toClient>>
=============================================================================
