-------------------------------- MODULE Dhcp --------------------------------
(***************************************************************************)
(* One DHCP server and its clients on a network whose delay is far below a *)
(* second: the clock ticks when every message has arrived or was lost and  *)
(* everything due has been done.  Within a second messages, client events  *)
(* and the server's timer come in any order, which covers all the phases   *)
(* their periods may have.                                                 *)
(***************************************************************************)
EXTENDS DhcpClient

CONSTANTS
    MaxTime,   \* bound on the seconds simulated
    MaxLost,   \* bound on the messages the network loses
    MaxStops,  \* bound on the clients that are stopped
    MaxOther   \* bound on the messages of the other clients

ASSUME BoundsAssumption == {MaxTime, MaxLost, MaxStops, MaxOther} \subseteq Nat

VARIABLES
    time,       \* seconds
    timerDue,   \* TimerHandler is due in this second: first a second after the start
    lost,       \* messages lost
    others,     \* messages of the other clients
    asked,      \* when each of them last sent a Discover
    started     \* History: when each client was started

vars == <<server, toServer, toClient, client, time, timerDue, lost, others,
          asked, started>>

Init ==
    /\ ServerInit
    /\ toServer = [c \in Client \cup Other |-> <<>>]
    /\ toClient = [c \in Client \cup Other |-> <<>>]
    /\ client = [c \in Client |-> NewClient]
    /\ time = 0 /\ timerDue = FALSE /\ lost = 0 /\ others = 0
    /\ asked = [c \in Other |-> MaxTime + 1]
    /\ started = [c \in Client |-> MaxTime + 1]

Same == UNCHANGED <<time, timerDue, lost, others, asked, started>>

Start(c) == /\ ClientStarts(c)
            /\ started' = [started EXCEPT ![c] = time]
            /\ UNCHANGED <<time, timerDue, lost, others, asked>>

Stop(c) == /\ Cardinality({d \in Client : client[d].stopped}) < MaxStops
           /\ ClientStops(c)
           /\ Same

ServerTimer == /\ timerDue
               /\ timerDue' = FALSE
               /\ TimerHandler
               /\ UNCHANGED <<client, time, lost, others, asked, started>>

\* A client of another server: its broadcasts come here too, and the ranges of
\* the two servers may overlap.  It makes nothing of what this server says: it
\* collects offers and asks all servers for one of another's.  Its renewals go
\* to that server alone.
OtherDiscovers(c) ==
    /\ toServer' = [toServer EXCEPT ![c] = Append(@, Msg("DISCOVER", NoAddress))]
    /\ asked' = [asked EXCEPT ![c] = time]

OtherRequests(c, a) ==
    /\ time \in asked[c]..(asked[c] + Collect)
    /\ toServer' = [toServer EXCEPT ![c] = Append(@, Msg("REQ", a))]
    /\ UNCHANGED asked

OtherSends(c) ==
    /\ others < MaxOther
    /\ others' = others + 1
    /\ \/ OtherDiscovers(c)
       \/ \E a \in Address \cup {NoAddress} : OtherRequests(c, a)
    /\ UNCHANGED <<server, toClient, client, time, timerDue, lost, started>>

OtherReceives(c) ==
    /\ toClient[c] # <<>>
    /\ toClient' = [toClient EXCEPT ![c] = Tail(@)]
    /\ UNCHANGED <<server, toServer, client>>

LoseOne(c) ==
    /\ lost < MaxLost
    /\ lost' = lost + 1
    /\ \/ /\ toServer[c] # <<>>
          /\ toServer' = [toServer EXCEPT ![c] = Tail(@)]
          /\ UNCHANGED toClient
       \/ /\ toClient[c] # <<>>
          /\ toClient' = [toClient EXCEPT ![c] = Tail(@)]
          /\ UNCHANGED toServer
    /\ UNCHANGED <<server, client, time, timerDue, others, asked, started>>

\* Nothing is left to do in this second.
Quiet == /\ ~timerDue
         /\ \A c \in Client \cup Other : toServer[c] = <<>> /\ toClient[c] = <<>>
         /\ \A c \in Client : Due(c) = {}

Sooner(e) == [e EXCEPT !.left = @ - 1]

Tick ==
    /\ Quiet
    /\ time < MaxTime
    /\ time' = time + 1
    /\ timerDue' = TRUE
    /\ client' = [c \in Client |->
         [client[c] EXCEPT !.events = [i \in DOMAIN @ |-> Sooner(@[i])]]]
    /\ UNCHANGED <<server, toServer, toClient, lost, others, asked, started>>

Next ==
    \/ \E c \in Client : \/ Start(c) \/ Stop(c)
                         \/ ClientReceives(c) /\ Same
                         \/ ClientEvent(c) /\ Same
    \/ \E c \in Other : \/ OtherReceives(c) /\ Same
                        \/ OtherSends(c)
    \/ \E c \in Client \cup Other :
         \/ ServerReceives(c) /\ UNCHANGED client /\ Same
         \/ LoseOne(c)
    \/ ServerTimer
    \/ Tick

Spec == Init /\ [][Next]_vars
-----------------------------------------------------------------------------
(* Properties. *)

Kinds == {"Boot", "Select", "NextOffer", "Renew", "Rebind", "Timeout"}

MaybeAddress == Address \cup {NoAddress}

Message == [type : {"DISCOVER", "OFFER", "REQ", "ACK", "NACK"},
            addr : MaybeAddress]

TypeOK ==
    /\ available \in Seq(Address)
    /\ DOMAIN leased \subseteq Client \cup Other
    /\ \A c \in DOMAIN leased : leased[c] \in [addr : Address, left : Nat]
    /\ expired \in Seq(Client \cup Other)
    /\ toServer \in [Client \cup Other -> Seq(Message)]
    /\ toClient \in [Client \cup Other -> Seq(Message)]
    /\ \A c \in Client :
         LET r == client[c] IN
         /\ r.running \in BOOLEAN /\ r.stopped \in BOOLEAN
         /\ r.state \in {"NONE", "WAIT_OFFER", "WAIT_ACK", "REFRESH_LEASE"}
         /\ r.offered \in BOOLEAN /\ r.offers \in Seq(Address)
         /\ {r.my, r.req, r.iface} \subseteq MaybeAddress
         /\ r.events \in Seq([what : Kinds, left : Nat, known : BOOLEAN])
    /\ time \in 0..MaxTime /\ timerDue \in BOOLEAN /\ lost \in 0..MaxLost
    /\ others \in 0..MaxOther
    /\ asked \in [Other -> 0..(MaxTime + 1)]
    /\ started \in [Client -> 0..(MaxTime + 1)]

Holds(c, a) == client[c].iface = a

\* No address is on the interfaces of two clients: a lease ends at the client
\* before the server gives the address to another, whatever was lost.
OneHolder ==
    \A c, d \in Client, a \in Address : Holds(c, a) /\ Holds(d, a) => c = d

RanOut == {c \in DOMAIN leased : leased[c].left = 0}

\* Every address of the pool is available or in the record of one client; a
\* lease that ran out is always in the list of those to be reused, and of the
\* server's own clients the list names no other, and none twice.
PoolConserved ==
    /\ Address = ToSet(available) \cup {leased[c].addr : c \in DOMAIN leased}
    /\ Len(available) + Cardinality(DOMAIN leased) = Cardinality(Address)
    /\ RanOut \subseteq ToSet(expired)
    /\ ToSet(expired) \cap Client \subseteq RanOut
    /\ \A i, j \in DOMAIN expired :
         expired[i] = expired[j] /\ expired[i] \in Client => i = j

Started == {c \in Client : started[c] <= MaxTime}

\* With an address for everyone who started, no message lost and no client of
\* another server, a client has an address once it has collected the offers,
\* and keeps it as long as it runs: the renewal is always faster than the end
\* of the lease.
KeepsAddress ==
    Quiet /\ lost = 0 /\ others = 0 /\ Cardinality(Started) <= Len(Pool) =>
        \A c \in Client :
            time >= started[c] + Collect /\ ~client[c].stopped =>
                \E a \in Address : Holds(c, a) /\ Known(c) /\ leased[c].addr = a

\* An address with a static entry is leased to no client but its own.
StaticReserved ==
    \A c \in DOMAIN Static, d \in DOMAIN leased :
        leased[d].addr = Static[c] => c = d
=============================================================================
