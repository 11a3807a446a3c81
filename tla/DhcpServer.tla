----------------------------- MODULE DhcpServer -----------------------------
(***************************************************************************)
(* The DHCP server: which address is leased to which client, and the       *)
(* handlers of the two messages it takes.  Addresses are the pool without  *)
(* the server's own, which StartApplication leases to itself for ever.     *)
(***************************************************************************)
EXTENDS Integers, Sequences, FiniteSets, SequencesExt, Subsequences

CONSTANTS
    Client,    \* chaddr of the clients
    Other,     \* chaddr of clients that take another server's offers
    Pool,      \* the addresses from m_minAddress to m_maxAddress, in order
    Static,    \* AddStaticDhcpEntry before the start: client |-> address
    Lease,     \* LeaseTime, in seconds
    Infinite,  \* 0xffffffff
    NoAddress  \* Ipv4Address (), also 0.0.0.0

ASSUME ServerAssumption ==
    /\ IsFiniteSet(Client) /\ IsFiniteSet(Other) /\ Client \cap Other = {}
    /\ Pool \in Seq(ToSet(Pool)) /\ IsInjective(Pool)
    /\ NoAddress \notin ToSet(Pool)
    /\ DOMAIN Static \subseteq Client
    /\ \A c \in DOMAIN Static : Static[c] \in ToSet(Pool)
    /\ Lease \in Nat \ {0} /\ Infinite \in Nat /\ Infinite > Lease

Address == ToSet(Pool)

VARIABLES
    available,  \* m_availableAddresses
    leased,     \* m_leasedAddresses: client |-> address and seconds left
    expired,    \* m_expiredAddresses: clients whose lease ran out, last first
    toServer,   \* messages on their way, per client
    toClient

server == <<available, leased, expired>>

Known(c) == c \in DOMAIN leased

Msg(type, a) == [type |-> type, addr |-> a]

\* StartApplication.
ServerInit ==
    /\ available = Pool
    /\ leased = [c \in DOMAIN Static |-> [addr |-> Static[c], left |-> Infinite]]
    /\ expired = <<>>

\* f with the value v at c, whether or not c was in its domain.
With(f, c, v) == [d \in DOMAIN f \cup {c} |-> IF d = c THEN v ELSE f[d]]

Without(f, c) == [d \in DOMAIN f \ {c} |-> f[d]]

NewLease(a) == [addr |-> a, left |-> Lease]

\* A bug: the lease that ran out last is given away, and stays in the list.
ReuseExpired(c) ==
    /\ ~Known(c)
    /\ available = <<>>
    /\ expired # <<>>
    /\ LET oldest == expired[Len(expired)]
           a == leased[oldest].addr
       IN /\ leased' = With(Without(leased, oldest), c, NewLease(a))
          /\ toClient' = [toClient EXCEPT ![c] = Append(@, Msg("OFFER", a))]
    /\ UNCHANGED <<available, expired>>

\* SendOffer in its four cases.  The client is known, whether its lease runs
\* or not: the same address again, for LeaseTime from now.
OfferKnown(c) ==
    /\ Known(c)
    /\ expired' = Within(expired, (Client \cup Other) \ {c})
    /\ leased' = [leased EXCEPT ![c] = NewLease(@.addr)]
    /\ toClient' = [toClient EXCEPT ![c] =
                      Append(@, Msg("OFFER", leased[c].addr))]
    /\ UNCHANGED available

\* An address never used before.
OfferNew(c) ==
    /\ ~Known(c)
    /\ available # <<>>
    /\ available' = Tail(available)
    /\ leased' = With(leased, c, NewLease(Head(available)))
    /\ toClient' = [toClient EXCEPT ![c] =
                      Append(@, Msg("OFFER", Head(available)))]
    /\ UNCHANGED expired

\* The address whose lease ran out first; its client is forgotten.  There is no
\* answer if that client was in the list twice and is forgotten already.
OfferOld(c) ==
    /\ ~Known(c)
    /\ available = <<>>
    /\ expired # <<>>
    /\ expired' = SubSeq(expired, 1, Len(expired) - 1)
    /\ LET oldest == expired[Len(expired)]
           a == leased[oldest].addr
       IN IF Known(oldest)
          THEN /\ leased' = With(Without(leased, oldest), c, NewLease(a))
               /\ toClient' = [toClient EXCEPT ![c] = Append(@, Msg("OFFER", a))]
          ELSE UNCHANGED <<leased, toClient>>
    /\ UNCHANGED available

\* None left: no answer.
OfferNone(c) ==
    /\ ~Known(c)
    /\ available = <<>> /\ expired = <<>>
    /\ UNCHANGED <<server, toClient>>

SendOffer(c) == OfferKnown(c) \/ OfferNew(c) \/ OfferOld(c) \/ OfferNone(c)

\* A bug: the lease is acknowledged and not extended.
AckOnly(left) == left

Extended(left) == left + Lease

\* SendAck: any address of the range is acknowledged to a client that has a
\* lease; the client is not taken out of the expired ones.
SendAck(c, a) ==
    /\ \/ /\ Known(c)
          /\ leased' = [leased EXCEPT ![c].left = Extended(@)]
          /\ toClient' = [toClient EXCEPT ![c] = Append(@, Msg("ACK", a))]
       \/ /\ ~Known(c)
          /\ toClient' = [toClient EXCEPT ![c] = Append(@, Msg("NACK", a))]
          /\ UNCHANGED leased
    /\ UNCHANGED <<available, expired>>

\* NetHandler, for a message of client c.
ServerReceives(c) ==
    /\ toServer[c] # <<>>
    /\ toServer' = [toServer EXCEPT ![c] = Tail(@)]
    /\ LET m == Head(toServer[c]) IN
         \/ m.type = "DISCOVER" /\ SendOffer(c)
         \/ /\ m.type = "REQ" /\ m.addr \in Address
            /\ SendAck(c, m.addr)
         \/ /\ m.type = "REQ" /\ m.addr \notin Address
            /\ UNCHANGED <<server, toClient>>

\* A bug: a lease that ran out is counted down once more.
RunningStill == {c \in DOMAIN leased : leased[c].left # Infinite}

Running == {c \in DOMAIN leased : leased[c].left \notin {0, Infinite}}

Ending == {c \in Running : leased[c].left = 1}

\* TimerHandler, every second: the map of the leases is walked in the order of
\* the clients, which the model leaves open.
TimerHandler ==
    /\ leased' = [c \in DOMAIN leased |->
                    IF c \in Running THEN [leased[c] EXCEPT !.left = @ - 1]
                                     ELSE leased[c]]
    /\ \E order \in SetToSeqs(Ending) : expired' = order \o expired
    /\ UNCHANGED <<available, toServer, toClient>>
=============================================================================
