---------------------------- MODULE PointToPoint ----------------------------
(***************************************************************************)
(* One direction of a point-to-point link, from the traffic control layer  *)
(* of the sending node to the device of the receiving one:                 *)
(*                                                                         *)
(*   TrafficControlLayer::Send -> PfifoFastQueueDisc -> NetDeviceQueue     *)
(*     -> PointToPointNetDevice and its queue -> PointToPointChannel       *)
(*     -> PointToPointNetDevice::Receive                                   *)
(*                                                                         *)
(* The two directions of a channel share no state.  Between the handlers   *)
(* the parts depend on each other through scheduled events only: the end   *)
(* of a transmission, the arrival of a packet, and the call that restarts  *)
(* the queue disc after the device queue was full (the wake callback).     *)
(* An event is taken in the order of the event list (EventKey); a packet   *)
(* from above may come at any time, before or after the events then due.   *)
(* A packet socket hands its packets to the device directly, past the      *)
(* queue disc and its flow control.                                        *)
(***************************************************************************)
EXTENDS Integers, Sequences, SequencesExt, Subsequences, EventKey

CONSTANTS
    MaxPackets,  \* bound on the packets sent in a behaviour
    MaxDirect,   \* bound on those sent past the queue disc
    Bands,       \* number of bands of the queue disc, 3 in the code
    SizeOf,      \* size of each packet the upper layers send
    Mtu,         \* the largest of them the device allows
    PppHeader,   \* size of the header the device adds, 2 in the code
    MaxSize,     \* MaxSize of the device queue
    Unit,        \* its unit: "packets" or "bytes"
    DiscLimit,   \* MaxSize of the queue disc, in packets
    Quota,       \* packets sent in one run of the queue disc
    Gap,         \* m_tInterframeGap
    Delay        \* m_delay of the channel

ASSUME LinkAssumption ==
    /\ MaxPackets \in Nat /\ MaxDirect \in Nat /\ Bands \in Nat \ {0}
    /\ Mtu \in Nat /\ SizeOf \in [1..MaxPackets -> 1..Mtu]
    /\ PppHeader \in Nat \ {0}
    /\ MaxSize \in Nat \ {0} /\ Unit \in {"packets", "bytes"}
    /\ DiscLimit \in Nat \ {0} /\ Quota \in Nat \ {0}
    /\ Gap \in Nat /\ Delay \in Nat

Packet   == 1..MaxPackets
NoPacket == 0
Band     == 1..Bands
Direct   == 0       \* instead of a band: a packet sent past the queue disc

VARIABLES
    now,             \* the simulation time
    uid,             \* uid of the next event
    events,          \* the events of this link in the event list
    bands,           \* the internal queues of the queue disc
    quota,           \* packets the current run may still send
    m_running,       \* a run of the queue disc is in progress
    m_stoppedByDevice, \* the device queue takes no more packets
    m_queue,         \* the queue of the device
    m_nBytes,        \* bytes in m_queue
    m_txMachineState, \* READY or BUSY
    m_currentPkt,    \* the packet being transmitted
    \* History
    sent,            \* packets sent from above: the band of each
    refused,         \* dropped by the queue disc, which was full
    discarded,       \* dropped by the device, whose queue was full
    corrupted,       \* dropped by the receiver's error model
    delivered        \* handed to the receiver's upper layers, in order

device  == <<m_queue, m_nBytes, m_txMachineState, m_currentPkt>>
history == <<sent, refused, discarded, corrupted, delivered>>
vars    == <<now, uid, events, bands, quota, m_running, m_stoppedByDevice,
             device, history>>

\* The packet with the header the device adds.
WireSize(p) == SizeOf[p] + PppHeader

\* CalculateBytesTxTime: one unit of time for one unit of size.
TxTime(p) == WireSize(p)

\* GetCurrentSize () + item <= GetMaxSize () for a queue with n packets and b
\* bytes.
Room(n, b, size) == IF Unit = "packets" THEN n + 1 <= MaxSize
                                        ELSE b + size <= MaxSize

Event(delay, id, what, p) ==
    [ts |-> now + delay, uid |-> id, what |-> what, pkt |-> p]
-----------------------------------------------------------------------------
(* The device queue and the flow control in its traces. *)

\* A bug: the flag is set only when the queue is over its limit.
StopsLate(q, b) == m_stoppedByDevice \/ ~Room(Len(q) - 1, b, Mtu)
\* NetDeviceQueue::PacketEnqueued: stop if an MTU more would not fit.
StoppedAfterEnqueue(q, b) == m_stoppedByDevice \/ ~Room(Len(q), b, Mtu)

\* A bug: the flag is cleared and nobody is told.
DequeueSilently(q, b, stopped) ==
    LET p == Head(q)
        room == Room(Len(q) - 1, b - WireSize(p), Mtu)
    IN [pkt |-> p, queue |-> Tail(q), bytes |-> b - WireSize(p),
        stopped |-> stopped /\ ~room,
        wake |-> {}]

\* DoDequeue and NetDeviceQueue::PacketDequeued: the packet, the queue left,
\* and the wake callback that Wake schedules if the queue had been stopped.
Dequeue(q, b, stopped) ==
    LET p == Head(q)
        room == Room(Len(q) - 1, b - WireSize(p), Mtu)
    IN [pkt |-> p, queue |-> Tail(q), bytes |-> b - WireSize(p),
        stopped |-> stopped /\ ~room,
        wake |-> IF stopped /\ room THEN {Event(0, uid, "Wake", NoPacket)}
                                    ELSE {}]

\* A bug: only the gap is waited for, not the transmission.
TransmitGapOnly(d, pending) ==
    /\ m_txMachineState' = "BUSY"
    /\ m_currentPkt' = d.pkt
    /\ events' = pending \cup d.wake \cup
         {Event(Gap, uid + 1, "TransmitComplete", d.pkt),
          Event(TxTime(d.pkt) + Delay, uid + 2, "Receive", d.pkt)}
    /\ uid' = uid + 3
    /\ m_queue' = d.queue
    /\ m_nBytes' = d.bytes
    /\ m_stoppedByDevice' = d.stopped

\* TransmitStart of the device and of the channel, for the packet taken out
\* of the queue; "pending" are the events left in the list.
TransmitStart(d, pending) ==
    /\ m_txMachineState' = "BUSY"
    /\ m_currentPkt' = d.pkt
    /\ events' = pending \cup d.wake \cup
         {Event(TxTime(d.pkt) + Gap, uid + 1, "TransmitComplete", d.pkt),
          Event(TxTime(d.pkt) + Delay, uid + 2, "Receive", d.pkt)}
    /\ uid' = uid + 3
    /\ m_queue' = d.queue
    /\ m_nBytes' = d.bytes
    /\ m_stoppedByDevice' = d.stopped

\* PointToPointNetDevice::Send on a link that is up, in three cases: the
\* transmitter is ready, it is busy, the queue has no room.
SendReady(p) ==
    LET q == Append(m_queue, p)
        b == m_nBytes + WireSize(p)
    IN /\ Room(Len(m_queue), m_nBytes, WireSize(p))
       /\ m_txMachineState = "READY"
       /\ TransmitStart(Dequeue(q, b, StoppedAfterEnqueue(q, b)), events)
       /\ UNCHANGED discarded

\* A bug: the flag of the ready transmitter is not looked at.
SendAnyway(p) ==
    LET q == Append(m_queue, p)
        b == m_nBytes + WireSize(p)
    IN /\ Room(Len(m_queue), m_nBytes, WireSize(p))
       /\ m_txMachineState = "BUSY"
       /\ TransmitStart(Dequeue(q, b, StoppedAfterEnqueue(q, b)), events)
       /\ UNCHANGED discarded

\* A bug: the packet is counted before its header is added.
SendBusyUncounted(p) ==
    LET q == Append(m_queue, p)
        b == m_nBytes + SizeOf[p]
    IN /\ Room(Len(m_queue), m_nBytes, SizeOf[p])
       /\ m_txMachineState = "BUSY"
       /\ m_queue' = q
       /\ m_nBytes' = b
       /\ m_stoppedByDevice' = StoppedAfterEnqueue(q, b)
       /\ UNCHANGED <<uid, events, m_txMachineState, m_currentPkt, discarded>>

SendBusy(p) ==
    LET q == Append(m_queue, p)
        b == m_nBytes + WireSize(p)
    IN /\ Room(Len(m_queue), m_nBytes, WireSize(p))
       /\ m_txMachineState = "BUSY"
       /\ m_queue' = q
       /\ m_nBytes' = b
       /\ m_stoppedByDevice' = StoppedAfterEnqueue(q, b)
       /\ UNCHANGED <<uid, events, m_txMachineState, m_currentPkt, discarded>>

\* NetDeviceQueue::PacketDiscarded: "BUG! No room in the device queue".
SendNoRoom(p) ==
    /\ ~Room(Len(m_queue), m_nBytes, WireSize(p))
    /\ discarded' = discarded \cup {p}
    /\ m_stoppedByDevice' = TRUE
    /\ UNCHANGED <<uid, events, device>>

Send(p) == SendReady(p) \/ SendBusy(p) \/ SendNoRoom(p)
-----------------------------------------------------------------------------
(* The queue disc. *)

\* The band DoDequeue takes from: the first that holds a packet.
NonEmpty == {b \in Band : bands[b] # <<>>}

FirstBand == CHOOSE b \in NonEmpty : \A c \in NonEmpty : b <= c

\* Packets in the queue disc: m_nPackets.
DiscSize == FoldSet(LAMBDA b, n : n + Len(bands[b]), 0, Band)

Init ==
    /\ now = 0 /\ uid = 0 /\ events = {}
    /\ bands = [b \in Band |-> <<>>]
    /\ quota = 0 /\ m_running = FALSE
    /\ m_stoppedByDevice = FALSE
    /\ m_queue = <<>> /\ m_nBytes = 0
    /\ m_txMachineState = "READY" /\ m_currentPkt = NoPacket
    /\ sent = <<>>
    /\ refused = {} /\ discarded = {} /\ corrupted = {} /\ delivered = <<>>

\* RunBegin: Run does nothing if a run is in progress.
RunBegin == /\ m_running' = TRUE
            /\ quota' = Quota

\* TrafficControlLayer::Send: Enqueue, then Run.
TcSend(b) ==
    LET p == Len(sent) + 1 IN
    /\ ~m_running
    /\ Len(sent) < MaxPackets
    /\ sent' = Append(sent, b)
    /\ \/ /\ DiscSize >= DiscLimit
          /\ refused' = refused \cup {p}
          /\ UNCHANGED bands
       \/ /\ DiscSize < DiscLimit
          /\ bands' = [bands EXCEPT ![b] = Append(@, p)]
          /\ UNCHANGED refused
    /\ RunBegin
    /\ UNCHANGED <<now, uid, events, m_stoppedByDevice, device, discarded,
                   corrupted, delivered>>

\* PacketSocket::DoSendTo: the device's Send, and nothing else.
DirectSend ==
    LET p == Len(sent) + 1 IN
    /\ ~m_running
    /\ Len(sent) < MaxPackets
    /\ Len(SelectSeq(sent, LAMBDA b : b = Direct)) < MaxDirect
    /\ sent' = Append(sent, Direct)
    /\ Send(p)
    /\ UNCHANGED <<now, bands, quota, m_running, refused, corrupted, delivered>>

\* Run once around its loop: Restart, that is DequeuePacket and Transmit.
\* The run goes on if the queue disc holds more, the device queue takes more
\* and the quota is not used up.
RunSend ==
    /\ m_running
    /\ ~m_stoppedByDevice
    /\ NonEmpty # {}
    /\ LET b == FirstBand
           left == [bands EXCEPT ![b] = Tail(@)]
       IN /\ bands' = left
          /\ Send(Head(bands[b]))
          /\ quota' = quota - 1
          /\ m_running' = /\ \E c \in Band : left[c] # <<>>
                          /\ ~m_stoppedByDevice'
                          /\ quota - 1 > 0
    /\ UNCHANGED <<now, sent, refused, corrupted, delivered>>

\* DequeuePacket finds nothing to send, or the device queue stopped.
RunEnd ==
    /\ m_running
    /\ m_stoppedByDevice \/ NonEmpty = {}
    /\ m_running' = FALSE
    /\ UNCHANGED <<now, uid, events, bands, quota, m_stoppedByDevice, device,
                   history>>
-----------------------------------------------------------------------------
(* The events of the link. *)

\* e is the next event of the list and due now.
Due(e) == e.ts = now /\ IsEarliest(e, events)

\* The wake callback: QueueDisc::Run.
Wake(e) ==
    /\ e.what = "Wake"
    /\ events' = events \ {e}
    /\ RunBegin
    /\ UNCHANGED <<now, uid, bands, m_stoppedByDevice, device, history>>

\* PointToPointNetDevice::TransmitComplete.
TransmitComplete(e) ==
    /\ e.what = "TransmitComplete"
    /\ \/ /\ m_queue = <<>>
          /\ m_txMachineState' = "READY"
          /\ m_currentPkt' = NoPacket
          /\ events' = events \ {e}
          /\ UNCHANGED <<uid, m_queue, m_nBytes, m_stoppedByDevice>>
       \/ /\ m_queue # <<>>
          /\ TransmitStart(Dequeue(m_queue, m_nBytes, m_stoppedByDevice),
                           events \ {e})
    /\ UNCHANGED <<now, bands, quota, m_running, history>>

\* PointToPointNetDevice::Receive: the error model may take the packet.
Receive(e) ==
    /\ e.what = "Receive"
    /\ events' = events \ {e}
    /\ \/ /\ delivered' = Append(delivered, e.pkt)
          /\ UNCHANGED corrupted
       \/ /\ corrupted' = corrupted \cup {e.pkt}
          /\ UNCHANGED delivered
    /\ UNCHANGED <<now, uid, bands, quota, m_running, m_stoppedByDevice,
                   device, sent, refused, discarded>>

Execute == /\ ~m_running
           /\ \E e \in events : /\ Due(e)
                                /\ Wake(e) \/ TransmitComplete(e) \/ Receive(e)

\* Time goes on to the next moment at which something may happen.
Advance == /\ ~m_running
           /\ events # {}
           /\ \A e \in events : e.ts > now
           /\ now' = now + 1
           /\ UNCHANGED <<uid, events, bands, quota, m_running,
                          m_stoppedByDevice, device, history>>

Run == RunSend \/ RunEnd

Next == \/ \E b \in Band : TcSend(b)
        \/ DirectSend
        \/ Run
        \/ Execute
        \/ Advance

Fairness == WF_vars(Run) /\ WF_vars(Execute) /\ WF_vars(Advance)

Spec == Init /\ [][Next]_vars /\ Fairness
-----------------------------------------------------------------------------
(* Properties. *)

\* Every variable has its type.
TypeOK ==
    /\ now \in Nat /\ uid \in Nat
    /\ \A e \in events : /\ e.ts \in Nat /\ e.ts >= now
                         /\ e.uid \in 0..(uid - 1)
                         /\ e.what \in {"Wake", "TransmitComplete", "Receive"}
                         /\ e.pkt \in Packet \cup {NoPacket}
    /\ bands \in [Band -> Seq(Packet)]
    /\ quota \in 0..Quota
    /\ m_running \in BOOLEAN /\ m_stoppedByDevice \in BOOLEAN
    /\ m_queue \in Seq(Packet) /\ m_nBytes \in Nat
    /\ m_txMachineState \in {"READY", "BUSY"}
    /\ m_currentPkt \in Packet \cup {NoPacket}
    /\ sent \in Seq(Band \cup {Direct}) /\ Len(sent) <= MaxPackets
    /\ refused \subseteq Packet /\ discarded \subseteq Packet
    /\ corrupted \subseteq Packet /\ delivered \in Seq(Packet)

Pending(what) == {e \in events : e.what = what}

\* The transmitter is busy exactly while one TransmitComplete is to come, for
\* the packet it holds: neither assertion of the device ever fails.  A ready
\* transmitter has no packet waiting in its queue.
TransmitterExact ==
    /\ m_txMachineState = "BUSY" =>
         /\ m_currentPkt # NoPacket
         /\ \E e \in events : /\ Pending("TransmitComplete") = {e}
                              /\ e.pkt = m_currentPkt
    /\ m_txMachineState = "READY" =>
         /\ m_currentPkt = NoPacket
         /\ Pending("TransmitComplete") = {}
         /\ m_queue = <<>>

\* The queue disc never hands the device a packet its queue has no room for,
\* whoever else fills it.
NeverDiscards == \A p \in discarded : sent[p] = Direct

\* A queue disc that holds packets is running, or about to be woken, or the
\* device queue is stopped and the end of a transmission will wake it.
NeverStalls ==
    NonEmpty # {} => \/ m_running
                     \/ Pending("Wake") # {}
                     \/ m_stoppedByDevice /\ Pending("TransmitComplete") # {}

InBand(b, seq) == Within(seq, {p \in DOMAIN sent : sent[p] = b})

\* The packets on the wire, in the order in which they arrive.
OnWire == LET S == Pending("Receive")
              arrivals == Sorted(S, {p \in S \X S : Less(p[1], p[2])})
          IN [i \in DOMAIN arrivals |-> arrivals[i].pkt]

Link(b) == INSTANCE FifoLink WITH
    channel <- InBand(b, OnWire) \o InBand(b, m_queue)
                 \o (IF b = Direct THEN <<>> ELSE bands[b]),
    out <- InBand(b, delivered)

\* Packets of one band arrive in the order in which they were sent, each once,
\* whatever the other bands, the queues and the transmitter do meanwhile: the
\* link implements FifoLink!Spec for every band.
FifoPerBand ==
    /\ \A b \in Band \cup {Direct} : Link(b)!Init
    /\ [][\A b \in Band \cup {Direct} : UNCHANGED Link(b)!lvars \/ Link(b)!Next]_vars

Settled(p) == \/ p \in refused \cup discarded \cup corrupted
              \/ \E i \in DOMAIN delivered : delivered[i] = p

\* Every packet sent is eventually refused, discarded, lost on the wire or
\* delivered.
EventuallySettled == \A p \in Packet : Len(sent) >= p ~> Settled(p)
=============================================================================
