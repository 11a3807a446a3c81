------------------------ MODULE PointToPoint_proofs ------------------------
(***************************************************************************)
(* Proofs about PointToPoint, for every number and size of packets, every  *)
(* number of bands, every limit and delay.  The flow control is proved for *)
(* a device queue limited in packets, as it is unless configured otherwise.*)
(***************************************************************************)
EXTENDS PointToPoint, Subsequences_proofs

EventTypes ==
    \A e \in events : /\ e.ts \in Nat /\ e.ts >= now
                      /\ e.uid \in 0..(uid - 1)
                      /\ e.what \in {"Wake", "TransmitComplete", "Receive"}
                      /\ e.pkt \in Packet \cup {NoPacket}
                      /\ e.what = "Receive" => e.pkt \in Packet

DeviceTypes ==
    /\ uid \in Nat
    /\ EventTypes
    /\ m_stoppedByDevice \in BOOLEAN
    /\ m_queue \in Seq(Packet)
    /\ m_txMachineState \in {"READY", "BUSY"}
    /\ m_currentPkt \in Packet \cup {NoPacket}

RunTypes ==
    /\ now \in Nat
    /\ bands \in [Band -> Seq(Packet)]
    /\ quota \in 0..Quota
    /\ m_running \in BOOLEAN
    /\ m_running => quota > 0
    /\ sent \in Seq(Band \cup {Direct}) /\ Len(sent) <= MaxPackets
    /\ refused \subseteq Packet /\ discarded \subseteq Packet
    /\ corrupted \subseteq Packet /\ delivered \in Seq(Packet)

\* sums[i] is the size of the first i packets of q, and n that of all.
Sums(sums, q, n) ==
    /\ sums \in [0..Len(q) -> Nat]
    /\ sums[0] = 0
    /\ \A i \in 1..Len(q) : sums[i] = sums[i - 1] + WireSize(q[i])
    /\ \A i, j \in 0..Len(q) : i <= j => sums[i] <= sums[j]
    /\ n = sums[Len(q)]

\* The counter of bytes is the size of the queue: it cannot fall below zero.
BytesExact == \E sums : Sums(sums, m_queue, m_nBytes)

TypeInv == DeviceTypes /\ RunTypes /\ BytesExact
-----------------------------------------------------------------------------
(* Lemmas on the operators. *)

LEMMA SizeType ==
    ASSUME NEW p \in Packet
    PROVE  WireSize(p) \in Nat \ {0} /\ TxTime(p) \in Nat \ {0}
BY LinkAssumption DEF WireSize, TxTime, Packet

LEMMA RoomType ==
    ASSUME NEW n \in Nat, NEW b \in Int, NEW s \in Int
    PROVE  Room(n, b, s) \in BOOLEAN
<1>1. CASE Unit = "packets"
  BY <1>1, LinkAssumption DEF Room
<1>2. CASE Unit # "packets"
  BY <1>2, LinkAssumption DEF Room
<1> QED BY <1>1, <1>2

\* A queue disc that is not empty has a first band.
LEMMA FirstBandType ==
    ASSUME NonEmpty # {}
    PROVE  FirstBand \in Band /\ bands[FirstBand] # <<>>
<1>1. NonEmpty \in SUBSET (1..Bands) /\ Bands \in Nat
  BY LinkAssumption DEF NonEmpty, Band
<1>2. \E b \in NonEmpty : \A c \in NonEmpty : b <= c
  BY <1>1, Least
<1>3. FirstBand \in NonEmpty
  BY <1>2 DEF FirstBand
<1> QED BY <1>3 DEF NonEmpty

\* What is left of a queue, its head taken.
LEMMA TailOf ==
    ASSUME NEW S, NEW q \in Seq(S), q # <<>>
    PROVE  /\ Head(q) \in S /\ Tail(q) \in Seq(S)
           /\ Len(q) \in Nat \ {0} /\ Len(Tail(q)) = Len(q) - 1
           /\ Head(q) = q[1]
           /\ \A i \in 1..(Len(q) - 1) : Tail(q)[i] = q[i + 1]
BY HeadTailProperties, EmptySeq

LEMMA AppendTo ==
    ASSUME NEW S, NEW q \in Seq(S), NEW p \in S
    PROVE  /\ Append(q, p) \in Seq(S)
           /\ Append(q, p) # <<>>
           /\ Len(Append(q, p)) = Len(q) + 1
           /\ Append(q, p)[Len(q) + 1] = p
           /\ \A i \in 1..Len(q) : Append(q, p)[i] = q[i]
OBVIOUS

LEMMA SumsAppend ==
    ASSUME NEW q \in Seq(Packet), NEW p \in Packet, NEW n, NEW f, Sums(f, q, n)
    PROVE  \E g : Sums(g, Append(q, p), n + WireSize(p))
<1> DEFINE g == [i \in 0..(Len(q) + 1) |-> IF i <= Len(q) THEN f[i]
                                           ELSE n + WireSize(p)]
<1>1. WireSize(p) \in Nat /\ Len(q) \in Nat
  BY SizeType
<1>2. /\ f \in [0..Len(q) -> Nat] /\ f[0] = 0 /\ n = f[Len(q)] /\ n \in Nat
      /\ \A i \in 1..Len(q) : f[i] = f[i - 1] + WireSize(q[i])
      /\ \A i, j \in 0..Len(q) : i <= j => f[i] <= f[j]
  BY <1>1 DEF Sums
<1>3. g \in [0..Len(Append(q, p)) -> Nat]
  BY <1>1, <1>2, AppendTo
<1>4. g[0] = 0
  BY <1>1, <1>2
<1>5. ASSUME NEW i \in 1..Len(Append(q, p))
      PROVE  g[i] = g[i - 1] + WireSize(Append(q, p)[i])
  <2>1. CASE i <= Len(q)
    <3>1. g[i] = f[i] /\ g[i - 1] = f[i - 1]
      BY <1>1, <2>1
    <3>2. Append(q, p)[i] = q[i]
      BY <2>1, <1>1, AppendTo
    <3> QED BY <3>1, <3>2, <2>1, <1>1, <1>2
  <2>2. CASE i > Len(q)
    <3>1. i = Len(q) + 1
      BY <2>2, <1>1, AppendTo
    <3>2. g[i] = n + WireSize(p) /\ g[i - 1] = f[Len(q)]
      BY <3>1, <1>1
    <3>3. Append(q, p)[i] = p
      BY <3>1, AppendTo
    <3> QED BY <3>2, <3>3, <1>2
  <2> QED BY <2>1, <2>2, <1>1
<1>6. ASSUME NEW i \in 0..Len(Append(q, p)), NEW j \in 0..Len(Append(q, p)),
             i <= j
      PROVE  g[i] <= g[j]
  <2>1. i \in 0..(Len(q) + 1) /\ j \in 0..(Len(q) + 1)
    BY AppendTo
  <2>2. CASE j <= Len(q)
    BY <1>1, <1>2, <1>6, <2>1, <2>2
  <2>3. CASE j > Len(q)
    <3>1. g[j] = n + WireSize(p)
      BY <2>1, <2>3
    <3>2. i <= Len(q) => g[i] = f[i] /\ f[i] <= f[Len(q)] /\ f[i] \in Nat
      BY <1>1, <1>2, <2>1
    <3>3. i > Len(q) => g[i] = n + WireSize(p)
      BY <2>1
    <3> QED BY <1>1, <1>2, <2>1, <3>1, <3>2, <3>3
  <2> QED BY <2>1, <2>2, <2>3, <1>1
<1>7. n + WireSize(p) = g[Len(Append(q, p))]
  BY <1>1, AppendTo
<1> HIDE DEF g
<1>8. Sums(g, Append(q, p), n + WireSize(p))
  BY <1>3, <1>4, <1>5, <1>6, <1>7 DEF Sums
<1> QED BY <1>8

LEMMA SumsTail ==
    ASSUME NEW q \in Seq(Packet), q # <<>>, NEW n, NEW f, Sums(f, q, n)
    PROVE  \E g : Sums(g, Tail(q), n - WireSize(Head(q)))
<1> DEFINE g == [i \in 0..(Len(q) - 1) |-> f[i + 1] - f[1]]
<1>1. Len(q) \in Nat \ {0} /\ Len(Tail(q)) = Len(q) - 1 /\ Head(q) = q[1]
  BY TailOf
<1>2. /\ f \in [0..Len(q) -> Nat] /\ f[0] = 0 /\ n = f[Len(q)] /\ n \in Nat
      /\ \A i \in 1..Len(q) : f[i] = f[i - 1] + WireSize(q[i])
      /\ \A i, j \in 0..Len(q) : i <= j => f[i] <= f[j]
  BY <1>1 DEF Sums
<1>3. f[1] = WireSize(Head(q)) /\ f[1] \in Nat
  <2>1. 1 \in 1..Len(q) /\ 1 \in 0..Len(q) /\ 1 - 1 = 0
    BY <1>1
  <2>2. WireSize(q[1]) \in Nat
    BY <2>1, SizeType
  <2>3. f[1] = f[1 - 1] + WireSize(q[1])
    BY <2>1, <1>2
  <2> QED BY <2>1, <2>2, <2>3, <1>1, <1>2
<1>4. \A i \in 0..(Len(q) - 1) :
         /\ i + 1 \in 0..Len(q) /\ f[i + 1] \in Nat
         /\ f[1] <= f[i + 1]
         /\ g[i] = f[i + 1] - f[1]
  <2> SUFFICES ASSUME NEW i \in 0..(Len(q) - 1)
               PROVE  /\ i + 1 \in 0..Len(q) /\ f[i + 1] \in Nat
                      /\ f[1] <= f[i + 1]
                      /\ g[i] = f[i + 1] - f[1]
    OBVIOUS
  <2>1. i + 1 \in 0..Len(q) /\ 1 \in 0..Len(q) /\ 1 <= i + 1
    BY <1>1
  <2> QED BY <2>1, <1>2
<1>5. g \in [0..Len(Tail(q)) -> Nat]
  BY <1>1, <1>3, <1>4
<1>6. g[0] = 0
  BY <1>1, <1>3
<1>7. ASSUME NEW i \in 1..Len(Tail(q))
      PROVE  g[i] = g[i - 1] + WireSize(Tail(q)[i])
  <2>1. i \in 0..(Len(q) - 1) /\ i - 1 \in 0..(Len(q) - 1) /\ i + 1 \in 1..Len(q)
    BY <1>1
  <2>2. Tail(q)[i] = q[i + 1] /\ WireSize(q[i + 1]) \in Nat
    BY <2>1, <1>1, TailOf, SizeType
  <2>3. f[i + 1] = f[i] + WireSize(q[i + 1])
    BY <2>1, <1>2
  <2>4. g[i] = f[i + 1] - f[1] /\ g[i - 1] = f[i] - f[1] /\ f[i] \in Nat
    BY <2>1, <1>4, <1>1, <1>2
  <2> QED BY <2>2, <2>3, <2>4, <1>3
<1>8. ASSUME NEW i \in 0..Len(Tail(q)), NEW j \in 0..Len(Tail(q)), i <= j
      PROVE  g[i] <= g[j]
  <2>1. /\ i + 1 \in 0..Len(q) /\ j + 1 \in 0..Len(q) /\ i + 1 <= j + 1
        /\ i \in 0..(Len(q) - 1) /\ j \in 0..(Len(q) - 1)
    BY <1>1, <1>8
  <2>2. f[i + 1] <= f[j + 1]
    BY <2>1, <1>2
  <2> QED BY <2>1, <2>2, <1>3, <1>4
<1>9. n - WireSize(Head(q)) = g[Len(Tail(q))]
  BY <1>1, <1>2, <1>3
<1> HIDE DEF g
<1>10. Sums(g, Tail(q), n - WireSize(Head(q)))
  BY <1>5, <1>6, <1>7, <1>8, <1>9 DEF Sums
<1> QED BY <1>10

LEMMA DequeueType ==
    ASSUME NEW q \in Seq(Packet), q # <<>>, NEW b, NEW stopped \in BOOLEAN,
           NEW d, d = Dequeue(q, b, stopped)
    PROVE  /\ d.pkt = Head(q) /\ d.pkt \in Packet
           /\ d.queue = Tail(q) /\ d.queue \in Seq(Packet)
           /\ d.bytes = b - WireSize(Head(q))
           /\ d.stopped \in BOOLEAN
           /\ d.wake \subseteq {Event(0, uid, "Wake", NoPacket)}
<1>1. /\ d.pkt = Head(q) /\ d.queue = Tail(q)
      /\ d.bytes = b - WireSize(Head(q))
  BY DEF Dequeue
<1>2. Head(q) \in Packet /\ Tail(q) \in Seq(Packet)
  BY TailOf
<1>3. d.wake \subseteq {Event(0, uid, "Wake", NoPacket)}
  <2> DEFINE room == Room(Len(q) - 1, b - WireSize(Head(q)), Mtu)
             w == Event(0, uid, "Wake", NoPacket)
  <2>1. d.wake = IF stopped /\ room THEN {w} ELSE {}
    BY DEF Dequeue
  <2> QED BY <2>1, Zenon
<1>4. d.stopped \in BOOLEAN
  <2> DEFINE room == Room(Len(q) - 1, b - WireSize(Head(q)), Mtu)
  <2>1. d.stopped = (stopped /\ ~room)
    BY DEF Dequeue
  <2> QED BY <2>1, Zenon
<1> QED BY <1>1, <1>2, <1>3, <1>4

\* The three events that TransmitStart may add.
LEMMA EventFields ==
    ASSUME NEW delay, NEW id, NEW what, NEW p
    PROVE  /\ Event(delay, id, what, p).ts = now + delay
           /\ Event(delay, id, what, p).uid = id
           /\ Event(delay, id, what, p).what = what
           /\ Event(delay, id, what, p).pkt = p
BY DEF Event

\* The start of a transmission keeps the types and the count of bytes.
LEMMA TransmitTypes ==
    ASSUME TypeInv, now' = now, NEW pending \in SUBSET events,
           NEW q \in Seq(Packet), q # <<>>, NEW b, NEW stopped \in BOOLEAN,
           \E f : Sums(f, q, b),
           TransmitStart(Dequeue(q, b, stopped), pending)
    PROVE  DeviceTypes' /\ BytesExact'
<1> DEFINE d == Dequeue(q, b, stopped)
<1>1. /\ d.pkt = Head(q) /\ d.pkt \in Packet
      /\ d.queue = Tail(q) /\ d.queue \in Seq(Packet)
      /\ d.bytes = b - WireSize(Head(q))
      /\ d.stopped \in BOOLEAN
      /\ d.wake \subseteq {Event(0, uid, "Wake", NoPacket)}
  BY DequeueType
<1> HIDE DEF d
<1>2. TransmitStart(d, pending)
  BY DEF d
<1>3. /\ m_txMachineState' = "BUSY" /\ m_currentPkt' = d.pkt
      /\ uid' = uid + 3 /\ m_queue' = d.queue /\ m_nBytes' = d.bytes
      /\ m_stoppedByDevice' = d.stopped
      /\ events' = pending \cup d.wake \cup
         {Event(TxTime(d.pkt) + Gap, uid + 1, "TransmitComplete", d.pkt),
          Event(TxTime(d.pkt) + Delay, uid + 2, "Receive", d.pkt)}
  BY <1>2 DEF TransmitStart
<1>4. now \in Nat /\ uid \in Nat /\ uid' \in Nat /\ TxTime(d.pkt) \in Nat
      /\ Gap \in Nat /\ Delay \in Nat
  BY <1>1, <1>3, SizeType, LinkAssumption DEF TypeInv, DeviceTypes, RunTypes
<1>5. EventTypes'
  <2> SUFFICES ASSUME NEW e \in events'
               PROVE /\ e.ts \in Nat /\ e.ts >= now
                     /\ e.uid \in 0..(uid' - 1)
                     /\ e.what \in {"Wake", "TransmitComplete", "Receive"}
                     /\ e.pkt \in Packet \cup {NoPacket}
                     /\ e.what = "Receive" => e.pkt \in Packet
    BY DEF EventTypes
  <2>1. CASE e \in pending
    BY <2>1, <1>3, <1>4 DEF TypeInv, DeviceTypes, EventTypes
  <2>2. CASE e = Event(0, uid, "Wake", NoPacket)
    BY <2>2, <1>3, <1>4, EventFields
  <2>3. CASE e = Event(TxTime(d.pkt) + Gap, uid + 1, "TransmitComplete", d.pkt)
    BY <2>3, <1>1, <1>3, <1>4, EventFields
  <2>4. CASE e = Event(TxTime(d.pkt) + Delay, uid + 2, "Receive", d.pkt)
    BY <2>4, <1>1, <1>3, <1>4, EventFields
  <2> QED BY <2>1, <2>2, <2>3, <2>4, <1>1, <1>3
<1>6. DeviceTypes'
  BY <1>1, <1>3, <1>4, <1>5 DEF DeviceTypes
<1>7. \E g : Sums(g, Tail(q), b - WireSize(Head(q)))
  BY SumsTail
<1> QED BY <1>1, <1>3, <1>6, <1>7 DEF BytesExact

\* The queue with one packet more: what PacketEnqueued and Dequeue are given.
LEMMA EnqueueType ==
    ASSUME TypeInv, NEW p \in Packet
    PROVE  LET q == Append(m_queue, p)
               b == m_nBytes + WireSize(p)
           IN /\ q \in Seq(Packet) /\ q # <<>>
              /\ \E f : Sums(f, q, b)
              /\ StoppedAfterEnqueue(q, b) \in BOOLEAN
<1> DEFINE q == Append(m_queue, p)
           b == m_nBytes + WireSize(p)
<1>1. q \in Seq(Packet) /\ q # <<>>
  BY AppendTo DEF TypeInv, DeviceTypes
<1>2. \E f : Sums(f, q, b)
  BY SumsAppend DEF TypeInv, DeviceTypes, BytesExact
<1>3. StoppedAfterEnqueue(q, b) \in BOOLEAN
  BY Zenon DEF StoppedAfterEnqueue
<1> QED BY <1>1, <1>2, <1>3

LEMMA SendTypes ==
    ASSUME TypeInv, now' = now, NEW p \in Packet, Send(p)
    PROVE  DeviceTypes' /\ BytesExact' /\ discarded' \subseteq Packet
<1> DEFINE q == Append(m_queue, p)
           b == m_nBytes + WireSize(p)
<1>1. /\ q \in Seq(Packet) /\ q # <<>>
      /\ \E f : Sums(f, q, b)
      /\ StoppedAfterEnqueue(q, b) \in BOOLEAN
  BY EnqueueType
<1>2. discarded \subseteq Packet
  BY DEF TypeInv, RunTypes
<1>3. CASE SendReady(p)
  <2>1. /\ TransmitStart(Dequeue(q, b, StoppedAfterEnqueue(q, b)), events)
        /\ discarded' = discarded
    BY <1>3 DEF SendReady
  <2> HIDE DEF q, b
  <2>2. DeviceTypes' /\ BytesExact'
    BY <2>1, <1>1, TransmitTypes
  <2> QED BY <2>1, <2>2, <1>2
<1>4. CASE SendBusy(p)
  <2>1. /\ m_queue' = q /\ m_nBytes' = b
        /\ m_stoppedByDevice' = StoppedAfterEnqueue(q, b)
        /\ UNCHANGED <<uid, events, m_txMachineState, m_currentPkt, discarded>>
    BY <1>4 DEF SendBusy
  <2> HIDE DEF q, b
  <2>2. BytesExact'
    BY <2>1, <1>1 DEF BytesExact
  <2>3. EventTypes'
    BY <2>1 DEF TypeInv, DeviceTypes, EventTypes
  <2>4. DeviceTypes'
    BY <2>1, <2>3, <1>1 DEF TypeInv, DeviceTypes
  <2> QED BY <2>1, <2>2, <2>4, <1>2
<1>5. CASE SendNoRoom(p)
  <2>1. /\ m_stoppedByDevice' = TRUE /\ discarded' = discarded \cup {p}
        /\ UNCHANGED <<uid, events, m_queue, m_nBytes, m_txMachineState,
                       m_currentPkt>>
    BY <1>5 DEF SendNoRoom, device
  <2> QED BY <2>1, <1>2 DEF TypeInv, DeviceTypes, EventTypes, BytesExact
<1> QED BY <1>3, <1>4, <1>5 DEF Send
-----------------------------------------------------------------------------
(* Types. *)

LEMMA InitTypes == Init => TypeInv
<1> SUFFICES ASSUME Init PROVE TypeInv
  OBVIOUS
<1> USE DEF Init
<1>1. DeviceTypes
  <2>1. events = {} /\ uid \in Nat
    OBVIOUS
  <2>2. m_queue \in Seq(Packet)
    OBVIOUS
  <2> QED BY <2>1, <2>2 DEF DeviceTypes, EventTypes
<1>2. RunTypes
  <2>1. bands \in [Band -> Seq(Packet)]
    OBVIOUS
  <2>2. sent \in Seq(Band \cup {Direct}) /\ delivered \in Seq(Packet)
    OBVIOUS
  <2>3. sent = <<>> /\ Len(sent) = 0
    OBVIOUS
  <2>4. now \in Nat /\ quota \in 0..Quota /\ Len(sent) <= MaxPackets
    BY <2>3, LinkAssumption
  <2>5. m_running \in BOOLEAN /\ ~m_running
    OBVIOUS
  <2>6. /\ refused \subseteq Packet /\ discarded \subseteq Packet
        /\ corrupted \subseteq Packet
    OBVIOUS
  <2> QED BY <2>1, <2>2, <2>4, <2>5, <2>6, Zenon DEF RunTypes
<1>3. BytesExact
  <2> DEFINE f == [i \in 0..0 |-> 0]
  <2>1. m_queue = <<>> /\ m_nBytes = 0 /\ Len(m_queue) = 0
    BY DEF Init
  <2>2. Sums(f, m_queue, m_nBytes)
    BY <2>1 DEF Sums
  <2> QED BY <2>2 DEF BytesExact
<1> QED BY <1>1, <1>2, <1>3 DEF TypeInv

\* The next packet sent from above is a packet.
LEMMA NextPacket ==
    ASSUME TypeInv, Len(sent) < MaxPackets
    PROVE  Len(sent) \in Nat /\ Len(sent) + 1 \in Packet
BY LinkAssumption DEF TypeInv, RunTypes, Packet

LEMMA TcSendTypes ==
    ASSUME TypeInv, NEW b \in Band, TcSend(b)
    PROVE  TypeInv'
<1> DEFINE p == Len(sent) + 1
<1>1. /\ sent' = Append(sent, b) /\ Len(sent) < MaxPackets
      /\ m_running' = TRUE /\ quota' = Quota
      /\ UNCHANGED <<now, uid, events, m_stoppedByDevice, discarded, corrupted,
                     delivered, m_queue, m_nBytes, m_txMachineState,
                     m_currentPkt>>
  BY DEF TcSend, RunBegin, device
<1>2. p \in Packet
  BY <1>1, NextPacket
<1>3. bands' \in [Band -> Seq(Packet)] /\ refused' \subseteq Packet
  <2>1. bands \in [Band -> Seq(Packet)] /\ refused \subseteq Packet
    BY DEF TypeInv, RunTypes
  <2>2. CASE refused' = refused \cup {p} /\ bands' = bands
    BY <2>1, <2>2, <1>2
  <2>3. CASE bands' = [bands EXCEPT ![b] = Append(@, p)] /\ refused' = refused
    BY <2>1, <2>3, <1>2, AppendTo
  <2> QED BY <2>2, <2>3 DEF TcSend
<1>4. sent' \in Seq(Band \cup {Direct}) /\ Len(sent') <= MaxPackets
  BY <1>1, NextPacket, LinkAssumption DEF TypeInv, RunTypes
<1>5. DeviceTypes' /\ BytesExact'
  BY <1>1 DEF TypeInv, DeviceTypes, EventTypes, BytesExact
<1>6. RunTypes'
  BY <1>1, <1>3, <1>4, LinkAssumption DEF TypeInv, RunTypes
<1> QED BY <1>5, <1>6 DEF TypeInv

LEMMA DirectSendTypes == TypeInv /\ DirectSend => TypeInv'
<1> SUFFICES ASSUME TypeInv, DirectSend PROVE TypeInv'
  OBVIOUS
<1> DEFINE p == Len(sent) + 1
<1>1. /\ sent' = Append(sent, Direct) /\ Len(sent) < MaxPackets
      /\ Send(p)
      /\ UNCHANGED <<now, bands, quota, m_running, refused, corrupted,
                     delivered>>
  BY DEF DirectSend
<1>2. p \in Packet
  BY <1>1, NextPacket
<1>3. DeviceTypes' /\ BytesExact' /\ discarded' \subseteq Packet
  BY <1>1, <1>2, SendTypes
<1>4. sent' \in Seq(Band \cup {Direct}) /\ Len(sent') <= MaxPackets
  BY <1>1, NextPacket, LinkAssumption DEF TypeInv, RunTypes
<1>5. RunTypes'
  BY <1>1, <1>3, <1>4 DEF TypeInv, RunTypes
<1> QED BY <1>3, <1>5 DEF TypeInv

\* The head of the first band, and what is left of the bands.
LEMMA FirstBandHead ==
    ASSUME TypeInv, NonEmpty # {}, NEW b, b = FirstBand
    PROVE  /\ b \in Band /\ bands[b] \in Seq(Packet) /\ bands[b] # <<>>
           /\ Head(bands[b]) \in Packet
           /\ [bands EXCEPT ![b] = Tail(@)] \in [Band -> Seq(Packet)]
<1>1. b \in Band /\ bands[b] # <<>>
  BY FirstBandType
<1>2. bands \in [Band -> Seq(Packet)]
  BY DEF TypeInv, RunTypes
<1>3. Head(bands[b]) \in Packet /\ Tail(bands[b]) \in Seq(Packet)
  BY <1>1, <1>2, TailOf
<1> QED BY <1>1, <1>2, <1>3

LEMMA RunSendTypes == TypeInv /\ RunSend => TypeInv'
<1> SUFFICES ASSUME TypeInv, RunSend PROVE TypeInv'
  OBVIOUS
<1> DEFINE b == FirstBand
           left == [bands EXCEPT ![b] = Tail(@)]
           more == \E c \in Band : left[c] # <<>>
<1>1. /\ m_running /\ NonEmpty # {}
      /\ bands' = left
      /\ Send(Head(bands[b]))
      /\ quota' = quota - 1
      /\ UNCHANGED <<now, sent, refused, corrupted, delivered>>
  BY DEF RunSend
<1>2. m_running' = (more /\ ~m_stoppedByDevice' /\ quota - 1 > 0)
  BY DEF RunSend
<1>3. Head(bands[b]) \in Packet /\ left \in [Band -> Seq(Packet)]
  BY <1>1, FirstBandHead
<1>4. DeviceTypes' /\ BytesExact' /\ discarded' \subseteq Packet
  BY <1>1, <1>3, SendTypes
<1>5. m_running' \in BOOLEAN /\ (m_running' => quota - 1 > 0)
  <2> HIDE DEF more
  <2> QED BY <1>2, Zenon
<1>6. quota' \in 0..Quota /\ (m_running' => quota' > 0)
  <2>1. quota \in 0..Quota /\ quota > 0 /\ Quota \in Nat
    BY <1>1, LinkAssumption DEF TypeInv, RunTypes
  <2> QED BY <2>1, <1>1, <1>5
<1>7. RunTypes'
  <2> HIDE DEF left
  <2> QED BY <1>1, <1>3, <1>4, <1>5, <1>6 DEF TypeInv, RunTypes
<1> QED BY <1>4, <1>7 DEF TypeInv

LEMMA RunEndTypes == TypeInv /\ RunEnd => TypeInv'
BY DEF RunEnd, device, history, TypeInv, DeviceTypes, EventTypes, RunTypes,
       BytesExact

LEMMA WakeTypes ==
    ASSUME TypeInv, NEW e \in events, Wake(e)
    PROVE  TypeInv'
<1>1. /\ events' = events \ {e} /\ m_running' = TRUE /\ quota' = Quota
      /\ UNCHANGED <<now, uid, bands, m_stoppedByDevice, m_queue, m_nBytes,
                     m_txMachineState, m_currentPkt, sent, refused, discarded,
                     corrupted, delivered>>
  BY DEF Wake, RunBegin, device, history
<1>2. DeviceTypes' /\ BytesExact'
  BY <1>1 DEF TypeInv, DeviceTypes, EventTypes, BytesExact
<1>3. RunTypes'
  BY <1>1, LinkAssumption DEF TypeInv, RunTypes
<1> QED BY <1>2, <1>3 DEF TypeInv

LEMMA TransmitCompleteTypes ==
    ASSUME TypeInv, NEW e \in events, TransmitComplete(e)
    PROVE  TypeInv'
<1>1. UNCHANGED <<now, bands, quota, m_running, sent, refused, discarded,
                  corrupted, delivered>>
  BY DEF TransmitComplete, history
<1>2. RunTypes'
  BY <1>1 DEF TypeInv, RunTypes
<1>3. CASE m_queue = <<>>
  <2>1. /\ m_txMachineState' = "READY" /\ m_currentPkt' = NoPacket
        /\ events' = events \ {e}
        /\ UNCHANGED <<uid, m_queue, m_nBytes, m_stoppedByDevice>>
    BY <1>3 DEF TransmitComplete
  <2>2. DeviceTypes' /\ BytesExact'
    BY <1>1, <2>1 DEF TypeInv, DeviceTypes, EventTypes, BytesExact
  <2> QED BY <1>2, <2>2 DEF TypeInv
<1>4. CASE m_queue # <<>>
  <2>1. TransmitStart(Dequeue(m_queue, m_nBytes, m_stoppedByDevice),
                      events \ {e})
    BY <1>4 DEF TransmitComplete
  <2>2. /\ m_queue \in Seq(Packet) /\ m_stoppedByDevice \in BOOLEAN
        /\ \E f : Sums(f, m_queue, m_nBytes)
    BY DEF TypeInv, DeviceTypes, BytesExact
  <2>3. DeviceTypes' /\ BytesExact'
    BY <2>1, <2>2, <1>1, <1>4, TransmitTypes
  <2> QED BY <1>2, <2>3 DEF TypeInv
<1> QED BY <1>3, <1>4

LEMMA ReceiveTypes ==
    ASSUME TypeInv, NEW e \in events, Receive(e)
    PROVE  TypeInv'
<1>1. /\ events' = events \ {e}
      /\ UNCHANGED <<now, uid, bands, quota, m_running, m_stoppedByDevice,
                     m_queue, m_nBytes, m_txMachineState, m_currentPkt, sent,
                     refused, discarded>>
  BY DEF Receive, device
<1>2. e.pkt \in Packet
  BY DEF Receive, TypeInv, DeviceTypes, EventTypes
<1>3. delivered' \in Seq(Packet) /\ corrupted' \subseteq Packet
  <2>1. delivered \in Seq(Packet) /\ corrupted \subseteq Packet
    BY DEF TypeInv, RunTypes
  <2>2. CASE delivered' = Append(delivered, e.pkt) /\ corrupted' = corrupted
    BY <2>1, <2>2, <1>2
  <2>3. CASE corrupted' = corrupted \cup {e.pkt} /\ delivered' = delivered
    BY <2>1, <2>3, <1>2
  <2> QED BY <2>2, <2>3 DEF Receive
<1>4. DeviceTypes' /\ BytesExact'
  BY <1>1 DEF TypeInv, DeviceTypes, EventTypes, BytesExact
<1>5. RunTypes'
  BY <1>1, <1>3 DEF TypeInv, RunTypes
<1> QED BY <1>4, <1>5 DEF TypeInv

LEMMA AdvanceTypes == TypeInv /\ Advance => TypeInv'
<1> SUFFICES ASSUME TypeInv, Advance PROVE TypeInv'
  OBVIOUS
<1>1. /\ \A e \in events : e.ts > now
      /\ now' = now + 1
      /\ UNCHANGED <<uid, events, bands, quota, m_running, m_stoppedByDevice,
                     m_queue, m_nBytes, m_txMachineState, m_currentPkt, sent,
                     refused, discarded, corrupted, delivered>>
  BY DEF Advance, device, history
<1>2. now \in Nat
  BY DEF TypeInv, RunTypes
<1>3. EventTypes'
  BY <1>1, <1>2 DEF TypeInv, DeviceTypes, EventTypes
<1>4. DeviceTypes' /\ RunTypes' /\ BytesExact'
  BY <1>1, <1>2, <1>3 DEF TypeInv, DeviceTypes, RunTypes, BytesExact
<1> QED BY <1>4 DEF TypeInv

LEMMA NextTypes == TypeInv /\ [Next]_vars => TypeInv'
<1> SUFFICES ASSUME TypeInv, [Next]_vars PROVE TypeInv'
  OBVIOUS
<1>1. CASE \E b \in Band : TcSend(b)
  BY <1>1, TcSendTypes
<1>2. CASE DirectSend
  BY <1>2, DirectSendTypes
<1>3. CASE Run
  BY <1>3, RunSendTypes, RunEndTypes DEF Run
<1>4. CASE Execute
  BY <1>4, WakeTypes, TransmitCompleteTypes, ReceiveTypes DEF Execute
<1>5. CASE Advance
  BY <1>5, AdvanceTypes
<1>6. CASE UNCHANGED vars
  BY <1>6 DEF vars, device, history, TypeInv, DeviceTypes, EventTypes,
              RunTypes, BytesExact
<1> QED BY <1>1, <1>2, <1>3, <1>4, <1>5, <1>6 DEF Next

LEMMA BytesType == TypeInv => m_nBytes \in Nat
<1> SUFFICES ASSUME TypeInv PROVE m_nBytes \in Nat
  OBVIOUS
<1>1. PICK f : Sums(f, m_queue, m_nBytes)
  BY DEF TypeInv, BytesExact
<1>2. Len(m_queue) \in Nat
  BY DEF TypeInv, DeviceTypes
<1> QED BY <1>1, <1>2 DEF Sums

\* Every variable keeps its type; above all the count of bytes in the device
\* queue, from which the size of each packet taken out is subtracted, never
\* falls below zero.
THEOREM TypeCorrect == Spec => []TypeOK
<1>1. TypeInv => TypeOK
  BY BytesType DEF TypeInv, DeviceTypes, EventTypes, RunTypes, TypeOK
<1> QED BY <1>1, InitTypes, NextTypes, PTL DEF Spec

LEMMA Typed == Spec => []TypeInv
BY InitTypes, NextTypes, PTL DEF Spec
-----------------------------------------------------------------------------
(* The transmitter. *)

\* What TransmitStart leaves, if no other transmission was to complete.
LEMMA TransmitExact ==
    ASSUME TypeInv, NEW pending \in SUBSET events,
           \A e \in pending : e.what # "TransmitComplete",
           NEW q \in Seq(Packet), q # <<>>, NEW b, NEW stopped \in BOOLEAN,
           TransmitStart(Dequeue(q, b, stopped), pending)
    PROVE  TransmitterExact'
<1> DEFINE d == Dequeue(q, b, stopped)
           tc == Event(TxTime(d.pkt) + Gap, uid + 1, "TransmitComplete", d.pkt)
           rx == Event(TxTime(d.pkt) + Delay, uid + 2, "Receive", d.pkt)
           wk == Event(0, uid, "Wake", NoPacket)
<1>1. d.pkt \in Packet /\ d.wake \subseteq {wk}
  BY DequeueType
<1>2. /\ m_txMachineState' = "BUSY" /\ m_currentPkt' = d.pkt
      /\ events' = pending \cup d.wake \cup {tc, rx}
  BY DEF TransmitStart
<1>3. d.pkt # NoPacket
  BY <1>1, LinkAssumption DEF Packet, NoPacket
<1>4. /\ tc.what = "TransmitComplete" /\ tc.pkt = d.pkt
      /\ rx.what = "Receive" /\ wk.what = "Wake"
  BY EventFields
<1> HIDE DEF d, tc, rx, wk
<1>5. Pending("TransmitComplete")' = {tc}
  <2>1. \A e \in events' : e.what = "TransmitComplete" <=> e = tc
    BY <1>1, <1>2, <1>4
  <2>2. tc \in events'
    BY <1>2
  <2> QED BY <2>1, <2>2 DEF Pending
<1>6. tc \in events'
  BY <1>2
<1> QED BY <1>2, <1>3, <1>4, <1>5, <1>6 DEF TransmitterExact

\* A step that leaves the device alone and takes or adds no completion.
LEMMA TransmitterKept ==
    ASSUME TransmitterExact,
           UNCHANGED <<m_txMachineState, m_currentPkt>>,
           m_queue' = m_queue \/ m_txMachineState = "BUSY",
           Pending("TransmitComplete")' = Pending("TransmitComplete")
    PROVE  TransmitterExact'
<1>1. CASE m_txMachineState = "BUSY"
  <2>1. PICK e \in events : /\ Pending("TransmitComplete") = {e}
                            /\ e.pkt = m_currentPkt
    BY <1>1 DEF TransmitterExact
  <2>2. e \in Pending("TransmitComplete")'
    BY <2>1
  <2>3. e \in events'
    BY <2>2 DEF Pending
  <2>4. m_currentPkt # NoPacket
    BY <1>1 DEF TransmitterExact
  <2> QED BY <1>1, <2>1, <2>3, <2>4 DEF TransmitterExact
<1>2. CASE m_txMachineState # "BUSY"
  BY <1>2 DEF TransmitterExact
<1> QED BY <1>1, <1>2

LEMMA SendExact ==
    ASSUME TypeInv, TransmitterExact, NEW p \in Packet, Send(p)
    PROVE  TransmitterExact'
<1> DEFINE q == Append(m_queue, p)
           b == m_nBytes + WireSize(p)
<1>1. CASE SendReady(p)
  <2>1. /\ m_txMachineState = "READY"
        /\ TransmitStart(Dequeue(q, b, StoppedAfterEnqueue(q, b)), events)
    BY <1>1 DEF SendReady
  <2>2. q \in Seq(Packet) /\ q # <<>> /\ StoppedAfterEnqueue(q, b) \in BOOLEAN
    BY EnqueueType
  <2>3. \A e \in events : e.what # "TransmitComplete"
    BY <2>1 DEF TransmitterExact, Pending
  <2> HIDE DEF q, b
  <2> QED BY <2>1, <2>2, <2>3, TransmitExact
<1>2. CASE SendBusy(p)
  <2>1. m_txMachineState = "BUSY"
        /\ UNCHANGED <<events, m_txMachineState, m_currentPkt>>
    BY <1>2 DEF SendBusy
  <2> QED BY <2>1, TransmitterKept DEF Pending
<1>3. CASE SendNoRoom(p)
  BY <1>3, TransmitterKept DEF SendNoRoom, device, Pending
<1> QED BY <1>1, <1>2, <1>3 DEF Send

LEMMA TransmitCompleteExact ==
    ASSUME TypeInv, TransmitterExact, NEW e \in events, TransmitComplete(e)
    PROVE  TransmitterExact'
<1>1. e \in Pending("TransmitComplete")
  BY DEF TransmitComplete, Pending
<1>2. m_txMachineState = "BUSY"
  BY <1>1 DEF TransmitterExact, TypeInv, DeviceTypes
<1>3. Pending("TransmitComplete") = {e}
  BY <1>1, <1>2 DEF TransmitterExact
<1>4. \A f \in events \ {e} : f.what # "TransmitComplete"
  BY <1>3 DEF Pending
<1>5. CASE m_queue = <<>>
  BY <1>4, <1>5 DEF TransmitComplete, TransmitterExact, Pending
<1>6. CASE m_queue # <<>>
  <2>1. TransmitStart(Dequeue(m_queue, m_nBytes, m_stoppedByDevice),
                      events \ {e})
    BY <1>6 DEF TransmitComplete
  <2>2. m_queue \in Seq(Packet) /\ m_stoppedByDevice \in BOOLEAN
    BY DEF TypeInv, DeviceTypes
  <2> QED BY <2>1, <2>2, <1>4, <1>6, TransmitExact
<1> QED BY <1>5, <1>6

\* An event of another kind is taken, or time goes on, and the device rests.
LEMMA OtherEventExact ==
    ASSUME TransmitterExact, UNCHANGED <<m_txMachineState, m_currentPkt, m_queue>>,
           \/ events' = events
           \/ \E e \in events : /\ e.what # "TransmitComplete"
                                /\ events' = events \ {e}
    PROVE  TransmitterExact'
BY TransmitterKept DEF Pending

LEMMA NextExact == TypeInv /\ TransmitterExact /\ [Next]_vars => TransmitterExact'
<1> SUFFICES ASSUME TypeInv, TransmitterExact, [Next]_vars
             PROVE  TransmitterExact'
  OBVIOUS
<1>1. CASE \E b \in Band : TcSend(b)
  BY <1>1, OtherEventExact DEF TcSend, device
<1>2. CASE DirectSend
  <2>1. Len(sent) + 1 \in Packet /\ Send(Len(sent) + 1)
    BY <1>2, NextPacket DEF DirectSend
  <2> QED BY <2>1, SendExact
<1>3. CASE RunSend
  <2>1. Head(bands[FirstBand]) \in Packet /\ Send(Head(bands[FirstBand]))
    BY <1>3, FirstBandHead DEF RunSend
  <2> QED BY <2>1, SendExact
<1>4. CASE RunEnd
  BY <1>4, OtherEventExact DEF RunEnd, device
<1>5. CASE Execute
  <2>1. PICK e \in events : Wake(e) \/ TransmitComplete(e) \/ Receive(e)
    BY <1>5 DEF Execute
  <2>2. CASE Wake(e)
    BY <2>2, OtherEventExact DEF Wake, device
  <2>3. CASE TransmitComplete(e)
    BY <2>3, TransmitCompleteExact
  <2>4. CASE Receive(e)
    BY <2>4, OtherEventExact DEF Receive, device
  <2> QED BY <2>1, <2>2, <2>3, <2>4
<1>6. CASE Advance
  BY <1>6, OtherEventExact DEF Advance, device
<1>7. CASE UNCHANGED vars
  BY <1>7, OtherEventExact DEF vars, device
<1> QED BY <1>1, <1>2, <1>3, <1>4, <1>5, <1>6, <1>7 DEF Next, Run

\* The device is busy exactly while one TransmitComplete is to come, for the
\* packet it holds, and leaves no packet in its queue when it is ready: the
\* assertions in TransmitStart and TransmitComplete never fail, whoever calls
\* the device's Send and in whatever order its events are taken.
THEOREM TransmitterCorrect == Spec => []TransmitterExact
<1>1. Init => TransmitterExact
  BY DEF Init, TransmitterExact, Pending
<1> QED BY <1>1, Typed, NextExact, PTL DEF Spec
-----------------------------------------------------------------------------
(* The flow control between the queue disc and a device queue that counts  *)
(* packets.                                                                *)

\* The flag is set exactly while the device queue is full.
FlagExact == /\ Len(m_queue) <= MaxSize
             /\ m_stoppedByDevice <=> Len(m_queue) = MaxSize

\* A wake callback is due at once, and before the transmission under way ends.
WakeFirst ==
    \A w, e \in events : w.what = "Wake" =>
        /\ w.ts = now
        /\ e.what = "TransmitComplete" => e.ts > now

LEMMA RoomInPackets ==
    ASSUME Unit = "packets", NEW n, NEW b, NEW s
    PROVE  Room(n, b, s) <=> n + 1 <= MaxSize
BY DEF Room

\* Taking a packet out of a queue within its limit ends the stop; the queue
\* disc is woken if it had been stopped.
LEMMA DequeueFlow ==
    ASSUME Unit = "packets", NEW q \in Seq(Packet), q # <<>>,
           Len(q) <= MaxSize, NEW b, NEW stopped \in BOOLEAN
    PROVE  LET d == Dequeue(q, b, stopped)
           IN /\ Len(d.queue) = Len(q) - 1 /\ Len(d.queue) < MaxSize
              /\ d.stopped = FALSE
              /\ stopped => d.wake = {Event(0, uid, "Wake", NoPacket)}
<1> DEFINE d == Dequeue(q, b, stopped)
           room == Room(Len(q) - 1, b - WireSize(Head(q)), Mtu)
           w == Event(0, uid, "Wake", NoPacket)
<1>1. Len(q) \in Nat \ {0} /\ Len(Tail(q)) = Len(q) - 1
  BY TailOf
<1>2. room = TRUE
  <2>1. Len(q) - 1 + 1 <= MaxSize
    BY <1>1, LinkAssumption
  <2>2. room = (Len(q) - 1 + 1 <= MaxSize)
    BY DEF Room
  <2> QED BY <2>1, <2>2
<1>3. /\ d.queue = Tail(q) /\ d.stopped = (stopped /\ ~room)
      /\ d.wake = IF stopped /\ room THEN {w} ELSE {}
  BY DEF Dequeue
<1>4. d.stopped = FALSE
  BY <1>2, <1>3
<1>5. stopped => d.wake = {w}
  BY <1>2, <1>3
<1>6. Len(d.queue) = Len(q) - 1 /\ Len(d.queue) < MaxSize
  BY <1>1, <1>3, LinkAssumption
<1> QED BY <1>4, <1>5, <1>6

\* A transmission starts: there is room in the queue, its end is yet to come,
\* and the queue disc is woken if it was stopped.
LEMMA TransmitFlow ==
    ASSUME Unit = "packets", TypeInv, now' = now,
           NEW pending \in SUBSET events,
           \A e \in pending : /\ e.what # "TransmitComplete"
                              /\ e.what = "Wake" => e.ts = now,
           NEW q \in Seq(Packet), q # <<>>, Len(q) <= MaxSize,
           NEW b, NEW stopped \in BOOLEAN,
           TransmitStart(Dequeue(q, b, stopped), pending)
    PROVE  /\ FlagExact' /\ WakeFirst'
           /\ m_stoppedByDevice' = FALSE
           /\ m_txMachineState' = "BUSY"
           /\ Len(m_queue') = Len(q) - 1
           /\ stopped => Pending("Wake")' # {}
<1> DEFINE d == Dequeue(q, b, stopped)
           tc == Event(TxTime(d.pkt) + Gap, uid + 1, "TransmitComplete", d.pkt)
           rx == Event(TxTime(d.pkt) + Delay, uid + 2, "Receive", d.pkt)
           wk == Event(0, uid, "Wake", NoPacket)
<1>1. /\ d.pkt \in Packet /\ d.queue \in Seq(Packet)
      /\ d.wake \subseteq {wk}
  BY DequeueType
<1>2. /\ Len(d.queue) = Len(q) - 1 /\ Len(d.queue) < MaxSize
      /\ d.stopped = FALSE
      /\ stopped => d.wake = {wk}
  BY DequeueFlow
<1>3. /\ m_txMachineState' = "BUSY" /\ m_queue' = d.queue
      /\ m_stoppedByDevice' = d.stopped
      /\ events' = pending \cup d.wake \cup {tc, rx}
  BY DEF TransmitStart
<1>4. now \in Nat /\ TxTime(d.pkt) \in Nat \ {0} /\ Gap \in Nat
  BY <1>1, SizeType, LinkAssumption DEF TypeInv, RunTypes
<1>5. /\ tc.what = "TransmitComplete" /\ tc.ts > now
      /\ rx.what = "Receive" /\ wk.what = "Wake" /\ wk.ts = now
  BY <1>4, EventFields
<1> HIDE DEF d, tc, rx, wk
<1>6. WakeFirst'
  <2> SUFFICES ASSUME NEW w \in events', NEW e \in events', w.what = "Wake"
               PROVE  /\ w.ts = now
                      /\ e.what = "TransmitComplete" => e.ts > now
    BY DEF WakeFirst
  <2>1. w \in pending \/ w = wk
    BY <1>1, <1>3, <1>5
  <2>2. e.what = "TransmitComplete" => e = tc
    BY <1>1, <1>3, <1>5
  <2> QED BY <2>1, <2>2, <1>5
<1>7. FlagExact'
  <2>1. Len(m_queue') <= MaxSize /\ Len(m_queue') # MaxSize
    BY <1>1, <1>2, <1>3, LinkAssumption
  <2> QED BY <2>1, <1>2, <1>3 DEF FlagExact
<1>8. stopped => Pending("Wake")' # {}
  <2> SUFFICES ASSUME stopped PROVE wk \in Pending("Wake")'
    OBVIOUS
  <2> QED BY <1>2, <1>3, <1>5 DEF Pending
<1> QED BY <1>2, <1>3, <1>6, <1>7, <1>8

\* What a call of Send does to the flow control.
LEMMA SendFlow ==
    ASSUME Unit = "packets", TypeInv, TransmitterExact, FlagExact, WakeFirst,
           now' = now, NEW p \in Packet, Send(p)
    PROVE  /\ FlagExact' /\ WakeFirst'
           /\ m_stoppedByDevice => m_stoppedByDevice'
           /\ ~m_stoppedByDevice => discarded' = discarded
           /\ discarded' \subseteq discarded \cup {p}
           /\ m_txMachineState = "BUSY" /\ Len(m_queue) = MaxSize - 1
                 => m_stoppedByDevice'
<1> DEFINE q == Append(m_queue, p)
           b == m_nBytes + WireSize(p)
<1>1. m_queue \in Seq(Packet) /\ Len(m_queue) \in Nat /\ MaxSize \in Nat \ {0}
      /\ m_stoppedByDevice \in BOOLEAN
  BY LinkAssumption DEF TypeInv, DeviceTypes
<1>2. q \in Seq(Packet) /\ q # <<>> /\ Len(q) = Len(m_queue) + 1
  BY <1>1, AppendTo
<1>3. StoppedAfterEnqueue(q, b) \in BOOLEAN
  BY EnqueueType
<1>4. StoppedAfterEnqueue(q, b) <=> m_stoppedByDevice \/ ~(Len(q) + 1 <= MaxSize)
  BY RoomInPackets DEF StoppedAfterEnqueue
<1>5. Room(Len(m_queue), m_nBytes, WireSize(p)) <=> ~m_stoppedByDevice
  BY <1>1, RoomInPackets DEF FlagExact
<1> HIDE DEF q, b
<1>6. CASE SendReady(p)
  <2>1. /\ m_txMachineState = "READY" /\ ~m_stoppedByDevice
        /\ TransmitStart(Dequeue(q, b, StoppedAfterEnqueue(q, b)), events)
        /\ discarded' = discarded
    BY <1>5, <1>6 DEF SendReady, q, b
  <2>2. \A e \in events : /\ e.what # "TransmitComplete"
                          /\ e.what = "Wake" => e.ts = now
    BY <2>1 DEF TransmitterExact, Pending, WakeFirst
  <2>3. Len(q) <= MaxSize
    BY <1>1, <1>2, <2>1 DEF FlagExact
  <2>4. FlagExact' /\ WakeFirst'
    BY <2>1, <2>2, <2>3, <1>2, <1>3, TransmitFlow
  <2> QED BY <2>1, <2>4
<1>7. CASE SendBusy(p)
  <2>1. /\ m_queue' = q /\ ~m_stoppedByDevice
        /\ m_stoppedByDevice' = StoppedAfterEnqueue(q, b)
        /\ events' = events /\ discarded' = discarded
    BY <1>5, <1>7 DEF SendBusy, q, b
  <2>2. m_stoppedByDevice' <=> ~(Len(q) + 1 <= MaxSize)
    BY <2>1, <1>4
  <2>3. Len(q) <= MaxSize
    BY <1>1, <1>2, <2>1 DEF FlagExact
  <2>4. FlagExact'
    BY <2>1, <2>2, <2>3, <1>1, <1>2 DEF FlagExact
  <2>5. WakeFirst'
    BY <2>1 DEF WakeFirst
  <2>6. Len(m_queue) = MaxSize - 1 => m_stoppedByDevice'
    BY <2>2, <1>1, <1>2
  <2> QED BY <2>1, <2>4, <2>5, <2>6
<1>8. CASE SendNoRoom(p)
  <2>1. /\ m_stoppedByDevice /\ m_stoppedByDevice' = TRUE
        /\ UNCHANGED <<m_queue, events>>
        /\ discarded' = discarded \cup {p}
    BY <1>5, <1>8 DEF SendNoRoom, device
  <2> QED BY <2>1, <1>1 DEF FlagExact, WakeFirst
<1> QED BY <1>6, <1>7, <1>8 DEF Send

LEMMA TransmitCompleteFlow ==
    ASSUME Unit = "packets", TypeInv, TransmitterExact, FlagExact, WakeFirst,
           NEW e \in events, Due(e), TransmitComplete(e)
    PROVE  /\ Pending("Wake") = {}
           /\ FlagExact' /\ WakeFirst'
           /\ m_queue # <<>> =>
                /\ m_txMachineState' = "BUSY"
                /\ Len(m_queue') = Len(m_queue) - 1
                /\ m_stoppedByDevice => Pending("Wake")' # {}
<1>1. e.what = "TransmitComplete" /\ e.ts = now /\ now \in Nat
      /\ now' = now
  BY DEF Due, TransmitComplete, TypeInv, RunTypes
<1>2. Pending("Wake") = {}
  BY <1>1 DEF WakeFirst, Pending
<1>3. CASE m_queue = <<>>
  <2>1. /\ events' = events \ {e}
        /\ UNCHANGED <<m_queue, m_stoppedByDevice>>
    BY <1>3 DEF TransmitComplete
  <2>2. WakeFirst'
    BY <2>1, <1>1 DEF WakeFirst
  <2>3. FlagExact'
    BY <2>1 DEF FlagExact
  <2> QED BY <2>2, <2>3, <1>2, <1>3
<1>4. CASE m_queue # <<>>
  <2>1. TransmitStart(Dequeue(m_queue, m_nBytes, m_stoppedByDevice),
                      events \ {e})
    BY <1>4 DEF TransmitComplete
  <2>2. m_txMachineState = "BUSY"
    BY <1>4 DEF TransmitterExact, TypeInv, DeviceTypes
  <2>3. Pending("TransmitComplete") = {e}
    BY <2>2, <1>1 DEF TransmitterExact, Pending
  <2>4. \A f \in events \ {e} : /\ f.what # "TransmitComplete"
                                /\ f.what = "Wake" => f.ts = now
    BY <2>3, <1>2 DEF Pending
  <2>5. /\ m_queue \in Seq(Packet) /\ m_stoppedByDevice \in BOOLEAN
        /\ Len(m_queue) <= MaxSize
    BY DEF TypeInv, DeviceTypes, FlagExact
  <2>6. events \ {e} \in SUBSET events
    OBVIOUS
  <2> QED BY <2>1, <2>4, <2>5, <2>6, <1>1, <1>2, <1>4, TransmitFlow
<1> QED BY <1>3, <1>4

\* A step that leaves the queue alone and adds no event, except that time may
\* pass when nothing is due.
LEMMA FlowKept ==
    ASSUME FlagExact, WakeFirst, UNCHANGED <<m_queue, m_stoppedByDevice>>,
           events' \subseteq events,
           now' = now \/ \A e \in events : e.ts # now
    PROVE  FlagExact' /\ WakeFirst'
BY DEF FlagExact, WakeFirst

LEMMA NextFlow ==
    ASSUME Unit = "packets", TypeInv, TransmitterExact, FlagExact, WakeFirst,
           [Next]_vars
    PROVE  FlagExact' /\ WakeFirst'
<1>1. CASE \E b \in Band : TcSend(b)
  BY <1>1, FlowKept DEF TcSend, device
<1>2. CASE DirectSend
  <2>1. Len(sent) + 1 \in Packet /\ Send(Len(sent) + 1) /\ now' = now
    BY <1>2, NextPacket DEF DirectSend
  <2> QED BY <2>1, SendFlow
<1>3. CASE RunSend
  <2>1. Head(bands[FirstBand]) \in Packet /\ Send(Head(bands[FirstBand]))
        /\ now' = now
    BY <1>3, FirstBandHead DEF RunSend
  <2> QED BY <2>1, SendFlow
<1>4. CASE RunEnd
  BY <1>4, FlowKept DEF RunEnd, device
<1>5. CASE Execute
  <2>1. PICK e \in events : /\ Due(e)
                            /\ Wake(e) \/ TransmitComplete(e) \/ Receive(e)
    BY <1>5 DEF Execute
  <2>2. CASE Wake(e)
    BY <2>2, FlowKept DEF Wake, device
  <2>3. CASE TransmitComplete(e)
    BY <2>1, <2>3, TransmitCompleteFlow
  <2>4. CASE Receive(e)
    BY <2>4, FlowKept DEF Receive, device
  <2> QED BY <2>1, <2>2, <2>3, <2>4
<1>6. CASE Advance
  <2>1. \A e \in events : e.ts # now
    BY <1>6 DEF Advance, TypeInv, DeviceTypes, EventTypes, RunTypes
  <2> QED BY <2>1, <1>6, FlowKept DEF Advance, device
<1>7. CASE UNCHANGED vars
  BY <1>7, FlowKept DEF vars, device
<1> QED BY <1>1, <1>2, <1>3, <1>4, <1>5, <1>6, <1>7 DEF Next, Run

LEMMA FlowCorrect ==
    ASSUME Unit = "packets"
    PROVE  Spec => [](TypeInv /\ TransmitterExact /\ FlagExact /\ WakeFirst)
<1>1. Init => FlagExact /\ WakeFirst
  BY LinkAssumption DEF Init, FlagExact, WakeFirst
<1>2. TypeInv /\ TransmitterExact /\ FlagExact /\ WakeFirst /\ [Next]_vars
        => FlagExact' /\ WakeFirst'
  BY NextFlow
<1> QED BY <1>1, <1>2, Typed, TransmitterCorrect, PTL DEF Spec
-----------------------------------------------------------------------------
(* The queue disc never meets a full device queue. *)

\* Every packet discarded was sent, and past the queue disc.
DiscardedDirect == \A p \in discarded : p \in 1..Len(sent) /\ sent[p] = Direct

LEMMA NextDiscards ==
    ASSUME Unit = "packets", TypeInv, TransmitterExact, FlagExact, WakeFirst,
           DiscardedDirect, [Next]_vars
    PROVE  DiscardedDirect'
<1>1. sent \in Seq(Band \cup {Direct}) /\ Len(sent) \in Nat
  BY DEF TypeInv, RunTypes
<1>2. CASE \E b \in Band : TcSend(b)
  <2>1. PICK b \in Band : sent' = Append(sent, b) /\ discarded' = discarded
    BY <1>2 DEF TcSend
  <2>2. /\ Len(sent') = Len(sent) + 1
        /\ \A i \in 1..Len(sent) : sent'[i] = sent[i]
    BY <2>1, <1>1, AppendTo
  <2> QED BY <2>1, <2>2, <1>1 DEF DiscardedDirect
<1>3. CASE DirectSend
  <2> DEFINE p == Len(sent) + 1
  <2>1. /\ p \in Packet /\ Send(p) /\ now' = now
        /\ sent' = Append(sent, Direct)
    BY <1>3, NextPacket DEF DirectSend
  <2>2. /\ Len(sent') = p /\ sent'[p] = Direct
        /\ \A i \in 1..Len(sent) : sent'[i] = sent[i]
    BY <2>1, <1>1, AppendTo
  <2>3. discarded' \subseteq discarded \cup {p}
    BY <2>1, SendFlow
  <2> QED BY <2>2, <2>3, <1>1 DEF DiscardedDirect
<1>4. CASE RunSend
  <2>1. /\ Head(bands[FirstBand]) \in Packet /\ Send(Head(bands[FirstBand]))
        /\ now' = now /\ sent' = sent /\ ~m_stoppedByDevice
    BY <1>4, FirstBandHead DEF RunSend
  <2>2. discarded' = discarded
    BY <2>1, SendFlow
  <2> QED BY <2>1, <2>2 DEF DiscardedDirect
<1>5. CASE RunEnd
  BY <1>5 DEF RunEnd, history, DiscardedDirect
<1>6. CASE Execute
  BY <1>6 DEF Execute, Wake, TransmitComplete, Receive, history, DiscardedDirect
<1>7. CASE Advance
  BY <1>7 DEF Advance, history, DiscardedDirect
<1>8. CASE UNCHANGED vars
  BY <1>8 DEF vars, history, DiscardedDirect
<1> QED BY <1>2, <1>3, <1>4, <1>5, <1>6, <1>7, <1>8 DEF Next, Run

\* While the queue disc may send, the device queue has room: the packet it
\* gives away is never lost to "BUG! No room in the device queue", whoever
\* else fills the queue between its runs, and whatever packets and limits.
THEOREM FlowControlled ==
    ASSUME Unit = "packets"
    PROVE  Spec => []NeverDiscards
<1>1. Init => DiscardedDirect
  BY DEF Init, DiscardedDirect
<1>2. TypeInv /\ TransmitterExact /\ FlagExact /\ WakeFirst /\ DiscardedDirect
        /\ [Next]_vars => DiscardedDirect'
  BY NextDiscards
<1>3. DiscardedDirect => NeverDiscards
  BY DEF DiscardedDirect, NeverDiscards
<1> QED BY <1>1, <1>2, <1>3, FlowCorrect, PTL DEF Spec
-----------------------------------------------------------------------------
(* The queue disc never stalls. *)

\* The queue disc holds one packet, the one its run was begun for.
Single == \E b \in Band : /\ Len(bands[b]) = 1
                          /\ \A c \in Band : c # b => bands[c] = <<>>

\* A queue disc that may send has one packet that it is about to send, or is
\* about to fill the last place in the queue of a busy device: the quota of a
\* run never ends it early.
AboutToSend ==
    NonEmpty # {} /\ ~m_stoppedByDevice =>
        \/ m_running /\ Single
        \/ /\ m_txMachineState = "BUSY"
           /\ Len(m_queue) = MaxSize - 1
           /\ m_running \/ Pending("Wake") # {}

Flow == TypeInv /\ TransmitterExact /\ FlagExact /\ WakeFirst

\* A packet sent through an empty queue disc is the only one in it.
LEMMA TcSendStall ==
    ASSUME Flow, AboutToSend, NEW b \in Band, TcSend(b)
    PROVE  AboutToSend'
<1> DEFINE p == Len(sent) + 1
<1>1. /\ ~m_running /\ m_running' = TRUE
      /\ UNCHANGED <<m_stoppedByDevice, m_txMachineState, m_queue, events>>
  BY DEF TcSend, RunBegin, device
<1>2. bands \in [Band -> Seq(Packet)]
  BY DEF Flow, TypeInv, RunTypes
<1>3. CASE NonEmpty # {}
  BY <1>1, <1>3 DEF AboutToSend
<1>4. CASE NonEmpty = {}
  <2>1. \A c \in Band : bands[c] = <<>>
    BY <1>4 DEF NonEmpty
  <2>2. CASE bands' = bands
    BY <2>2, <1>4 DEF AboutToSend, NonEmpty
  <2>3. CASE bands' = [bands EXCEPT ![b] = Append(@, p)]
    <3>1. Len(bands'[b]) = 1
      BY <2>1, <2>3, <1>2
    <3>2. \A c \in Band : c # b => bands'[c] = <<>>
      BY <2>1, <2>3, <1>2
    <3> QED BY <3>1, <3>2, <1>1 DEF AboutToSend, Single
  <2> QED BY <2>2, <2>3 DEF TcSend
<1> QED BY <1>3, <1>4

\* The run sends its only packet, or the one that fills the device queue.
LEMMA RunSendStall ==
    ASSUME Unit = "packets", Flow, AboutToSend, RunSend
    PROVE  AboutToSend'
<1> DEFINE b == FirstBand
<1>1. /\ m_running /\ ~m_stoppedByDevice /\ NonEmpty # {}
      /\ bands' = [bands EXCEPT ![b] = Tail(@)]
      /\ Send(Head(bands[b])) /\ now' = now
  BY DEF RunSend
<1>2. /\ b \in Band /\ bands[b] \in Seq(Packet) /\ bands[b] # <<>>
      /\ Head(bands[b]) \in Packet
  BY <1>1, FirstBandHead DEF Flow
<1>3. CASE Single
  <2>1. PICK c \in Band : /\ Len(bands[c]) = 1
                          /\ \A a \in Band : a # c => bands[a] = <<>>
    BY <1>3 DEF Single
  <2>2. c = b
    BY <2>1, <1>2
  <2>3. Tail(bands[b]) = <<>>
    <3>1. /\ Tail(bands[b]) \in Seq(Packet)
          /\ Len(Tail(bands[b])) = Len(bands[b]) - 1
      BY <1>2, TailOf
    <3>2. Len(Tail(bands[b])) = 0
      BY <3>1, <2>1, <2>2
    <3> HIDE DEF b
    <3> QED BY <3>1, <3>2, EmptySeq
  <2>4. \A a \in Band : bands'[a] = <<>>
    BY <2>1, <2>2, <2>3, <1>1 DEF Flow, TypeInv, RunTypes
  <2> QED BY <2>4 DEF AboutToSend, NonEmpty
<1>4. CASE m_txMachineState = "BUSY" /\ Len(m_queue) = MaxSize - 1
  <2>1. m_stoppedByDevice'
    BY <1>1, <1>2, <1>4, SendFlow DEF Flow
  <2> QED BY <2>1 DEF AboutToSend
<1> QED BY <1>1, <1>3, <1>4 DEF AboutToSend

\* A packet sent directly while the queue disc waits for a wake callback fills
\* the device queue.
LEMMA DirectSendStall ==
    ASSUME Unit = "packets", Flow, AboutToSend, DirectSend
    PROVE  AboutToSend'
<1> DEFINE p == Len(sent) + 1
<1>1. /\ p \in Packet /\ Send(p) /\ now' = now /\ ~m_running
      /\ bands' = bands
  BY NextPacket DEF DirectSend, Flow
<1>2. CASE NonEmpty = {}
  BY <1>1, <1>2 DEF AboutToSend, NonEmpty
<1>3. CASE m_stoppedByDevice
  <2>1. m_stoppedByDevice'
    BY <1>1, <1>3, SendFlow DEF Flow
  <2> QED BY <2>1 DEF AboutToSend
<1>4. CASE NonEmpty # {} /\ ~m_stoppedByDevice
  <2>1. m_txMachineState = "BUSY" /\ Len(m_queue) = MaxSize - 1
    BY <1>1, <1>4 DEF AboutToSend
  <2>2. m_stoppedByDevice'
    BY <1>1, <2>1, SendFlow DEF Flow
  <2> QED BY <2>2 DEF AboutToSend
<1> QED BY <1>2, <1>3, <1>4

\* The end of a transmission comes after every wake callback, so the queue
\* disc holds packets then only if it is stopped, and is woken.
LEMMA TransmitCompleteStall ==
    ASSUME Unit = "packets", Flow, AboutToSend, ~m_running,
           NEW e \in events, Due(e), TransmitComplete(e)
    PROVE  AboutToSend'
<1>1. /\ Pending("Wake") = {}
      /\ m_queue # <<>> =>
                /\ m_txMachineState' = "BUSY"
                /\ Len(m_queue') = Len(m_queue) - 1
                /\ m_stoppedByDevice => Pending("Wake")' # {}
  BY TransmitCompleteFlow DEF Flow
<1>2. bands' = bands
  BY DEF TransmitComplete
<1>3. CASE NonEmpty = {}
  BY <1>2, <1>3 DEF AboutToSend, NonEmpty
<1>4. CASE NonEmpty # {}
  <2>1. m_stoppedByDevice
    BY <1>1, <1>4 DEF AboutToSend
  <2>2. Len(m_queue) = MaxSize /\ m_queue # <<>>
    BY <2>1, LinkAssumption DEF Flow, FlagExact
  <2> QED BY <1>1, <2>1, <2>2 DEF AboutToSend
<1> QED BY <1>3, <1>4

\* A step that changes neither what the queue disc sees of the device nor the
\* wake callbacks.
LEMMA StallKept ==
    ASSUME AboutToSend,
           UNCHANGED <<bands, m_running, m_stoppedByDevice, m_queue,
                       m_txMachineState>>,
           Pending("Wake")' = Pending("Wake")
    PROVE  AboutToSend'
BY DEF AboutToSend, Single, NonEmpty

LEMMA NextStall ==
    ASSUME Unit = "packets", Flow, AboutToSend, [Next]_vars
    PROVE  AboutToSend'
<1>1. CASE \E b \in Band : TcSend(b)
  BY <1>1, TcSendStall
<1>2. CASE DirectSend
  BY <1>2, DirectSendStall
<1>3. CASE RunSend
  BY <1>3, RunSendStall
<1>4. CASE RunEnd
  BY <1>4 DEF RunEnd, AboutToSend, NonEmpty
<1>5. CASE Execute
  <2>1. PICK e \in events : /\ Due(e)
                            /\ Wake(e) \/ TransmitComplete(e) \/ Receive(e)
    BY <1>5 DEF Execute
  <2>2. CASE Wake(e)
    <3>1. /\ ~m_running /\ m_running' = TRUE
          /\ UNCHANGED <<bands, m_stoppedByDevice, m_queue, m_txMachineState>>
      BY <1>5, <2>2 DEF Execute, Wake, RunBegin, device
    <3> QED BY <3>1 DEF AboutToSend, NonEmpty
  <2>3. CASE TransmitComplete(e)
    BY <1>5, <2>1, <2>3, TransmitCompleteStall DEF Execute
  <2>4. CASE Receive(e)
    <3>1. /\ e.what = "Receive" /\ events' = events \ {e}
          /\ UNCHANGED <<bands, m_running, m_stoppedByDevice, m_queue,
                         m_txMachineState>>
      BY <2>4 DEF Receive, device
    <3>2. Pending("Wake")' = Pending("Wake")
      BY <3>1 DEF Pending
    <3> QED BY <3>1, <3>2, StallKept
  <2> QED BY <2>1, <2>2, <2>3, <2>4
<1>6. CASE Advance
  BY <1>6, StallKept DEF Advance, device, Pending
<1>7. CASE UNCHANGED vars
  BY <1>7, StallKept DEF vars, device, Pending
<1> QED BY <1>1, <1>2, <1>3, <1>4, <1>5, <1>6, <1>7 DEF Next, Run

\* A queue disc that holds packets is never forgotten: it runs, or a wake
\* callback is due, or the device queue is full and the transmission under way
\* will wake it.  The quota that ends a run early cannot strand a packet.
THEOREM NoStall ==
    ASSUME Unit = "packets"
    PROVE  Spec => []NeverStalls
<1>1. Init => AboutToSend
  BY DEF Init, AboutToSend, NonEmpty
<1>2. Flow /\ AboutToSend /\ [Next]_vars => AboutToSend'
  BY NextStall
<1>3. Flow /\ AboutToSend => NeverStalls
  <2> SUFFICES ASSUME Flow, AboutToSend, NonEmpty # {} PROVE
               \/ m_running
               \/ Pending("Wake") # {}
               \/ m_stoppedByDevice /\ Pending("TransmitComplete") # {}
    BY DEF NeverStalls
  <2>1. CASE ~m_stoppedByDevice
    BY <2>1 DEF AboutToSend
  <2>2. CASE m_stoppedByDevice
    <3>1. m_queue # <<>>
      BY <2>2, LinkAssumption DEF Flow, FlagExact
    <3>2. m_txMachineState = "BUSY"
      BY <3>1 DEF Flow, TransmitterExact, TypeInv, DeviceTypes
    <3>3. Pending("TransmitComplete") # {}
      BY <3>2 DEF Flow, TransmitterExact
    <3> QED BY <2>2, <3>3
  <2> QED BY <2>1, <2>2
<1>4. Spec => []Flow
  BY FlowCorrect DEF Flow
<1> QED BY <1>1, <1>2, <1>3, <1>4, PTL DEF Spec
-----------------------------------------------------------------------------
(* The wire: the arrivals to come, in their order. *)

Earlier(S) == {p \in S \X S : Less(p[1], p[2])}

\* The packets of the events in a list, and of those in a set, in their order.
Pkts(t) == [i \in DOMAIN t |-> t[i].pkt]

Wire(S) == Pkts(Sorted(S, Earlier(S)))

\* A finite set of arrivals, with a uid for each.
Arrivals(S) == /\ IsFiniteSet(S)
               /\ \A e \in S : e.ts \in Nat /\ e.uid \in Nat /\ e.pkt \in Packet
               /\ \A e, f \in S : e.uid = f.uid => e = f

LEMMA EarlierOrder ==
    ASSUME NEW S, Arrivals(S)
    PROVE  /\ IsFiniteSet(S) /\ TotalOrder(S, Earlier(S))
           /\ \A e, f \in S : <<e, f>> \in Earlier(S) <=> Less(e, f)
<1>1. \A e, f \in S : <<e, f>> \in Earlier(S) <=> Less(e, f)
  BY DEF Earlier
<1>2. \A e \in S : e.ts \in Nat /\ e.uid \in Nat
  BY DEF Arrivals
<1>3. \A e, f \in S : e = f \/ Less(e, f) \/ Less(f, e)
  BY <1>2 DEF Less, Arrivals
<1>4. \A e \in S : ~Less(e, e)
  BY <1>2 DEF Less
<1>5. \A e, f, g \in S : Less(e, f) /\ Less(f, g) => Less(e, g)
  BY <1>2 DEF Less
<1>6. IsFiniteSet(S)
  BY DEF Arrivals
<1> QED BY <1>1, <1>3, <1>4, <1>5, <1>6 DEF TotalOrder

\* Any list of them in order shows the wire.
LEMMA WireOf ==
    ASSUME NEW S, Arrivals(S), NEW t, Lists(t, S, Earlier(S))
    PROVE  Wire(S) = Pkts(t) /\ Wire(S) \in Seq(Packet)
<1>1. t = Sorted(S, Earlier(S))
  BY EarlierOrder, OneList
<1>2. Pkts(t) \in Seq(Packet)
  <2>1. t \in Seq(S) /\ Len(t) \in Nat /\ DOMAIN t = 1..Len(t)
        /\ \A i \in 1..Len(t) : t[i] \in S
    BY DEF Lists
  <2>2. \A e \in S : e.pkt \in Packet
    BY DEF Arrivals
  <2>3. Pkts(t) \in [1..Len(t) -> Packet]
    BY <2>1, <2>2 DEF Pkts
  <2> QED BY <2>1, <2>3, FunctionIsSeq
<1> QED BY <1>1, <1>2 DEF Wire

LEMMA WireList ==
    ASSUME NEW S, Arrivals(S)
    PROVE  /\ Wire(S) \in Seq(Packet)
           /\ \E t : Lists(t, S, Earlier(S)) /\ Wire(S) = Pkts(t)
<1> DEFINE t == Sorted(S, Earlier(S))
<1>1. Lists(t, S, Earlier(S))
  BY EarlierOrder, SortedLists
<1> HIDE DEF t
<1> QED BY <1>1, WireOf

\* The wire with a packet sent after all others ...
LEMMA WireAppend ==
    ASSUME NEW S, NEW e, Arrivals(S \cup {e}), \A f \in S : Less(f, e)
    PROVE  Wire(S \cup {e}) = Append(Wire(S), e.pkt) /\ Wire(S) \in Seq(Packet)
<1> DEFINE T == S \cup {e}
<1>1. Arrivals(S)
  <2>1. IsFiniteSet(S)
    BY FS_Subset DEF Arrivals
  <2> QED BY <2>1 DEF Arrivals
<1>2. PICK t : Lists(t, S, Earlier(S)) /\ Wire(S) = Pkts(t)
  BY <1>1, WireList
<1>3. \A f, g \in T : <<f, g>> \in Earlier(T) <=> Less(f, g)
  BY DEF Earlier
<1>4. \A f, g \in S : <<f, g>> \in Earlier(S) <=> Less(f, g)
  BY DEF Earlier
<1>5. Lists(Append(t, e), T, Earlier(T))
  <2> DEFINE R == Earlier(S)
             Q == Earlier(T)
  <2>1. \A f \in S : <<f, e>> \in Q
    BY <1>3
  <2>2. \A f, g \in S : <<f, g>> \in R => <<f, g>> \in Q
    BY <1>3, <1>4
  <2> HIDE DEF R, Q
  <2>3. Lists(t, S, R)
    BY <1>2 DEF R
  <2>4. Lists(Append(t, e), S \cup {e}, Q)
    BY ONLY <2>1, <2>2, <2>3, ListAppend
  <2> QED BY <2>4 DEF Q
<1>6. Wire(T) = Pkts(Append(t, e))
  <2> DEFINE u == Append(t, e)
  <2> HIDE DEF u, T
  <2>1. Lists(u, T, Earlier(T))
    BY <1>5 DEF u
  <2>2. Arrivals(T)
    BY DEF T
  <2> QED BY <2>1, <2>2, WireOf DEF u
<1>7. Pkts(Append(t, e)) = Append(Pkts(t), e.pkt)
  <2>1. t \in Seq(S)
    BY <1>2 DEF Lists
  <2> QED BY <2>1 DEF Pkts
<1> QED BY <1>1, <1>2, <1>6, <1>7, WireList

\* ... and after the arrival of the first.
LEMMA WireTail ==
    ASSUME NEW S, Arrivals(S), NEW e \in S, \A f \in S : ~Less(f, e)
    PROVE  /\ Wire(S) \in Seq(Packet) /\ Wire(S) # <<>>
           /\ Head(Wire(S)) = e.pkt
           /\ Wire(S \ {e}) = Tail(Wire(S))
<1> DEFINE T == S \ {e}
<1>1. Arrivals(T)
  <2>1. IsFiniteSet(T)
    BY FS_Subset DEF Arrivals
  <2> QED BY <2>1 DEF Arrivals
<1>2. PICK t : Lists(t, S, Earlier(S)) /\ Wire(S) = Pkts(t)
  BY WireList
<1>3. \A f, g \in T : <<f, g>> \in Earlier(T) <=> Less(f, g)
  BY DEF Earlier
<1>4. \A f, g \in S : <<f, g>> \in Earlier(S) <=> Less(f, g)
  BY DEF Earlier
<1>5. /\ t # <<>> /\ Head(t) = e
      /\ Lists(Tail(t), T, Earlier(T))
  <2> DEFINE R == Earlier(S)
             Q == Earlier(T)
  <2>1. \A f \in S : <<f, e>> \notin R
    BY <1>4
  <2>2. \A f, g \in S \ {e} : <<f, g>> \in R => <<f, g>> \in Q
    BY <1>3, <1>4
  <2>3. TotalOrder(S, R)
    BY EarlierOrder
  <2>4. Lists(t, S, R)
    BY <1>2
  <2> HIDE DEF R, Q
  <2>5. t # <<>> /\ Head(t) = e /\ Lists(Tail(t), S \ {e}, Q)
    BY ONLY <2>1, <2>2, <2>3, <2>4, e \in S, ListTail
  <2> QED BY <2>5 DEF Q
<1>6. Wire(T) = Pkts(Tail(t))
  <2> DEFINE u == Tail(t)
  <2> HIDE DEF u, T
  <2>1. Lists(u, T, Earlier(T))
    BY <1>5 DEF u
  <2> QED BY <2>1, <1>1, WireOf DEF u
<1>7. /\ Pkts(t) # <<>> /\ Head(Pkts(t)) = Head(t).pkt
      /\ Pkts(Tail(t)) = Tail(Pkts(t))
  <2>1. t \in Seq(S) /\ t # <<>>
    BY <1>2, <1>5 DEF Lists
  <2> QED BY <2>1 DEF Pkts
<1> QED BY <1>2, <1>5, <1>6, <1>7, WireList

-----------------------------------------------------------------------------
(* Packets in flight. *)

Arriving == Pending("Receive")

\* The list of events is finite, with a uid for each.
Distinct == /\ IsFiniteSet(events)
            /\ \A e, f \in events : e.uid = f.uid => e = f

\* No packet on the wire arrives after the one sent next.
InTurn ==
    \A e \in Arriving :
        /\ m_txMachineState = "READY" => e.ts <= now + Delay
        /\ \A f \in Pending("TransmitComplete") : e.ts + Gap <= f.ts + Delay

Flight == Wire(Arriving) \o m_queue

LEMMA ArrivalsOf ==
    ASSUME TypeInv, Distinct, NEW S \in SUBSET Arriving
    PROVE  Arrivals(S)
<1>1. S \in SUBSET events
  BY DEF Arriving, Pending
<1>2. IsFiniteSet(S)
  BY <1>1, FS_Subset DEF Distinct
<1>3. \A e \in S : e.ts \in Nat /\ e.uid \in Nat /\ e.pkt \in Packet
  BY DEF TypeInv, DeviceTypes, EventTypes, Arriving, Pending
<1> QED BY <1>1, <1>2, <1>3 DEF Arrivals, Distinct

LEMMA WireShown == OnWire = Wire(Arriving)
BY DEF OnWire, Wire, Pkts, Arriving, Earlier

\* A transmission that starts puts its packet on the wire behind the others.
LEMMA TransmitLine ==
    ASSUME TypeInv, TypeInv', Distinct, now' = now,
           NEW pending \in SUBSET events,
           \A e \in pending : /\ e.what # "TransmitComplete"
                              /\ e.what = "Receive" => e.ts <= now + Delay,
           pending \cap Arriving = Arriving,
           NEW q \in Seq(Packet), q # <<>>, NEW b, NEW stopped \in BOOLEAN,
           TransmitStart(Dequeue(q, b, stopped), pending)
    PROVE  /\ Distinct' /\ InTurn'
           /\ Flight' = Append(Wire(Arriving), Head(q)) \o Tail(q)
           /\ Wire(Arriving) \in Seq(Packet)
<1> DEFINE d == Dequeue(q, b, stopped)
           tc == Event(TxTime(d.pkt) + Gap, uid + 1, "TransmitComplete", d.pkt)
           rx == Event(TxTime(d.pkt) + Delay, uid + 2, "Receive", d.pkt)
           wk == Event(0, uid, "Wake", NoPacket)
<1>1. /\ d.pkt = Head(q) /\ d.pkt \in Packet /\ d.queue = Tail(q)
      /\ d.wake \subseteq {wk}
  BY DequeueType
<1>2. /\ m_txMachineState' = "BUSY" /\ m_queue' = d.queue
      /\ events' = pending \cup d.wake \cup {tc, rx}
  BY DEF TransmitStart
<1>3. /\ now \in Nat /\ uid \in Nat /\ TxTime(d.pkt) \in Nat \ {0}
      /\ Gap \in Nat /\ Delay \in Nat
  BY <1>1, SizeType, LinkAssumption DEF TypeInv, DeviceTypes, RunTypes
<1>4. /\ tc.what = "TransmitComplete" /\ tc.uid = uid + 1
      /\ tc.ts = now + (TxTime(d.pkt) + Gap)
      /\ rx.what = "Receive" /\ rx.uid = uid + 2 /\ rx.pkt = Head(q)
      /\ rx.ts = now + (TxTime(d.pkt) + Delay)
      /\ wk.what = "Wake" /\ wk.uid = uid
  BY <1>1, EventFields
<1> HIDE DEF d, tc, rx, wk
<1>5. Arriving' = Arriving \cup {rx}
  <2>1. \A e \in events' : e.what = "Receive" <=> e \in Arriving \/ e = rx
    BY <1>1, <1>2, <1>4 DEF Arriving, Pending
  <2>2. \A e \in Arriving : e \in events'
    BY <1>2
  <2>3. rx \in events'
    BY <1>2
  <2> QED BY <2>1, <2>2, <2>3 DEF Arriving, Pending
<1>6. Pending("TransmitComplete")' = {tc}
  <2>1. \A e \in events' : e.what = "TransmitComplete" <=> e = tc
    BY <1>1, <1>2, <1>4
  <2>2. tc \in events'
    BY <1>2
  <2> QED BY <2>1, <2>2 DEF Pending
<1>7. \A e \in events : e.uid \in Nat /\ e.uid < uid /\ e.ts \in Nat
  BY <1>3 DEF TypeInv, DeviceTypes, EventTypes
<1>8. Distinct'
  <2>1. IsFiniteSet(pending)
    BY FS_Subset DEF Distinct
  <2>2. IsFiniteSet(d.wake \cup {tc, rx})
    <3>1. IsFiniteSet({wk, tc, rx})
      <4>1. IsFiniteSet(({wk} \cup {tc}) \cup {rx})
        BY FS_Singleton, FS_AddElement
      <4>2. ({wk} \cup {tc}) \cup {rx} = {wk, tc, rx}
        OBVIOUS
      <4> QED BY <4>1, <4>2
    <3> QED BY <3>1, <1>1, FS_Subset
  <2>3. IsFiniteSet(events')
    <3>1. events' = pending \cup (d.wake \cup {tc, rx})
      BY <1>2
    <3> QED BY <3>1, <2>1, <2>2, FS_Union
  <2>4. \A e, f \in events' : e.uid = f.uid => e = f
    <3>1. \A e \in events' : e \in pending \/ e \in {wk, tc, rx}
      BY <1>1, <1>2
    <3>2. \A e, f \in pending : e.uid = f.uid => e = f
      BY DEF Distinct
    <3>3. \A e, f \in {wk, tc, rx} : e.uid = f.uid => e = f
      BY <1>3, <1>4
    <3>4. \A e \in pending, f \in {wk, tc, rx} : e.uid # f.uid
      BY <1>3, <1>4, <1>7
    <3> QED BY <3>1, <3>2, <3>3, <3>4
  <2> QED BY <2>3, <2>4 DEF Distinct
<1>9. \A e \in Arriving : e \in pending /\ e \in events /\ e.ts <= now + Delay
  BY DEF Arriving, Pending
<1>10. InTurn'
  <2>1. \A e \in Arriving' : e.ts + Gap <= tc.ts + Delay
    BY <1>3, <1>4, <1>5, <1>7, <1>9
  <2> QED BY <2>1, <1>2, <1>6 DEF InTurn
<1>11. \A e \in Arriving : Less(e, rx)
  BY <1>3, <1>4, <1>7, <1>9 DEF Less
<1>12. Arrivals(Arriving \cup {rx})
  <2>1. Arriving' \in SUBSET events'
    BY DEF Arriving, Pending
  <2>2. IsFiniteSet(Arriving')
    BY <1>8, <2>1, FS_Subset DEF Distinct
  <2>3. \A e \in Arriving' : e.ts \in Nat /\ e.uid \in Nat /\ e.pkt \in Packet
    BY DEF TypeInv, DeviceTypes, EventTypes, Arriving, Pending
  <2>4. Arrivals(Arriving')
    BY <1>8, <2>1, <2>2, <2>3 DEF Arrivals, Distinct
  <2> QED BY <2>4, <1>5
<1>13. Wire(Arriving') = Append(Wire(Arriving), Head(q))
       /\ Wire(Arriving) \in Seq(Packet)
  <2>1. Wire(Arriving \cup {rx}) = Append(Wire(Arriving), rx.pkt)
        /\ Wire(Arriving) \in Seq(Packet)
    BY <1>11, <1>12, WireAppend
  <2> QED BY <2>1, <1>4, <1>5
<1>14. Flight' = Append(Wire(Arriving), Head(q)) \o Tail(q)
  <2>1. Flight' = Wire(Arriving') \o m_queue'
    BY DEF Flight, Wire, Pkts, Earlier, Less, Sorted
  <2> QED BY <2>1, <1>1, <1>2, <1>13
<1> QED BY <1>8, <1>10, <1>13, <1>14

Line == Distinct /\ InTurn

LEMMA FlightType ==
    ASSUME TypeInv, Distinct
    PROVE  /\ Wire(Arriving) \in Seq(Packet) /\ m_queue \in Seq(Packet)
           /\ Flight \in Seq(Packet)
<1>1. Wire(Arriving) \in Seq(Packet)
  BY ArrivalsOf, WireList
<1>2. m_queue \in Seq(Packet)
  BY DEF TypeInv, DeviceTypes
<1> QED BY <1>1, <1>2, ConcatProperties DEF Flight

\* Events are taken and time goes on.
LEMMA LineKept ==
    ASSUME TypeInv, Line, events' \subseteq events,
           m_txMachineState' = m_txMachineState,
           now' \in Nat, now' >= now
    PROVE  Line'
<1>1. Distinct'
  BY FS_Subset DEF Line, Distinct
<1>2. /\ Pending("TransmitComplete")' \subseteq Pending("TransmitComplete")
      /\ Arriving' \subseteq Arriving
  BY DEF Pending, Arriving
<1>3. \A e \in Arriving : e.ts \in Nat
  BY DEF Pending, Arriving, TypeInv, DeviceTypes, EventTypes
<1>4. now \in Nat /\ Delay \in Nat
  BY LinkAssumption DEF TypeInv, RunTypes
<1>5. InTurn'
  BY <1>2, <1>3, <1>4 DEF Line, InTurn
<1> QED BY <1>1, <1>5 DEF Line

LEMMA FlightKept ==
    ASSUME Arriving' = Arriving, m_queue' = m_queue
    PROVE  Flight' = Flight
BY DEF Flight, Wire, Pkts, Earlier, Less, Sorted

\* A packet the device takes goes behind those in flight.
LEMMA SendFlight ==
    ASSUME TypeInv, TypeInv', TransmitterExact, Line, now' = now,
           NEW p \in Packet, Send(p)
    PROVE  /\ Line'
           /\ \/ Flight' = Append(Flight, p)
              \/ SendNoRoom(p) /\ Flight' = Flight
<1> DEFINE q == Append(m_queue, p)
           b == m_nBytes + WireSize(p)
<1>1. /\ Wire(Arriving) \in Seq(Packet) /\ m_queue \in Seq(Packet)
      /\ Flight = Wire(Arriving) \o m_queue
  BY FlightType DEF Line, Flight
<1>2. CASE SendReady(p)
  <2>1. /\ m_txMachineState = "READY" /\ m_queue = <<>>
        /\ TransmitStart(Dequeue(q, b, StoppedAfterEnqueue(q, b)), events)
    BY <1>2 DEF SendReady, TransmitterExact
  <2>2. q \in Seq(Packet) /\ q # <<>> /\ StoppedAfterEnqueue(q, b) \in BOOLEAN
    BY EnqueueType
  <2>3. Head(q) = p /\ Tail(q) = <<>>
    BY <2>1
  <2> HIDE DEF q, b
  <2>4. \A e \in events : /\ e.what # "TransmitComplete"
                          /\ e.what = "Receive" => e.ts <= now + Delay
    BY <2>1 DEF TransmitterExact, Pending, Line, InTurn, Arriving
  <2>5. events \cap Arriving = Arriving
    BY DEF Arriving, Pending
  <2>6. /\ Distinct' /\ InTurn'
        /\ Flight' = Append(Wire(Arriving), Head(q)) \o Tail(q)
    BY <2>1, <2>2, <2>4, <2>5, TransmitLine DEF Line
  <2>7. /\ Append(Wire(Arriving), p) \o <<>> = Append(Wire(Arriving), p)
        /\ Wire(Arriving) \o <<>> = Wire(Arriving)
    BY <1>1, AppendTo, ConcatEmptySeq
  <2>8. Flight' = Append(Wire(Arriving), p)
    BY <2>3, <2>6, <2>7
  <2>9. Flight = Wire(Arriving)
    BY <2>1, <2>7, <1>1
  <2> QED BY <2>6, <2>8, <2>9 DEF Line
<1>3. CASE SendBusy(p)
  <2>1. /\ m_queue' = Append(m_queue, p)
        /\ UNCHANGED <<events, m_txMachineState>>
    BY <1>3 DEF SendBusy
  <2>2. Line'
    BY <2>1, LineKept DEF TypeInv, RunTypes
  <2>3. Flight' = Wire(Arriving) \o Append(m_queue, p)
    BY <2>1 DEF Flight, Arriving, Pending, Wire, Pkts, Earlier, Less, Sorted
  <2>4. Wire(Arriving) \o Append(m_queue, p) = Append(Flight, p)
    <3> DEFINE w == Wire(Arriving)
    <3>1. w \in Seq(Packet) /\ m_queue \in Seq(Packet)
      BY <1>1
    <3> HIDE DEF w
    <3>2. w \o Append(m_queue, p) = Append(w \o m_queue, p)
      BY <3>1
    <3> QED BY <3>2, <1>1 DEF w
  <2> QED BY <2>2, <2>3, <2>4
<1>4. CASE SendNoRoom(p)
  <2>1. UNCHANGED <<events, m_txMachineState, m_queue>>
    BY <1>4 DEF SendNoRoom, device
  <2>2. Line'
    BY <2>1, LineKept DEF TypeInv, RunTypes
  <2>3. Flight' = Flight
    BY <2>1, FlightKept DEF Arriving, Pending
  <2> QED BY <1>4, <2>2, <2>3
<1> QED BY <1>2, <1>3, <1>4 DEF Send

\* The packet that the end of a transmission takes out of the queue goes on
\* the wire, behind the others: it keeps its place.
LEMMA TransmitCompleteFlight ==
    ASSUME TypeInv, TypeInv', TransmitterExact, Line,
           NEW e \in events, Due(e), TransmitComplete(e)
    PROVE  Line' /\ Flight' = Flight
<1>1. e \in Pending("TransmitComplete") /\ now' = now
  BY DEF TransmitComplete, Pending
<1>2. m_txMachineState = "BUSY"
  BY <1>1 DEF TransmitterExact, TypeInv, DeviceTypes
<1>3. Pending("TransmitComplete") = {e}
  BY <1>1, <1>2 DEF TransmitterExact
<1>4. now \in Nat /\ Gap \in Nat /\ Delay \in Nat /\ e.ts = now
  BY LinkAssumption DEF TypeInv, RunTypes, Due
<1>5. \A f \in Arriving : f.ts \in Nat /\ f.ts <= now + Delay
  <2>1. \A f \in Arriving : f.ts + Gap <= e.ts + Delay
    BY <1>1 DEF Line, InTurn
  <2>2. \A f \in Arriving : f.ts \in Nat
    BY DEF Arriving, Pending, TypeInv, DeviceTypes, EventTypes
  <2> QED BY <2>1, <2>2, <1>4
<1>6. \A f \in Arriving : f \in events \ {e}
  BY <1>1 DEF Arriving, Pending
<1>7. /\ Wire(Arriving) \in Seq(Packet) /\ m_queue \in Seq(Packet)
      /\ Flight = Wire(Arriving) \o m_queue
  BY FlightType DEF Line, Flight
<1>8. CASE m_queue = <<>>
  <2>1. /\ m_txMachineState' = "READY" /\ events' = events \ {e}
        /\ m_queue' = m_queue
    BY <1>8 DEF TransmitComplete
  <2>2. Arriving' = Arriving
    BY <2>1, <1>6 DEF Arriving, Pending
  <2>3. Pending("TransmitComplete")' = {}
    BY <2>1, <1>3 DEF Pending
  <2>4. InTurn'
    BY <2>2, <2>3, <1>1, <1>5 DEF InTurn
  <2>5. Distinct'
    BY <2>1, FS_Subset DEF Line, Distinct
  <2>6. Flight' = Flight
    BY <2>1, <2>2, FlightKept
  <2> QED BY <2>4, <2>5, <2>6 DEF Line
<1>9. CASE m_queue # <<>>
  <2>1. TransmitStart(Dequeue(m_queue, m_nBytes, m_stoppedByDevice),
                      events \ {e})
    BY <1>9 DEF TransmitComplete
  <2>2. m_stoppedByDevice \in BOOLEAN
    BY DEF TypeInv, DeviceTypes
  <2>3. \A f \in events \ {e} : /\ f.what # "TransmitComplete"
                                /\ f.what = "Receive" => f.ts <= now + Delay
    BY <1>3, <1>5 DEF Pending, Arriving
  <2>4. (events \ {e}) \cap Arriving = Arriving
    BY <1>6
  <2>5. /\ Distinct' /\ InTurn'
        /\ Flight' = Append(Wire(Arriving), Head(m_queue)) \o Tail(m_queue)
    BY <2>1, <2>2, <2>3, <2>4, <1>1, <1>7, <1>9, TransmitLine DEF Line
  <2>6. Append(Wire(Arriving), Head(m_queue)) \o Tail(m_queue)
          = Wire(Arriving) \o m_queue
    BY <1>7, <1>9, MoveHead
  <2> QED BY <2>5, <2>6, <1>7 DEF Line
<1> QED BY <1>8, <1>9

\* The packet that arrives is the first in flight.
LEMMA ReceiveFlight ==
    ASSUME TypeInv, Line, NEW e \in events, Due(e), Receive(e)
    PROVE  /\ Line'
           /\ Flight \in Seq(Packet) /\ Flight # <<>> /\ Head(Flight) = e.pkt
           /\ Flight' = Tail(Flight)
<1>1. /\ e.what = "Receive" /\ events' = events \ {e} /\ now' = now
      /\ m_queue' = m_queue /\ m_txMachineState' = m_txMachineState
  BY DEF Receive, device
<1>2. Line'
  BY <1>1, LineKept DEF TypeInv, RunTypes
<1>3. e \in Arriving /\ Arriving' = Arriving \ {e}
  BY <1>1 DEF Arriving, Pending
<1>4. \A f \in Arriving : ~Less(f, e)
  BY DEF Due, IsEarliest, Arriving, Pending
<1>5. Arrivals(Arriving)
  BY ArrivalsOf DEF Line
<1>6. /\ Wire(Arriving) \in Seq(Packet) /\ Wire(Arriving) # <<>>
      /\ Head(Wire(Arriving)) = e.pkt
      /\ Wire(Arriving \ {e}) = Tail(Wire(Arriving))
  BY <1>3, <1>4, <1>5, WireTail
<1>7. m_queue \in Seq(Packet)
  BY DEF TypeInv, DeviceTypes
<1>8. Flight' = Wire(Arriving \ {e}) \o m_queue
  BY <1>1, <1>3 DEF Flight, Wire, Pkts, Earlier, Less, Sorted
<1> DEFINE w == Wire(Arriving)
<1>9. Flight = w \o m_queue
  BY DEF Flight
<1>10. w \in Seq(Packet) /\ w # <<>> /\ Head(w) = e.pkt
       /\ Flight' = Tail(w) \o m_queue
  BY <1>6, <1>8
<1> HIDE DEF w
<1>11. /\ w \o m_queue \in Seq(Packet) /\ w \o m_queue # <<>>
       /\ Head(w \o m_queue) = Head(w)
       /\ Tail(w \o m_queue) = Tail(w) \o m_queue
  BY <1>7, <1>10, TailConcat
<1> QED BY <1>2, <1>9, <1>10, <1>11
-----------------------------------------------------------------------------
(* What a band sees. *)

Of(b) == {p \in DOMAIN sent : sent[p] = b}

Waiting(b) == IF b = Direct THEN <<>> ELSE bands[b]

Channel(b) == InBand(b, OnWire) \o InBand(b, m_queue) \o Waiting(b)

\* The packets of a band in flight, followed by those that wait, and those
\* that arrived.
Shown == \A b \in Band \cup {Direct} :
            /\ Channel(b) = Within(Flight, Of(b)) \o Waiting(b)
            /\ Channel(b) \in Seq(Packet)
            /\ InBand(b, delivered) = Within(delivered, Of(b))

\* All of them were sent, and those that wait in the band they wait in.
InSent == /\ Flight \in Seq(DOMAIN sent)
          /\ delivered \in Seq(DOMAIN sent)
          /\ \A b \in Band : bands[b] \in Seq(Of(b))

LEMMA WaitingType ==
    ASSUME TypeInv, NEW b \in Band \cup {Direct}
    PROVE  Waiting(b) \in Seq(Packet)
<1>1. bands \in [Band -> Seq(Packet)] /\ <<>> \in Seq(Packet)
  BY DEF TypeInv, RunTypes
<1>2. CASE b = Direct
  BY <1>1, <1>2 DEF Waiting
<1>3. CASE b # Direct
  BY <1>1, <1>3 DEF Waiting
<1> QED BY <1>2, <1>3

LEMMA ShownNow == TypeInv /\ Distinct => Shown
<1> SUFFICES ASSUME TypeInv, Distinct, NEW b \in Band \cup {Direct}
             PROVE  /\ Channel(b) = Within(Flight, Of(b)) \o Waiting(b)
                    /\ Channel(b) \in Seq(Packet)
                    /\ InBand(b, delivered) = Within(delivered, Of(b))
  BY DEF Shown
<1> DEFINE w == Wire(Arriving)
<1>1. w \in Seq(Packet) /\ m_queue \in Seq(Packet) /\ Flight = w \o m_queue
  BY FlightType DEF Flight
<1>2. OnWire = w
  BY WireShown
<1> HIDE DEF w
<1>3. Within(w \o m_queue, Of(b)) = Within(w, Of(b)) \o Within(m_queue, Of(b))
  BY <1>1, WithinConcat
<1>4. Within(w \o m_queue, Of(b)) \in Seq(Packet)
  <2>1. w \o m_queue \in Seq(Packet)
    BY <1>1, ConcatProperties
  <2> QED BY <2>1, WithinType
<1>5. Channel(b) = Within(Flight, Of(b)) \o Waiting(b)
  BY <1>1, <1>2, <1>3 DEF Channel, InBand, Of
<1>6. Channel(b) \in Seq(Packet)
  BY <1>1, <1>4, <1>5, WaitingType, ConcatProperties
<1> QED BY <1>5, <1>6 DEF InBand, Of

LEMMA ShownNext == TypeInv' /\ Distinct' => Shown'
BY ShownNow, PTL

LinkSteps == \A b \in Band \cup {Direct} :
                UNCHANGED Link(b)!lvars \/ Link(b)!Next

LEMMA LinkStep ==
    ASSUME NEW b \in Band \cup {Direct}, Channel(b) \in Seq(Packet),
           NEW o, o = InBand(b, delivered), NEW u, u = InBand(b, delivered)',
           \/ Channel(b)' = Channel(b) /\ u = o
           \/ u = o /\ \E p \in Packet : Channel(b)' = Append(Channel(b), p)
           \/ /\ Channel(b) # <<>> /\ Channel(b)' = Tail(Channel(b))
              /\ u = o \/ u = Append(o, Head(Channel(b)))
    PROVE  UNCHANGED Link(b)!lvars \/ Link(b)!Next
<1>1. CASE Channel(b)' = Channel(b) /\ u = o
  BY <1>1 DEF Link!lvars, Channel, Waiting
<1>2. CASE u = o /\ \E p \in Packet : Channel(b)' = Append(Channel(b), p)
  <2>1. PICK p \in Packet : Channel(b)' = Append(Channel(b), p)
    BY <1>2
  <2>2. /\ Channel(b)' # <<>>
        /\ Channel(b)'[Len(Channel(b)')] = p
    BY <2>1, AppendTo
  <2>3. /\ Channel(b)' # <<>>
        /\ Channel(b)' = Append(Channel(b), Channel(b)'[Len(Channel(b)')])
        /\ u = o
    BY <1>2, <2>1, <2>2
  <2>4. Link(b)!Accept
    BY <2>3 DEF Link!Accept, Channel, Waiting
  <2> QED BY <2>4 DEF Link!Next
<1>3. CASE /\ Channel(b) # <<>> /\ Channel(b)' = Tail(Channel(b))
           /\ u = o \/ u = Append(o, Head(Channel(b)))
  <2>1. Link(b)!Lose \/ Link(b)!Deliver
    BY <1>3 DEF Link!Lose, Link!Deliver, Channel, Waiting
  <2> QED BY <2>1 DEF Link!Next
<1> QED BY <1>1, <1>2, <1>3

\* What one packet more changes of the packets of each band.
LEMMA SentOne ==
    ASSUME TypeInv, NEW c \in Band \cup {Direct}, sent' = Append(sent, c),
           NEW p, p = Len(sent) + 1
    PROVE  /\ DOMAIN sent' = DOMAIN sent \cup {p}
           /\ \A b : p \in Of(b)' <=> b = c
           /\ \A s \in Seq(DOMAIN sent) :
                /\ s \in Seq(DOMAIN sent')
                /\ \A b : Within(s, Of(b)') = Within(s, Of(b))
           /\ \A b : \A s \in Seq(Of(b)) : s \in Seq(Of(b)')
<1>1. sent \in Seq(Band \cup {Direct}) /\ Len(sent) \in Nat
  BY DEF TypeInv, RunTypes
<1>2. /\ DOMAIN sent = 1..Len(sent) /\ DOMAIN sent' = 1..(Len(sent) + 1)
      /\ sent'[p] = c
      /\ \A i \in 1..Len(sent) : sent'[i] = sent[i]
  BY <1>1, AppendTo
<1>3. DOMAIN sent' = DOMAIN sent \cup {p}
  BY <1>1, <1>2
<1>4. p \in DOMAIN sent' /\ p \notin DOMAIN sent
  BY <1>1, <1>2
<1>5. \A b : Of(b)' = {i \in DOMAIN sent' : sent'[i] = b}
  BY DEF Of
<1>6. \A b : p \in Of(b)' <=> b = c
  BY <1>2, <1>4, <1>5
<1>7. \A b : \A i \in DOMAIN sent : i \in Of(b)' <=> i \in Of(b)
  BY <1>2, <1>3, <1>5 DEF Of
<1>8. ASSUME NEW s \in Seq(DOMAIN sent)
      PROVE  /\ s \in Seq(DOMAIN sent')
             /\ \A b : Within(s, Of(b)') = Within(s, Of(b))
  <2>1. \A i \in 1..Len(s) : s[i] \in DOMAIN sent
    OBVIOUS
  <2>2. \A b : \A i \in 1..Len(s) : s[i] \in Of(b)' <=> s[i] \in Of(b)
    BY <2>1, <1>7
  <2>3. ASSUME NEW b PROVE Within(s, Of(b)') = Within(s, Of(b))
    BY <2>2, WithinSame
  <2> QED BY <2>3, <1>3, SeqMore
<1>9. ASSUME NEW b, NEW s \in Seq(Of(b)) PROVE s \in Seq(Of(b)')
  <2>1. Of(b) \subseteq Of(b)'
    BY <1>7 DEF Of
  <2> QED BY <2>1, SeqMore
<1> QED BY <1>3, <1>6, <1>8, <1>9

\* Nothing is sent and nothing arrives.
LEMMA RestSteps ==
    ASSUME Shown, Shown', InSent, Flight' = Flight,
           UNCHANGED <<sent, bands, delivered>>
    PROVE  LinkSteps /\ InSent'
<1>1. \A b : Of(b)' = Of(b) /\ Waiting(b)' = Waiting(b)
  BY DEF Of, Waiting
<1>2. InSent'
  BY <1>1 DEF InSent
<1>3. ASSUME NEW b \in Band \cup {Direct}
      PROVE  UNCHANGED Link(b)!lvars \/ Link(b)!Next
  <2>1. /\ Channel(b) = Within(Flight, Of(b)) \o Waiting(b)
        /\ Channel(b)' = Within(Flight', Of(b)') \o Waiting(b)'
        /\ Channel(b) \in Seq(Packet)
        /\ InBand(b, delivered) = Within(delivered, Of(b))
        /\ InBand(b, delivered)' = Within(delivered', Of(b)')
    BY DEF Shown
  <2>2. Channel(b)' = Channel(b) /\ InBand(b, delivered)' = InBand(b, delivered)
    BY <2>1, <1>1
  <2> QED BY <2>1, <2>2, LinkStep
<1> QED BY <1>2, <1>3 DEF LinkSteps

\* The channel of a band before and after a step.
LEMMA ShownAt ==
    ASSUME Shown, Shown', NEW b \in Band \cup {Direct}
    PROVE  /\ Channel(b) = Within(Flight, Of(b)) \o Waiting(b)
           /\ Channel(b)' = Within(Flight', Of(b)') \o Waiting(b)'
           /\ Channel(b) \in Seq(Packet)
           /\ InBand(b, delivered) = Within(delivered, Of(b))
           /\ InBand(b, delivered)' = Within(delivered', Of(b)')
BY DEF Shown

\* A packet enters the channel of the band it is sent in, or is refused.
LEMMA TcSendSteps ==
    ASSUME TypeInv, Shown, Shown', InSent, Flight' = Flight,
           NEW c \in Band, TcSend(c)
    PROVE  LinkSteps /\ InSent'
<1> DEFINE p == Len(sent) + 1
<1>1. /\ sent' = Append(sent, c) /\ delivered' = delivered
      /\ p \in Packet
  BY NextPacket DEF TcSend
<1>2. /\ DOMAIN sent' = DOMAIN sent \cup {p}
      /\ \A b : p \in Of(b)' <=> b = c
      /\ \A s \in Seq(DOMAIN sent) :
           /\ s \in Seq(DOMAIN sent')
           /\ \A b : Within(s, Of(b)') = Within(s, Of(b))
      /\ \A b : \A s \in Seq(Of(b)) : s \in Seq(Of(b)')
  BY <1>1, SentOne
<1>3. bands' = bands \/ bands' = [bands EXCEPT ![c] = Append(@, p)]
  BY DEF TcSend
<1> HIDE DEF p
<1>4. c # Direct /\ bands \in [Band -> Seq(Packet)]
  BY LinkAssumption DEF Band, Direct, TypeInv, RunTypes
<1>5. /\ Flight' \in Seq(DOMAIN sent') /\ delivered' \in Seq(DOMAIN sent')
      /\ \A b : Within(Flight', Of(b)') = Within(Flight, Of(b))
      /\ \A b : Within(delivered', Of(b)') = Within(delivered, Of(b))
  BY <1>1, <1>2 DEF InSent
<1>6. InSent'
  <2>1. ASSUME NEW b \in Band PROVE bands'[b] \in Seq(Of(b)')
    <3>1. bands[b] \in Seq(Of(b)')
      BY <1>2 DEF InSent
    <3>2. CASE bands' = bands
      BY <3>1, <3>2
    <3>3. CASE bands' = [bands EXCEPT ![c] = Append(@, p)] /\ b # c
      BY <3>1, <3>3, <1>4
    <3>4. CASE bands' = [bands EXCEPT ![c] = Append(@, p)] /\ b = c
      <4>1. bands'[b] = Append(bands[b], p)
        BY <3>4, <1>4
      <4>2. p \in Of(b)'
        BY <3>4, <1>2
      <4> QED BY <4>1, <4>2, <3>1, AppendTo
    <3> QED BY <3>2, <3>3, <3>4, <1>3
  <2> QED BY <2>1, <1>5 DEF InSent
<1>7. ASSUME NEW b \in Band \cup {Direct}
      PROVE  UNCHANGED Link(b)!lvars \/ Link(b)!Next
  <2> DEFINE x == Within(Flight, Of(b))
  <2>1. /\ Channel(b) = x \o Waiting(b)
        /\ Channel(b)' = x \o Waiting(b)'
        /\ Channel(b) \in Seq(Packet)
        /\ InBand(b, delivered)' = InBand(b, delivered)
    BY <1>5, ShownAt
  <2>2. x \in Seq(DOMAIN sent)
    BY WithinType DEF InSent
  <2> HIDE DEF x
  <2>3. \/ Waiting(b)' = Waiting(b)
        \/ b = c /\ bands[b] \in Seq(Packet) /\ Waiting(b) = bands[b]
             /\ Waiting(b)' = Append(bands[b], p)
    BY <1>3, <1>4 DEF Waiting
  <2>4. CASE Waiting(b)' = Waiting(b)
    BY <2>1, <2>4, LinkStep
  <2>5. CASE b = c /\ bands[b] \in Seq(Packet) /\ Waiting(b) = bands[b]
             /\ Waiting(b)' = Append(bands[b], p)
    <3>1. Channel(b)' = Append(Channel(b), p)
      <4> DEFINE y == bands[b]
      <4>1. y \in Seq(Packet) /\ x \in Seq(DOMAIN sent)
        BY <2>2, <2>5
      <4>2. Channel(b) = x \o y /\ Channel(b)' = x \o Append(y, p)
        BY <2>1, <2>5
      <4> HIDE DEF y
      <4> QED BY <4>1, <4>2, AppendConcat
    <3> QED BY <3>1, <2>1, <1>1, LinkStep
  <2> QED BY <2>3, <2>4, <2>5
<1> QED BY <1>6, <1>7 DEF LinkSteps

\* A packet sent past the queue disc goes in flight, or is discarded.
LEMMA DirectSendSteps ==
    ASSUME TypeInv, Shown, Shown', InSent, DirectSend,
           Flight' = Append(Flight, Len(sent) + 1) \/ Flight' = Flight
    PROVE  LinkSteps /\ InSent'
<1> DEFINE p == Len(sent) + 1
<1>1. /\ sent' = Append(sent, Direct) /\ delivered' = delivered
      /\ bands' = bands /\ p \in Packet
  BY NextPacket DEF DirectSend
<1>2. /\ DOMAIN sent' = DOMAIN sent \cup {p}
      /\ \A b : p \in Of(b)' <=> b = Direct
      /\ \A s \in Seq(DOMAIN sent) :
           /\ s \in Seq(DOMAIN sent')
           /\ \A b : Within(s, Of(b)') = Within(s, Of(b))
      /\ \A b : \A s \in Seq(Of(b)) : s \in Seq(Of(b)')
  BY <1>1, SentOne
<1>3. Flight' = Append(Flight, p) \/ Flight' = Flight
  OBVIOUS
<1> HIDE DEF p
<1>4. /\ Flight \in Seq(DOMAIN sent') /\ delivered' \in Seq(DOMAIN sent')
      /\ \A b : Within(Flight, Of(b)') = Within(Flight, Of(b))
      /\ \A b : Within(delivered', Of(b)') = Within(delivered, Of(b))
  BY <1>1, <1>2 DEF InSent
<1>5. p \in DOMAIN sent'
  BY <1>2
<1>6. InSent'
  <2>1. Flight' \in Seq(DOMAIN sent')
    BY <1>3, <1>4, <1>5, AppendTo
  <2>2. ASSUME NEW b \in Band PROVE bands'[b] \in Seq(Of(b)')
    BY <1>1, <1>2 DEF InSent
  <2> QED BY <2>1, <2>2, <1>4 DEF InSent
<1>7. ASSUME NEW b \in Band \cup {Direct}
      PROVE  UNCHANGED Link(b)!lvars \/ Link(b)!Next
  <2>1. /\ Channel(b) = Within(Flight, Of(b)) \o Waiting(b)
        /\ Channel(b)' = Within(Flight', Of(b)') \o Waiting(b)
        /\ Channel(b) \in Seq(Packet)
        /\ InBand(b, delivered)' = InBand(b, delivered)
    BY <1>1, <1>4, ShownAt DEF Waiting
  <2>2. Within(Append(Flight, p), Of(b)') =
          IF p \in Of(b)' THEN Append(Within(Flight, Of(b)'), p)
                          ELSE Within(Flight, Of(b)')
    BY <1>4, <1>5, WithinAppend
  <2>3. CASE Flight' = Append(Flight, p) /\ b = Direct
    <3> DEFINE x == Within(Flight, Of(b))
    <3>1. x \in Seq(DOMAIN sent)
      BY WithinType DEF InSent
    <3>2. Within(Flight', Of(b)') = Append(x, p)
      BY <2>2, <2>3, <1>2, <1>4
    <3>3. Channel(b) = x \o <<>> /\ Channel(b)' = Append(x, p) \o <<>>
      BY <2>1, <2>3, <3>2 DEF Waiting
    <3> HIDE DEF x
    <3>4. x \in Seq(DOMAIN sent') /\ Append(x, p) \in Seq(DOMAIN sent')
      BY <3>1, <1>2, <1>5, AppendTo
    <3>5. x \o <<>> = x /\ Append(x, p) \o <<>> = Append(x, p)
      BY <3>4, ConcatEmptySeq
    <3>6. Channel(b)' = Append(Channel(b), p)
      BY <3>3, <3>5
    <3> QED BY <3>6, <2>1, <1>1, LinkStep
  <2>4. CASE Flight' = Append(Flight, p) /\ b # Direct
    <3>1. Within(Flight', Of(b)') = Within(Flight, Of(b))
      BY <2>2, <2>4, <1>2, <1>4
    <3> QED BY <3>1, <2>1, LinkStep
  <2>5. CASE Flight' = Flight
    BY <2>1, <2>5, <1>4, LinkStep
  <2> QED BY <2>3, <2>4, <2>5, <1>3
<1> QED BY <1>6, <1>7 DEF LinkSteps

\* A packet that leaves a band goes in flight at once, and keeps its place.
LEMMA RunSendSteps ==
    ASSUME TypeInv, Shown, Shown', InSent, RunSend,
           Flight' = Append(Flight, Head(bands[FirstBand]))
    PROVE  LinkSteps /\ InSent'
<1> DEFINE c == FirstBand
           p == Head(bands[c])
<1>1. /\ c \in Band /\ bands[c] # <<>>
      /\ bands' = [bands EXCEPT ![c] = Tail(@)]
      /\ sent' = sent /\ delivered' = delivered
  BY FirstBandHead DEF RunSend
<1>2. Flight' = Append(Flight, p)
  OBVIOUS
<1> HIDE DEF c
<1>3. /\ bands \in [Band -> Seq(Packet)] /\ bands[c] \in Seq(Of(c))
      /\ c # Direct
  BY <1>1, LinkAssumption DEF TypeInv, RunTypes, InSent, Band, Direct
<1>4. p \in Of(c) /\ Tail(bands[c]) \in Seq(Of(c)) /\ p \in DOMAIN sent
  <2>1. p \in Of(c) /\ Tail(bands[c]) \in Seq(Of(c))
    BY <1>1, <1>3, TailOf
  <2> QED BY <2>1 DEF Of
<1>5. \A b : Of(b)' = Of(b)
  BY <1>1 DEF Of
<1>6. /\ bands'[c] = Tail(bands[c])
      /\ \A b \in Band : b # c => bands'[b] = bands[b]
  BY <1>1, <1>3
<1> HIDE DEF p
<1>7. InSent'
  <2>1. Flight' \in Seq(DOMAIN sent')
    BY <1>1, <1>2, <1>4, AppendTo DEF InSent
  <2>2. ASSUME NEW b \in Band PROVE bands'[b] \in Seq(Of(b)')
    BY <1>4, <1>5, <1>6 DEF InSent
  <2> QED BY <2>1, <2>2, <1>1 DEF InSent
<1>8. ASSUME NEW b \in Band \cup {Direct}
      PROVE  UNCHANGED Link(b)!lvars \/ Link(b)!Next
  <2> DEFINE x == Within(Flight, Of(b))
  <2>1. /\ Channel(b) = x \o Waiting(b)
        /\ Channel(b)' = Within(Flight', Of(b)) \o Waiting(b)'
        /\ Channel(b) \in Seq(Packet)
        /\ InBand(b, delivered)' = InBand(b, delivered)
    BY <1>1, <1>5, ShownAt
  <2>2. x \in Seq(DOMAIN sent)
    BY WithinType DEF InSent
  <2>3. Within(Flight', Of(b)) = IF p \in Of(b) THEN Append(x, p) ELSE x
    <3>1. Flight \in Seq(DOMAIN sent)
      BY DEF InSent
    <3>2. Within(Append(Flight, p), Of(b)) =
            IF p \in Of(b) THEN Append(Within(Flight, Of(b)), p)
                           ELSE Within(Flight, Of(b))
      BY <3>1, <1>4, WithinAppend
    <3> QED BY <3>2, <1>2, Zenon
  <2> HIDE DEF x
  <2>4. p \in Of(b) <=> b = c
    BY <1>4 DEF Of
  <2>5. CASE b = c
    <3> DEFINE y == bands[c]
    <3>1. Channel(b)' = Append(x, p) \o Tail(y) /\ Channel(b) = x \o y
      BY <2>1, <2>3, <2>4, <2>5, <1>3, <1>6 DEF Waiting
    <3>2. p = Head(y) /\ y # <<>> /\ y \in Seq(DOMAIN sent)
      <4>1. Of(c) \subseteq DOMAIN sent
        BY DEF Of
      <4> QED BY <4>1, <1>1, <1>3, SeqMore DEF p
    <3> HIDE DEF y
    <3>3. Channel(b)' = Channel(b)
      BY <3>1, <3>2, <2>2, MoveHead
    <3> QED BY <3>3, <2>1, LinkStep
  <2>6. CASE b # c
    <3>1. Waiting(b)' = Waiting(b)
      BY <2>6, <1>6 DEF Waiting
    <3>2. Channel(b)' = Channel(b)
      BY <3>1, <2>1, <2>3, <2>4, <2>6
    <3> QED BY <3>2, <2>1, LinkStep
  <2> QED BY <2>5, <2>6
<1> QED BY <1>7, <1>8 DEF LinkSteps

\* The packet that arrives is the first in the channel of its band.
LEMMA ReceiveSteps ==
    ASSUME TypeInv, Shown, Shown', InSent, NEW e, Receive(e),
           Flight # <<>>, Head(Flight) = e.pkt, Flight' = Tail(Flight)
    PROVE  LinkSteps /\ InSent'
<1> DEFINE p == Head(Flight)
<1>1. /\ sent' = sent /\ bands' = bands
      /\ delivered' = Append(delivered, p) \/ delivered' = delivered
  BY DEF Receive
<1>2. \A b : Of(b)' = Of(b) /\ Waiting(b)' = Waiting(b)
  BY <1>1 DEF Of, Waiting
<1>3. /\ Flight \in Seq(DOMAIN sent) /\ delivered \in Seq(DOMAIN sent)
      /\ p \in DOMAIN sent /\ Tail(Flight) \in Seq(DOMAIN sent)
  BY TailOf DEF InSent
<1>4. InSent'
  <2>1. delivered' \in Seq(DOMAIN sent')
    BY <1>1, <1>3, AppendTo
  <2> QED BY <2>1, <1>1, <1>2, <1>3 DEF InSent
<1>5. ASSUME NEW b \in Band \cup {Direct}
      PROVE  UNCHANGED Link(b)!lvars \/ Link(b)!Next
  <2> DEFINE x == Within(Flight, Of(b))
             y == Waiting(b)
             o == InBand(b, delivered)
             t == Within(Tail(Flight), Of(b))
  <2>1. /\ Channel(b) = x \o y
        /\ Channel(b)' = t \o y
        /\ Channel(b) \in Seq(Packet)
        /\ o = Within(delivered, Of(b))
        /\ o' = Within(delivered', Of(b))
    BY <1>2, ShownAt
  <2>2. IF p \in Of(b) THEN x # <<>> /\ Head(x) = p /\ Tail(x) = t
                       ELSE x = t
    BY <1>3, WithinTail
  <2>3. Within(Append(delivered, p), Of(b)) =
          IF p \in Of(b) THEN Append(o, p) ELSE o
    BY <1>3, <2>1, WithinAppend
  <2>4. o' = o \/ (p \in Of(b) /\ o' = Append(o, p))
    BY <1>1, <2>1, <2>3
  <2>5. CASE p \in Of(b)
    <3>1. x \in Seq(Packet) /\ y \in Seq(Packet)
      <4>1. x \in Seq(DOMAIN sent)
        BY <1>3, WithinType
      <4>2. DOMAIN sent \subseteq Packet
        BY LinkAssumption DEF TypeInv, RunTypes, Packet
      <4> QED BY <4>1, <4>2, SeqMore, WaitingType
    <3>2. x # <<>> /\ Head(x) = p /\ Tail(x) = t
      BY <2>2, <2>5
    <3> HIDE DEF x, y, t
    <3>3. /\ x \o y # <<>> /\ Head(x \o y) = p
          /\ Tail(x \o y) = t \o y
      BY <3>1, <3>2, TailConcat
    <3>4. /\ Channel(b) # <<>> /\ Channel(b)' = Tail(Channel(b))
          /\ Head(Channel(b)) = p
      BY <3>3, <2>1
    <3> QED BY <3>4, <2>1, <2>4, LinkStep
  <2>6. CASE p \notin Of(b)
    <3>1. Channel(b)' = Channel(b) /\ o' = o
      BY <2>1, <2>2, <2>4, <2>6
    <3> QED BY <3>1, <2>1, LinkStep
  <2> QED BY <2>5, <2>6
<1> QED BY <1>4, <1>5 DEF LinkSteps
-----------------------------------------------------------------------------
(* The refinement. *)

LEMMA InitLine ==
    Init => /\ Line /\ InSent
            /\ \A b \in Band \cup {Direct} : Link(b)!Init
<1> SUFFICES ASSUME Init
             PROVE  /\ Line /\ InSent
                    /\ \A b \in Band \cup {Direct} : Link(b)!Init
  OBVIOUS
<1>1. events = {} /\ Arriving = {} /\ Pending("TransmitComplete") = {}
  BY DEF Init, Arriving, Pending
<1>2. Line
  BY <1>1, FS_EmptySet DEF Line, Distinct, InTurn
<1>3. TypeInv
  BY InitTypes
<1>4. Flight = <<>> /\ OnWire = <<>>
  <2>1. Arrivals(Arriving)
    BY <1>2, <1>3, ArrivalsOf DEF Line
  <2>2. Lists(<<>>, Arriving, Earlier(Arriving))
    BY <1>1 DEF Lists
  <2>3. Wire(Arriving) = Pkts(<<>>)
    BY <2>1, <2>2, WireOf
  <2>4. Pkts(<<>>) = <<>>
    BY DEF Pkts
  <2>5. m_queue = <<>>
    BY DEF Init
  <2> QED BY <2>3, <2>4, <2>5, WireShown DEF Flight
<1>5. InSent
  <2>1. delivered = <<>> /\ \A b \in Band : bands[b] = <<>>
    BY DEF Init
  <2>2. \A S : <<>> \in Seq(S)
    BY EmptySeq
  <2> QED BY <2>1, <2>2, <1>4 DEF InSent
<1>6. ASSUME NEW b \in Band \cup {Direct} PROVE Link(b)!Init
  <2>1. \A s : s = <<>> => InBand(b, s) = <<>>
    BY WithinEmpty DEF InBand
  <2>2. /\ InBand(b, OnWire) = <<>> /\ InBand(b, m_queue) = <<>>
        /\ InBand(b, delivered) = <<>>
    BY <2>1, <1>4 DEF Init
  <2>3. Waiting(b) = <<>>
    BY DEF Waiting, Init
  <2>4. Channel(b) = <<>>
    BY <2>2, <2>3 DEF Channel
  <2> QED BY <2>2, <2>4 DEF Link!Init, Channel, Waiting
<1> QED BY <1>2, <1>5, <1>6

LEMMA NextLine ==
    ASSUME Unit = "packets", Flow, Flow', Line, InSent, [Next]_vars
    PROVE  Line' /\ InSent' /\ LinkSteps
<1>0. TypeInv /\ TypeInv' /\ TransmitterExact /\ FlagExact
  BY DEF Flow
<1>1. Shown
  BY <1>0, ShownNow DEF Line
<1>2. Line' => Shown'
  BY <1>0, ShownNext DEF Line
<1>3. now \in Nat
  BY <1>0 DEF TypeInv, RunTypes
<1>4. CASE \E c \in Band : TcSend(c)
  <2>1. PICK c \in Band : TcSend(c)
    BY <1>4
  <2>2. UNCHANGED <<now, events, m_txMachineState, m_queue>>
    BY <2>1 DEF TcSend, device
  <2>3. Line' /\ Flight' = Flight
    BY <2>2, <1>0, <1>3, LineKept, FlightKept DEF Arriving, Pending
  <2> QED BY <2>1, <2>3, <1>0, <1>1, <1>2, TcSendSteps
<1>5. CASE DirectSend
  <2>1. Len(sent) + 1 \in Packet /\ Send(Len(sent) + 1) /\ now' = now
    BY <1>0, <1>5, NextPacket DEF DirectSend
  <2>2. /\ Line'
        /\ Flight' = Append(Flight, Len(sent) + 1) \/ Flight' = Flight
    BY <2>1, <1>0, SendFlight
  <2> QED BY <2>2, <1>0, <1>1, <1>2, <1>5, DirectSendSteps
<1>6. CASE RunSend
  <2> DEFINE p == Head(bands[FirstBand])
  <2>1. /\ Send(p) /\ now' = now /\ ~m_stoppedByDevice
        /\ p \in Packet
    BY <1>0, <1>6, FirstBandHead DEF RunSend
  <2> HIDE DEF p
  <2>2. ~SendNoRoom(p)
    <3>1. Len(m_queue) \in Nat /\ MaxSize \in Nat
      BY <1>0, LinkAssumption DEF TypeInv, DeviceTypes
    <3>2. Len(m_queue) + 1 <= MaxSize
      BY <3>1, <2>1, <1>0 DEF FlagExact
    <3> QED BY <3>2 DEF SendNoRoom, Room
  <2>3. Line' /\ Flight' = Append(Flight, p)
    BY <2>1, <2>2, <1>0, SendFlight
  <2> QED BY <2>3, <1>0, <1>1, <1>2, <1>6, RunSendSteps DEF p
<1>7. CASE \/ RunEnd \/ Advance \/ UNCHANGED vars
           \/ \E e \in events : Wake(e)
  <2>1. /\ UNCHANGED <<m_txMachineState, m_queue, sent, bands, delivered>>
        /\ now' \in Nat /\ now' >= now
    BY <1>3, <1>7 DEF RunEnd, Advance, vars, Wake, device, history
  <2>2. events' \subseteq events /\ Arriving' = Arriving
    BY <1>7 DEF RunEnd, Advance, vars, Wake, Arriving, Pending
  <2>3. Line' /\ Flight' = Flight
    BY <2>1, <2>2, <1>0, LineKept, FlightKept
  <2> QED BY <2>1, <2>3, <1>1, <1>2, RestSteps
<1>8. CASE \E e \in events : Due(e) /\ TransmitComplete(e)
  <2>1. Line' /\ Flight' = Flight
    BY <1>0, <1>8, TransmitCompleteFlight
  <2>2. UNCHANGED <<sent, bands, delivered>>
    BY <1>8 DEF TransmitComplete, history
  <2> QED BY <2>1, <2>2, <1>1, <1>2, RestSteps
<1>9. CASE \E e \in events : Due(e) /\ Receive(e)
  <2>1. PICK e \in events : Due(e) /\ Receive(e)
    BY <1>9
  <2>2. /\ Line'
        /\ Flight # <<>> /\ Head(Flight) = e.pkt
        /\ Flight' = Tail(Flight)
    BY <2>1, <1>0, ReceiveFlight
  <2> QED BY <2>1, <2>2, <1>0, <1>1, <1>2, ReceiveSteps
<1> QED BY <1>4, <1>5, <1>6, <1>7, <1>8, <1>9 DEF Next, Run, Execute

\* The link implements a lossy first-in-first-out channel for every band, and
\* for the packets sent past the queue disc: within a band no packet overtakes
\* another or arrives twice, whatever the limits, the sizes and the delays.
THEOREM FifoCorrect ==
    ASSUME Unit = "packets"
    PROVE  Spec => FifoPerBand
<1>1. Init => /\ Line /\ InSent
              /\ \A b \in Band \cup {Direct} : Link(b)!Init
  BY InitLine
<1>2. Flow /\ Flow' /\ Line /\ InSent /\ [Next]_vars
        => Line' /\ InSent' /\ [LinkSteps]_vars
  BY NextLine
<1>3. Spec => []Flow
  BY FlowCorrect DEF Flow
<1>4. Spec => []Flow /\ [][LinkSteps]_vars
              /\ \A b \in Band \cup {Direct} : Link(b)!Init
  BY <1>1, <1>2, <1>3, PTL DEF Spec
<1> QED BY <1>4 DEF FifoPerBand, LinkSteps
-----------------------------------------------------------------------------
(* Where each packet is. *)

Fate == {"refused", "discarded", "corrupted", "delivered", "flight", "waiting"}

Met(fate, x) == {p \in DOMAIN sent : fate[p] = x}

\* Each packet sent is in the one place fate names, a waiting one in the band
\* it was sent in, and nothing else is anywhere.
Located(fate) ==
    /\ refused = Met(fate, "refused")
    /\ discarded = Met(fate, "discarded")
    /\ corrupted = Met(fate, "corrupted")
    /\ ToSet(delivered) = Met(fate, "delivered")
    /\ ToSet(Flight) = Met(fate, "flight")
    /\ \A b \in Band \cup {Direct} :
         ToSet(Waiting(b)) = Met(fate, "waiting") \cap Of(b)

\* No queue holds a packet twice.
NoneTwice == /\ IsInjective(delivered) /\ IsInjective(Flight)
             /\ \A b \in Band : IsInjective(bands[b])

Accounted == NoneTwice /\ \E fate \in [DOMAIN sent -> Fate] : Located(fate)

\* A list without repetitions, one element longer or shorter.
LEMMA OnceMore ==
    ASSUME NEW S, NEW seq \in Seq(S), NEW x \in S, IsInjective(seq),
           x \notin ToSet(seq)
    PROVE  IsInjective(Append(seq, x))
<1>1. /\ Len(seq) \in Nat /\ DOMAIN seq = 1..Len(seq)
      /\ DOMAIN Append(seq, x) = 1..(Len(seq) + 1)
      /\ Append(seq, x)[Len(seq) + 1] = x
      /\ \A i \in 1..Len(seq) : Append(seq, x)[i] = seq[i]
  OBVIOUS
<1>2. \A i \in 1..Len(seq) : seq[i] # x
  BY <1>1 DEF ToSet
<1>3. \A i, j \in 1..Len(seq) : seq[i] = seq[j] => i = j
  BY <1>1 DEF IsInjective
<1>4. \A i, j \in 1..(Len(seq) + 1) : Append(seq, x)[i] = Append(seq, x)[j] => i = j
  <2> SUFFICES ASSUME NEW i \in 1..(Len(seq) + 1), NEW j \in 1..(Len(seq) + 1),
                      Append(seq, x)[i] = Append(seq, x)[j]
               PROVE  i = j
    OBVIOUS
  <2>1. \A k \in 1..(Len(seq) + 1) : k \in 1..Len(seq) \/ k = Len(seq) + 1
    BY <1>1
  <2> QED BY <2>1, <1>1, <1>2, <1>3
<1> QED BY <1>1, <1>4 DEF IsInjective

LEMMA OnceLess ==
    ASSUME NEW S, NEW seq \in Seq(S), seq # <<>>, IsInjective(seq)
    PROVE  /\ IsInjective(Tail(seq))
           /\ ToSet(Tail(seq)) = ToSet(seq) \ {Head(seq)}
<1>1. /\ Len(seq) \in Nat \ {0} /\ DOMAIN seq = 1..Len(seq)
      /\ DOMAIN Tail(seq) = 1..(Len(seq) - 1)
      /\ Head(seq) = seq[1]
      /\ \A i \in 1..(Len(seq) - 1) : Tail(seq)[i] = seq[i + 1]
  <2>1. Tail(seq) \in Seq(S) /\ Len(Tail(seq)) = Len(seq) - 1
    BY TailOf
  <2> QED BY <2>1, TailOf
<1>2. \A i, j \in 1..Len(seq) : seq[i] = seq[j] => i = j
  BY <1>1 DEF IsInjective
<1>3. \A i \in 1..(Len(seq) - 1) : i + 1 \in 1..Len(seq) /\ i + 1 # 1
  BY <1>1
<1>4. IsInjective(Tail(seq))
  <2>1. \A i, j \in 1..(Len(seq) - 1) : Tail(seq)[i] = Tail(seq)[j] => i + 1 = j + 1
    BY <1>1, <1>2, <1>3
  <2>2. \A i, j \in 1..(Len(seq) - 1) : Tail(seq)[i] = Tail(seq)[j] => i = j
    BY <2>1
  <2> QED BY <2>2, <1>1 DEF IsInjective
<1>5. Head(seq) \notin ToSet(Tail(seq))
  <2>1. 1 \in 1..Len(seq)
    BY <1>1
  <2>2. \A i \in DOMAIN Tail(seq) : Tail(seq)[i] # Head(seq)
    BY <2>1, <1>1, <1>2, <1>3
  <2> QED BY <2>2 DEF ToSet
<1> QED BY <1>4, <1>5, SetTail

\* A set of packets that p is put into or taken out of.
Put(S, there, p) == IF there THEN S \cup {p} ELSE S \ {p}

\* A packet that is new or moves to the place x.
LEMMA Relocated ==
    ASSUME NEW f \in [DOMAIN sent -> Fate], Located(f),
           NEW p, NEW x \in Fate,
           DOMAIN sent' = DOMAIN sent \cup {p},
           \A b \in Band \cup {Direct} : Of(b)' \ {p} = Of(b) \ {p},
           refused' = Put(refused, x = "refused", p),
           discarded' = Put(discarded, x = "discarded", p),
           corrupted' = Put(corrupted, x = "corrupted", p),
           ToSet(delivered)' = Put(ToSet(delivered), x = "delivered", p),
           ToSet(Flight)' = Put(ToSet(Flight), x = "flight", p),
           \A b \in Band \cup {Direct} :
             ToSet(Waiting(b))' = Put(ToSet(Waiting(b)),
                                      x = "waiting" /\ p \in Of(b)', p)
    PROVE  \E g \in [DOMAIN sent' -> Fate] : Located(g)'
<1> DEFINE g == [q \in DOMAIN sent' |-> IF q = p THEN x ELSE f[q]]
<1>1. g \in [DOMAIN sent' -> Fate]
  OBVIOUS
<1>2. ASSUME NEW y PROVE {q \in DOMAIN sent' : g[q] = y} = Put(Met(f, y), x = y, p)
  BY DEF Met, Put
<1> HIDE DEF g
<1>3. PICK h : h = g
  OBVIOUS
<1>4. \A y : Met(h, y)' = Put(Met(f, y), x = y, p)
  BY <1>2, <1>3 DEF Met
<1>5. ASSUME NEW b \in Band \cup {Direct}
      PROVE  ToSet(Waiting(b))' = Met(h, "waiting")' \cap Of(b)'
  <2>1. /\ ToSet(Waiting(b))' = Put(ToSet(Waiting(b)), x = "waiting" /\ p \in Of(b)', p)
        /\ ToSet(Waiting(b)) = Met(f, "waiting") \cap Of(b)
        /\ Of(b)' \ {p} = Of(b) \ {p}
    BY DEF Located
  <2> QED BY <2>1, <1>4 DEF Put
<1>6. Located(h)'
  BY <1>4, <1>5 DEF Located
<1> QED BY <1>1, <1>3, <1>6

\* All that counts stays where it is.
LEMMA Unmoved ==
    ASSUME Accounted, UNCHANGED <<sent, refused, discarded, corrupted, delivered, bands>>,
           Flight' = Flight
    PROVE  Accounted'
<1>1. NoneTwice'
  BY DEF Accounted, NoneTwice
<1>2. PICK f \in [DOMAIN sent -> Fate] : Located(f)
  BY DEF Accounted
<1>3. Located(f)'
  BY <1>2 DEF Located, Met, Of, Waiting
<1> QED BY <1>1, <1>2, <1>3 DEF Accounted

\* Nothing waits outside the bands.
LEMMA WaitingSet ==
    ASSUME TypeInv, NEW b \in Band \cup {Direct}
    PROVE  /\ b = Direct => ToSet(Waiting(b)) = {}
           /\ b # Direct => Waiting(b) = bands[b] /\ b \in Band
<1>1. ToSet(<<>>) = {}
  BY DEF ToSet
<1> QED BY <1>1 DEF Waiting

\* A packet from above is refused, waits, is discarded or goes in flight.
LEMMA NewPacket ==
    ASSUME TypeInv, TypeInv', Accounted, Distinct, NEW c \in Band \cup {Direct}, NEW p,
           p = Len(sent) + 1, sent' = Append(sent, c), p \in Packet,
           UNCHANGED <<corrupted, delivered>>,
           \/ /\ refused' = refused \cup {p}
              /\ UNCHANGED <<bands, discarded>> /\ Flight' = Flight
           \/ /\ c \in Band /\ bands' = [bands EXCEPT ![c] = Append(@, p)]
              /\ UNCHANGED <<refused, discarded>> /\ Flight' = Flight
           \/ /\ Flight' = Append(Flight, p) /\ UNCHANGED <<bands, refused, discarded>>
           \/ /\ discarded' = discarded \cup {p}
              /\ UNCHANGED <<bands, refused>> /\ Flight' = Flight
    PROVE  Accounted'
<1>1. /\ DOMAIN sent' = DOMAIN sent \cup {p} /\ p \notin DOMAIN sent
      /\ \A b : p \in Of(b)' <=> b = c
      /\ \A b : Of(b)' \ {p} = Of(b) \ {p}
  <2>1. sent \in Seq(Band \cup {Direct}) /\ Len(sent) \in Nat
    BY DEF TypeInv, RunTypes
  <2>2. /\ DOMAIN sent = 1..Len(sent) /\ DOMAIN sent' = 1..(Len(sent) + 1)
        /\ sent'[p] = c
        /\ \A i \in 1..Len(sent) : sent'[i] = sent[i]
    BY <2>1, AppendTo
  <2>3. DOMAIN sent' = DOMAIN sent \cup {p} /\ p \notin DOMAIN sent
    BY <2>1, <2>2
  <2> QED BY <2>2, <2>3 DEF Of
<1>2. PICK f \in [DOMAIN sent -> Fate] : Located(f)
  BY DEF Accounted
<1>3. /\ p \notin refused \cup discarded \cup corrupted
      /\ p \notin ToSet(delivered) /\ p \notin ToSet(Flight)
      /\ \A b \in Band \cup {Direct} : p \notin ToSet(Waiting(b))
  BY <1>1, <1>2 DEF Located, Met
<1>4. Flight \in Seq(Packet) /\ bands \in [Band -> Seq(Packet)] /\ Direct \notin Band
  BY FlightType, LinkAssumption DEF TypeInv, RunTypes, Band, Direct
<1>5. ToSet(Append(Flight, p)) = ToSet(Flight) \cup {p} /\ IsInjective(Append(Flight, p))
  BY <1>3, <1>4, SetAppend, OnceMore DEF Accounted, NoneTwice
<1>6. c \in Band => /\ ToSet(Append(bands[c], p)) = ToSet(bands[c]) \cup {p}
                    /\ IsInjective(Append(bands[c], p))
  <2> SUFFICES ASSUME c \in Band
               PROVE  /\ ToSet(Append(bands[c], p)) = ToSet(bands[c]) \cup {p}
                      /\ IsInjective(Append(bands[c], p))
    OBVIOUS
  <2>1. bands[c] \in Seq(Packet) /\ p \notin ToSet(bands[c]) /\ IsInjective(bands[c])
    BY <1>3, <1>4, WaitingSet DEF Accounted, NoneTwice
  <2> QED BY <2>1, SetAppend, OnceMore
<1>7. NoneTwice'
  <2>1. \A b \in Band : IsInjective(bands'[b])
    <3>1. CASE bands' = bands
      BY <3>1 DEF Accounted, NoneTwice
    <3>2. CASE c \in Band /\ bands' = [bands EXCEPT ![c] = Append(@, p)]
      BY <3>2, <1>4, <1>6 DEF Accounted, NoneTwice
    <3> QED BY <3>1, <3>2
  <2> QED BY <2>1, <1>5 DEF Accounted, NoneTwice
<1>8. ASSUME bands' = bands
      PROVE  \A b \in Band \cup {Direct} : Waiting(b)' = Waiting(b)
  BY <1>8 DEF Waiting
<1>9. ASSUME c \in Band, bands' = [bands EXCEPT ![c] = Append(@, p)]
      PROVE  \A b \in Band \cup {Direct} :
               ToSet(Waiting(b))' = IF b = c THEN ToSet(Waiting(b)) \cup {p}
                                             ELSE ToSet(Waiting(b))
  BY <1>4, <1>6, <1>9 DEF Waiting
<1>10. \E x \in Fate :
         /\ refused' = Put(refused, x = "refused", p)
         /\ discarded' = Put(discarded, x = "discarded", p)
         /\ corrupted' = Put(corrupted, x = "corrupted", p)
         /\ ToSet(delivered)' = Put(ToSet(delivered), x = "delivered", p)
         /\ ToSet(Flight)' = Put(ToSet(Flight), x = "flight", p)
         /\ \A b \in Band \cup {Direct} :
              ToSet(Waiting(b))' = Put(ToSet(Waiting(b)),
                                       x = "waiting" /\ p \in Of(b)', p)
  <2>1. ToSet(delivered)' = ToSet(delivered) /\ corrupted' = corrupted
    OBVIOUS
  <2>2. CASE /\ refused' = refused \cup {p}
             /\ UNCHANGED <<bands, discarded>> /\ Flight' = Flight
    <3> USE DEF Fate
    <3> WITNESS "refused" \in Fate
    <3> QED BY <2>1, <2>2, <1>3, <1>8 DEF Put
  <2>3. CASE /\ c \in Band /\ bands' = [bands EXCEPT ![c] = Append(@, p)]
             /\ UNCHANGED <<refused, discarded>> /\ Flight' = Flight
    <3> USE DEF Fate
    <3> WITNESS "waiting" \in Fate
    <3> QED BY <2>1, <2>3, <1>1, <1>3, <1>9 DEF Put
  <2>4. CASE Flight' = Append(Flight, p) /\ UNCHANGED <<bands, refused, discarded>>
    <3> USE DEF Fate
    <3> WITNESS "flight" \in Fate
    <3> QED BY <2>1, <2>4, <1>3, <1>5, <1>8 DEF Put
  <2>5. CASE /\ discarded' = discarded \cup {p}
             /\ UNCHANGED <<bands, refused>> /\ Flight' = Flight
    <3> USE DEF Fate
    <3> WITNESS "discarded" \in Fate
    <3> QED BY <2>1, <2>5, <1>3, <1>8 DEF Put
  <2> QED BY <2>2, <2>3, <2>4, <2>5
<1>11. \E g \in [DOMAIN sent' -> Fate] : Located(g)'
  BY <1>1, <1>2, <1>10, Relocated
<1> QED BY <1>7, <1>11 DEF Accounted

\* A packet of a band goes in flight or is discarded.
LEMMA BandPacket ==
    ASSUME TypeInv, Accounted, Distinct, NEW c \in Band, NEW p, p = Head(bands[c]),
           bands[c] # <<>>, bands' = [bands EXCEPT ![c] = Tail(@)],
           UNCHANGED <<sent, refused, corrupted, delivered>>,
           \/ Flight' = Append(Flight, p) /\ UNCHANGED discarded
           \/ Flight' = Flight /\ discarded' = discarded \cup {p}
    PROVE  Accounted'
<1>1. PICK f \in [DOMAIN sent -> Fate] : Located(f)
  BY DEF Accounted
<1>2. Flight \in Seq(Packet) /\ bands \in [Band -> Seq(Packet)] /\ Direct \notin Band
  BY FlightType, LinkAssumption DEF TypeInv, RunTypes, Band, Direct
<1>3. /\ p \in ToSet(bands[c]) /\ p \in Packet
      /\ ToSet(Tail(bands[c])) = ToSet(bands[c]) \ {p} /\ IsInjective(Tail(bands[c]))
  <2>1. bands[c] \in Seq(Packet) /\ IsInjective(bands[c])
    BY <1>2 DEF Accounted, NoneTwice
  <2> QED BY <2>1, SetTail, OnceLess
<1>4. /\ p \in Met(f, "waiting") \cap Of(c) /\ p \in DOMAIN sent /\ f[p] = "waiting"
      /\ \A b : p \in Of(b) <=> b = c
  <2>1. ToSet(bands[c]) = Met(f, "waiting") \cap Of(c)
    <3>1. Waiting(c) = bands[c]
      BY <1>2, WaitingSet
    <3> QED BY <3>1, <1>1 DEF Located
  <2> QED BY <2>1, <1>3 DEF Of, Met
<1>5. /\ p \notin refused \cup discarded \cup corrupted
      /\ p \notin ToSet(delivered) /\ p \notin ToSet(Flight)
      /\ \A b \in Band \cup {Direct} : b # c => p \notin ToSet(Waiting(b))
  BY <1>1, <1>4 DEF Located, Met
<1>6. ToSet(Append(Flight, p)) = ToSet(Flight) \cup {p} /\ IsInjective(Append(Flight, p))
  BY <1>2, <1>3, <1>5, SetAppend, OnceMore DEF Accounted, NoneTwice
<1>7. /\ bands'[c] = Tail(bands[c])
      /\ \A b \in Band : b # c => bands'[b] = bands[b]
  BY <1>2
<1>8. NoneTwice'
  BY <1>3, <1>6, <1>7 DEF Accounted, NoneTwice
<1>9. \A b \in Band \cup {Direct} : ToSet(Waiting(b))' = ToSet(Waiting(b)) \ {p}
  BY <1>2, <1>3, <1>5, <1>7 DEF Waiting
<1>10. /\ DOMAIN sent' = DOMAIN sent \cup {p}
       /\ \A b \in Band \cup {Direct} : Of(b)' = Of(b)
  BY <1>4 DEF Of
<1>11. \E x \in Fate :
         /\ refused' = Put(refused, x = "refused", p)
         /\ discarded' = Put(discarded, x = "discarded", p)
         /\ corrupted' = Put(corrupted, x = "corrupted", p)
         /\ ToSet(delivered)' = Put(ToSet(delivered), x = "delivered", p)
         /\ ToSet(Flight)' = Put(ToSet(Flight), x = "flight", p)
         /\ \A b \in Band \cup {Direct} :
              ToSet(Waiting(b))' = Put(ToSet(Waiting(b)),
                                       x = "waiting" /\ p \in Of(b)', p)
  <2> USE DEF Fate
  <2>1. ToSet(delivered)' = ToSet(delivered)
    OBVIOUS
  <2>2. CASE Flight' = Append(Flight, p) /\ UNCHANGED discarded
    <3> WITNESS "flight" \in Fate
    <3> QED BY <2>1, <2>2, <1>5, <1>6, <1>9 DEF Put
  <2>3. CASE Flight' = Flight /\ discarded' = discarded \cup {p}
    <3> WITNESS "discarded" \in Fate
    <3> QED BY <2>1, <2>3, <1>5, <1>9 DEF Put
  <2> QED BY <2>2, <2>3
<1>12. \E g \in [DOMAIN sent' -> Fate] : Located(g)'
  BY <1>1, <1>10, <1>11, Relocated
<1> QED BY <1>8, <1>12 DEF Accounted

\* The first packet in flight arrives.
LEMMA ArrivedPacket ==
    ASSUME TypeInv, Accounted, Distinct, Flight # <<>>, NEW p, p = Head(Flight),
           Flight' = Tail(Flight), UNCHANGED <<sent, refused, discarded, bands>>,
           \/ delivered' = Append(delivered, p) /\ UNCHANGED corrupted
           \/ corrupted' = corrupted \cup {p} /\ UNCHANGED delivered
    PROVE  Accounted'
<1>1. PICK f \in [DOMAIN sent -> Fate] : Located(f)
  BY DEF Accounted
<1>2. Flight \in Seq(Packet) /\ delivered \in Seq(Packet)
  BY FlightType DEF TypeInv, RunTypes
<1>3. /\ p \in ToSet(Flight) /\ p \in Packet
      /\ ToSet(Tail(Flight)) = ToSet(Flight) \ {p} /\ IsInjective(Tail(Flight))
  BY <1>2, SetTail, OnceLess DEF Accounted, NoneTwice
<1>4. p \in DOMAIN sent /\ f[p] = "flight"
  BY <1>1, <1>3 DEF Located, Met
<1>5. /\ p \notin refused \cup discarded \cup corrupted
      /\ p \notin ToSet(delivered)
      /\ \A b \in Band \cup {Direct} : p \notin ToSet(Waiting(b))
  BY <1>1, <1>4 DEF Located, Met
<1>6. ToSet(Append(delivered, p)) = ToSet(delivered) \cup {p}
      /\ IsInjective(Append(delivered, p))
  BY <1>2, <1>3, <1>5, SetAppend, OnceMore DEF Accounted, NoneTwice
<1>7. NoneTwice'
  BY <1>3, <1>6 DEF Accounted, NoneTwice
<1>8. /\ DOMAIN sent' = DOMAIN sent \cup {p}
      /\ \A b : Of(b)' = Of(b) /\ Waiting(b)' = Waiting(b)
  BY <1>4 DEF Of, Waiting
<1>9. \E x \in Fate :
         /\ refused' = Put(refused, x = "refused", p)
         /\ discarded' = Put(discarded, x = "discarded", p)
         /\ corrupted' = Put(corrupted, x = "corrupted", p)
         /\ ToSet(delivered)' = Put(ToSet(delivered), x = "delivered", p)
         /\ ToSet(Flight)' = Put(ToSet(Flight), x = "flight", p)
         /\ \A b \in Band \cup {Direct} :
              ToSet(Waiting(b))' = Put(ToSet(Waiting(b)),
                                       x = "waiting" /\ p \in Of(b)', p)
  <2> USE DEF Fate
  <2>1. ToSet(Flight)' = ToSet(Flight) \ {p}
    BY <1>3
  <2>2. CASE delivered' = Append(delivered, p) /\ UNCHANGED corrupted
    <3> WITNESS "delivered" \in Fate
    <3> QED BY <2>1, <2>2, <1>5, <1>6, <1>8 DEF Put
  <2>3. CASE corrupted' = corrupted \cup {p} /\ UNCHANGED delivered
    <3> WITNESS "corrupted" \in Fate
    <3> QED BY <2>1, <2>3, <1>5, <1>8 DEF Put
  <2> QED BY <2>2, <2>3
<1>10. \E g \in [DOMAIN sent' -> Fate] : Located(g)'
  BY <1>1, <1>8, <1>9, Relocated
<1> QED BY <1>7, <1>10 DEF Accounted

\* A packet the device does not take is discarded.
LEMMA SendOutcome ==
    ASSUME TypeInv, NEW p \in Packet, Send(p),
           \/ Flight' = Append(Flight, p)
           \/ SendNoRoom(p) /\ Flight' = Flight
    PROVE  \/ Flight' = Append(Flight, p) /\ UNCHANGED discarded
           \/ Flight' = Flight /\ discarded' = discarded \cup {p}
<1>1. CASE SendNoRoom(p)
  <2>1. discarded' = discarded \cup {p}
    BY <1>1 DEF SendNoRoom
  <2>2. Flight' = Flight
    BY <1>1, FlightKept DEF SendNoRoom, device, Arriving, Pending
  <2> QED BY <2>1, <2>2
<1>2. CASE ~SendNoRoom(p)
  <2>1. UNCHANGED discarded
    BY <1>2 DEF Send, SendReady, SendBusy
  <2> QED BY <2>1, <1>2
<1> QED BY <1>1, <1>2

LEMMA InitAccounted == Init => Line /\ Accounted
<1> SUFFICES ASSUME Init PROVE Line /\ Accounted
  OBVIOUS
<1>1. Line /\ InSent
  BY InitLine
<1>2. /\ refused = {} /\ discarded = {} /\ corrupted = {} /\ delivered = <<>>
      /\ DOMAIN sent = {} /\ \A b \in Band \cup {Direct} : Waiting(b) = <<>>
      /\ \A b \in Band : bands[b] = <<>>
  BY DEF Init, Waiting
<1>3. Flight = <<>>
  <2>1. Flight \in Seq({})
    BY <1>1, <1>2 DEF InSent
  <2> QED BY <2>1
<1>4. ToSet(<<>>) = {} /\ IsInjective(<<>>)
  BY DEF ToSet, IsInjective
<1>5. NoneTwice
  BY <1>2, <1>3, <1>4 DEF NoneTwice
<1>6. PICK f : f \in [DOMAIN sent -> Fate]
  <2>1. [q \in DOMAIN sent |-> "refused"] \in [DOMAIN sent -> Fate]
    BY DEF Fate
  <2> QED BY <2>1
<1>7. Located(f)
  BY <1>2, <1>3, <1>4 DEF Located, Met, Of
<1> QED BY <1>1, <1>5, <1>6, <1>7 DEF Accounted

LEMMA NextAccounted ==
    ASSUME TypeInv, TypeInv', TransmitterExact, Line, Accounted, [Next]_vars
    PROVE  Line' /\ Accounted'
<1>1. now \in Nat
  BY DEF TypeInv, RunTypes
<1>2. CASE \E c \in Band : TcSend(c)
  <2>1. PICK c \in Band : TcSend(c)
    BY <1>2
  <2>2. UNCHANGED <<now, events, m_txMachineState, m_queue,
                  corrupted, delivered, discarded>>
    BY <2>1 DEF TcSend, device
  <2>3. Line' /\ Flight' = Flight
    BY <2>2, <1>1, LineKept, FlightKept DEF Arriving, Pending
  <2>4. PICK p : p = Len(sent) + 1
    OBVIOUS
  <2>5. p \in Packet /\ sent' = Append(sent, c)
    BY <2>1, <2>4, NextPacket DEF TcSend
  <2>6. \/ refused' = refused \cup {p} /\ UNCHANGED bands
        \/ bands' = [bands EXCEPT ![c] = Append(@, p)] /\ UNCHANGED refused
    BY <2>1, <2>4 DEF TcSend
  <2> QED BY <2>2, <2>3, <2>4, <2>5, <2>6, NewPacket DEF Line
<1>3. CASE DirectSend
  <2>1. PICK p : p = Len(sent) + 1
    OBVIOUS
  <2>2. /\ p \in Packet /\ Send(p) /\ now' = now /\ sent' = Append(sent, Direct)
        /\ UNCHANGED <<corrupted, delivered, bands, refused>>
    BY <2>1, <1>3, NextPacket DEF DirectSend
  <2>3. /\ Line'
        /\ \/ Flight' = Append(Flight, p)
           \/ SendNoRoom(p) /\ Flight' = Flight
    BY <2>2, SendFlight
  <2>4. \/ Flight' = Append(Flight, p) /\ UNCHANGED discarded
        \/ Flight' = Flight /\ discarded' = discarded \cup {p}
    BY <2>2, <2>3, SendOutcome
  <2> QED BY <2>1, <2>2, <2>3, <2>4, NewPacket DEF Line
<1>4. CASE RunSend
  <2>1. PICK c, p : c = FirstBand /\ p = Head(bands[c])
    OBVIOUS
  <2>2. /\ Send(p) /\ now' = now /\ p \in Packet
        /\ c \in Band /\ bands[c] # <<>> /\ bands' = [bands EXCEPT ![c] = Tail(@)]
        /\ UNCHANGED <<sent, refused, corrupted, delivered>>
    BY <2>1, <1>4, FirstBandHead DEF RunSend
  <2>3. /\ Line'
        /\ \/ Flight' = Append(Flight, p)
           \/ SendNoRoom(p) /\ Flight' = Flight
    BY <2>2, SendFlight
  <2>4. \/ Flight' = Append(Flight, p) /\ UNCHANGED discarded
        \/ Flight' = Flight /\ discarded' = discarded \cup {p}
    BY <2>2, <2>3, SendOutcome
  <2> QED BY <2>1, <2>2, <2>3, <2>4, BandPacket DEF Line
<1>5. CASE \/ RunEnd \/ Advance \/ UNCHANGED vars
           \/ \E e \in events : Wake(e)
  <2>1. /\ UNCHANGED <<m_txMachineState, m_queue, sent, bands, delivered,
                       refused, discarded, corrupted>>
        /\ now' \in Nat /\ now' >= now
    BY <1>1, <1>5 DEF RunEnd, Advance, vars, Wake, device, history
  <2>2. events' \subseteq events /\ Arriving' = Arriving
    BY <1>5 DEF RunEnd, Advance, vars, Wake, Arriving, Pending
  <2>3. Line' /\ Flight' = Flight
    BY <2>1, <2>2, LineKept, FlightKept
  <2> QED BY <2>1, <2>3, Unmoved
<1>6. CASE \E e \in events : Due(e) /\ TransmitComplete(e)
  <2>1. Line' /\ Flight' = Flight
    BY <1>6, TransmitCompleteFlight
  <2>2. UNCHANGED <<sent, bands, delivered, refused, discarded, corrupted>>
    BY <1>6 DEF TransmitComplete, history
  <2> QED BY <2>1, <2>2, Unmoved
<1>7. CASE \E e \in events : Due(e) /\ Receive(e)
  <2>1. PICK e \in events : Due(e) /\ Receive(e)
    BY <1>7
  <2>2. PICK p : p = e.pkt
    OBVIOUS
  <2>3. /\ Line'
        /\ Flight # <<>> /\ Head(Flight) = p
        /\ Flight' = Tail(Flight)
    BY <2>1, <2>2, ReceiveFlight
  <2>4. /\ UNCHANGED <<sent, refused, discarded, bands>>
        /\ \/ delivered' = Append(delivered, p) /\ UNCHANGED corrupted
           \/ corrupted' = corrupted \cup {p} /\ UNCHANGED delivered
    BY <2>1, <2>2 DEF Receive
  <2> QED BY <2>3, <2>4, ArrivedPacket DEF Line
<1> QED BY <1>2, <1>3, <1>4, <1>5, <1>6, <1>7 DEF Next, Run, Execute

\* Every packet sent is at each moment in one place, once: refused by the queue
\* disc, in its band, in the device queue or on the wire, discarded by the
\* device, lost to the receiver's error model, or delivered; and there is no
\* packet anywhere that was not sent.  Whatever the unit of the device queue:
\* the packet a full one turns away is not lost sight of.
THEOREM NothingLost == Spec => []Accounted
<1>1. Init => Line /\ Accounted
  BY InitAccounted
<1>2. /\ TypeInv /\ TypeInv' /\ TransmitterExact /\ Line /\ Accounted /\ [Next]_vars
      => Line' /\ Accounted'
  BY NextAccounted
<1>3. Spec => []TypeInv /\ []TransmitterExact
  BY Typed, TransmitterCorrect
<1> QED BY <1>1, <1>2, <1>3, PTL DEF Spec
=============================================================================
