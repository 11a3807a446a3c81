----------------------- MODULE DefaultSimulator_proofs -----------------------
(***************************************************************************)
(* Proofs about DefaultSimulator, for every value of its constants under   *)
(* which m_uid does not wrap (NoWrap).                                     *)
(***************************************************************************)
EXTENDS DefaultSimulator, FiniteSetTheorems, SequenceTheorems, TLAPS

Main == {"schedule", "context", "stop"}

Inserted(e) == key[e].uid >= FirstUid

AfterNow(e) == \/ key[e].ts > currentTs
               \/ key[e].ts = currentTs /\ key[e].uid > currentUid

\* Control: the flag is right, and the local queue of the drain is empty
\* outside the drain.
Control ==
    /\ FlagTracksQueue
    /\ pc # "insert" => swapped = <<>>

\* What the uid of event e tells about it.
KeyOf(e) ==
    /\ e > created <=> req[e].kind = "none"
    /\ req[e].kind = "none" => key[e].uid = InvalidUid
    /\ req[e].kind = "destroy" => key[e].uid = DestroyUid
    /\ req[e].kind \in Main => Inserted(e)
    /\ req[e].kind = "thread" => Inserted(e) \/ key[e].uid = InvalidUid
    /\ Inserted(e) => key[e].uid < uid

\* Keys: uids grow, without repetition, and m_uid cannot reach its end.
Keys ==
    /\ currentUid < uid
    /\ uid >= FirstUid
    /\ uid + Len(eventsWithContext) + Len(swapped) <= FirstUid + created
    /\ \A e \in Event : KeyOf(e)
    /\ \A e, f \in Event : Inserted(e) /\ key[e].uid = key[f].uid => e = f

\* The list of destroy events holds those that wait, each once.
DestroyQueue ==
    /\ \A i \in 1..Len(destroyEvents) :
          req[destroyEvents[i]].kind = "destroy" /\ destroyEvents[i] \notin gone
    /\ \A i, j \in 1..Len(destroyEvents) :
          destroyEvents[i] = destroyEvents[j] => i = j

\* The shared and the local queue of injected events hold events without a
\* key, in the order of their injection.
InjectedQueues ==
    /\ \A i \in 1..Len(eventsWithContext) :
          /\ req[eventsWithContext[i]].kind = "thread"
          /\ key[eventsWithContext[i]].uid = InvalidUid
    /\ \A i \in 1..Len(swapped) :
          req[swapped[i]].kind = "thread" /\ key[swapped[i]].uid = InvalidUid
    /\ \A i, j \in 1..Len(eventsWithContext) :
          i < j => eventsWithContext[i] < eventsWithContext[j]
    /\ \A i, j \in 1..Len(swapped) : i < j => swapped[i] < swapped[j]
    /\ \A i \in 1..Len(swapped), j \in 1..Len(eventsWithContext) :
          swapped[i] < eventsWithContext[j]

Queues == DestroyQueue /\ InjectedQueues

\* An event with a uid of a list is in the list or gone.
ListPlaced ==
    /\ \A e \in events : Inserted(e) /\ e \notin gone
    /\ \A e \in Event : Inserted(e) => e \in events \cup gone
    /\ \A e \in gone : Inserted(e) \/ req[e].kind = "destroy"

\* A destroy event that is not gone waits for Destroy.
DestroyPlaced ==
    \A e \in Event : req[e].kind = "destroy" /\ e \notin gone =>
        \E i \in 1..Len(destroyEvents) : destroyEvents[i] = e

\* An injected event without a uid waits for the drain.
InjectedPlaced ==
    \A e \in Event : req[e].kind = "thread" /\ ~Inserted(e) =>
        \/ \E i \in 1..Len(eventsWithContext) : eventsWithContext[i] = e
        \/ \E i \in 1..Len(swapped) : swapped[i] = e

Placed == ListPlaced /\ DestroyPlaced /\ InjectedPlaced

\* Timely: what waits is due after the event last taken, what ran is not.
Timely ==
    /\ \A e \in events : AfterNow(e)
    /\ ran \subseteq gone
    /\ \A e \in ran : Inserted(e) => ~AfterNow(e)
    /\ pc \notin {"dispose", "disposed"} => \A e \in gone :
          Inserted(e) => e \in cancelled \/ ~AfterNow(e)

\* Ordered: uids and time stamps follow the order of the calls, for the main
\* thread's own events and for injected events.
Ordered ==
    /\ \A e \in Event : req[e].kind \in Main => key[e].ts = Due(e)
    /\ \A e \in Event : req[e].kind = "thread" /\ Inserted(e) =>
          key[e].ts <= currentTs + req[e].delay
    /\ \A e, f \in Event :
          /\ req[e].kind \in Main /\ req[f].kind \in Main /\ e < f =>
                key[e].uid < key[f].uid
          /\ /\ req[e].kind = "thread" /\ req[f].kind = "thread" /\ e < f
             /\ Inserted(f)
             => /\ Inserted(e) /\ key[e].uid < key[f].uid
                /\ key[e].ts + req[f].delay <= key[f].ts + req[e].delay

Revoked == \A e \in revoked : e \notin ran /\ e \in gone \cup cancelled

IInv == /\ TypeOK /\ Control /\ Keys /\ Queues /\ Placed
        /\ CountsEvents /\ Timely /\ Ordered /\ Revoked
-----------------------------------------------------------------------------
(***************************************************************************)
(* The steps.                                                              *)
(***************************************************************************)
\* Steps that move the main thread and nothing else, except for m_stop and
\* the marks halted and doomed.
Quiet == \/ Stop \/ Run \/ Destroy
         \/ CheckFlag \/ DrainDone \/ ClearStop \/ RunReturns
         \/ BeginDispose \/ Disposed \/ HandlerStep

\* Every step is a quiet one, an insertion by the main thread, or one of the
\* actions that follow.
LEMMA NextCases ==
    ASSUME TypeOK, Next
    PROVE  \/ Quiet
           \/ \E kind \in Main, delay \in Nat, context \in Context :
                 ScheduleAt(kind, delay, context)
           \/ ScheduleDestroy
           \/ \E delay \in Nat, context \in Context :
                 InjectWithContext(context, delay)
           \/ \E e \in Event : Cancel(e) \/ RemoveExpired(e)
           \/ \E e \in Event : RemoveEvent(e)
           \/ \E e \in Event : RemoveDestroyEvent(e)
           \/ SwapQueues
           \/ InsertSwapped
           \/ \E e \in Event : ProcessOneEvent(e)
           \/ \E e \in Event : DisposeEvent(e)
           \/ ProcessDestroyEvent
<1>1. CASE UserStep
  <2>1. CASE \E d \in Delays : Schedule(d) \/ StopIn(d)
    BY <2>1, KernelAssumption DEF Schedule, StopIn, Main, TypeOK
  <2>2. CASE \E d \in Delays, c \in Nodes : ScheduleWithContext(c, d)
    BY <2>2, KernelAssumption DEF ScheduleWithContext, Main, Context
  <2>3. CASE ScheduleNow
    BY <2>3 DEF ScheduleNow, Main, TypeOK
  <2>4. CASE ScheduleDestroy \/ Stop \/ Run \/ Destroy
    BY <2>4 DEF Quiet
  <2>5. CASE \E e \in Event : Cancel(e) \/ Remove(e)
    BY <2>5 DEF Remove
  <2> QED BY <1>1, <2>1, <2>2, <2>3, <2>4, <2>5 DEF UserStep
<1>2. CASE ThreadStep
  BY <1>2, KernelAssumption DEF ThreadStep, Context
<1>3. CASE KernelStep \/ HandlerStep
  BY <1>3 DEF KernelStep, Quiet
<1> QED BY <1>1, <1>2, <1>3 DEF Next

\* What a quiet step leaves alone.
LEMMA QuietChanges ==
    ASSUME Quiet
    PROVE  UNCHANGED <<now, list, destroyEvents, cancelled, injected, swapped,
                       lives>>
  BY DEF Quiet, Stop, Run, Destroy, CheckFlag, DrainDone, ClearStop,
         RunReturns, BeginDispose, Disposed, HandlerStep, HandlerReturns,
         DestroyHandlerReturns, control, history

\* Creating an event gives it a request; the other events keep theirs.
LEMMA CreateChanges ==
    ASSUME TypeOK, NEW e \in Event, NEW kind \in Kind, NEW delay \in Nat,
           NEW context \in Context, Create(e, kind, delay, context)
    PROVE  /\ created' = e /\ e = created + 1 /\ created' \in 0..MaxEvents
           /\ req' \in [Event -> Req]
           /\ req'[e] = [kind |-> kind, at |-> currentTs, delay |-> delay,
                         context |-> context]
           /\ \A f \in Event : f # e => req'[f] = req[f]
  BY DEF Create, TypeOK, Event, Req

\* Inserting an event gives it a key; the other events keep theirs.
LEMMA InsertChanges ==
    ASSUME TypeOK, NEW e \in Event, NEW ts \in Nat,
           NEW context \in Context, Insert(e, ts, context)
    PROVE  /\ key' \in [Event -> Key]
           /\ key'[e] = [ts |-> ts, context |-> context, uid |-> uid]
           /\ \A f \in Event : f # e => key'[f] = key[f]
           /\ uid' \in 0..(UidSpace - 1)
           /\ unscheduledEvents' = unscheduledEvents + 1
           /\ events' = events \cup {e}
           /\ events' \in SUBSET Event
  BY KernelAssumption DEF Insert, NextUid, TypeOK, Key, FirstUid
-----------------------------------------------------------------------------
(***************************************************************************)
(* Type correctness.                                                       *)
(***************************************************************************)
\* Erasing one element of a sequence moves those behind it up by one.
LEMMA EraseProperties ==
    ASSUME NEW S, NEW s \in Seq(S), NEW i \in 1..Len(s), NEW t,
           t = SubSeq(s, 1, i - 1) \o SubSeq(s, i + 1, Len(s))
    PROVE  /\ t \in Seq(S) /\ Len(t) = Len(s) - 1
           /\ \A j \in 1..(Len(s) - 1) : t[j] = IF j < i THEN s[j] ELSE s[j + 1]
<1>1. Len(s) \in Nat /\ i \in Nat /\ i >= 1 /\ i <= Len(s)
  OBVIOUS
<1>2. PICK a : a = SubSeq(s, 1, i - 1)
  OBVIOUS
<1>3. PICK b : b = SubSeq(s, i + 1, Len(s))
  OBVIOUS
<1>4. a \in Seq(S) /\ Len(a) = i - 1 /\ \A j \in 1..(i - 1) : a[j] = s[j]
  <2>1. \A j \in 1..(i - 1) : s[j] \in S
    BY <1>1
  <2>2. /\ a \in Seq(S) /\ Len(a) = IF 1 <= i - 1 THEN i - 1 - 1 + 1 ELSE 0
        /\ \A j \in 1..(i - 1 - 1 + 1) : a[j] = s[1 + j - 1]
    BY <1>1, <1>2, <2>1, SubSeqProperties
  <2> QED BY <1>1, <2>2
<1>5. /\ b \in Seq(S) /\ Len(b) = Len(s) - i
      /\ \A j \in 1..(Len(s) - i) : b[j] = s[i + j]
  <2>1. \A j \in (i + 1)..Len(s) : s[j] \in S
    BY <1>1
  <2>2. /\ b \in Seq(S) /\ Len(b) = IF i + 1 <= Len(s) THEN Len(s) - (i + 1) + 1 ELSE 0
        /\ \A j \in 1..(Len(s) - (i + 1) + 1) : b[j] = s[i + 1 + j - 1]
    BY <1>1, <1>3, <2>1, SubSeqProperties
  <2>3. Len(s) - (i + 1) + 1 = Len(s) - i /\ Len(b) = Len(s) - i
    BY <1>1, <2>2
  <2>4. ASSUME NEW j \in 1..(Len(s) - i) PROVE b[j] = s[i + j]
    <3>1. i + 1 + j - 1 = i + j
      BY <1>1
    <3> QED BY <2>2, <2>3, <3>1
  <2> QED BY <2>2, <2>3, <2>4
<1>6. /\ t \in Seq(S) /\ Len(t) = Len(a) + Len(b)
      /\ \A j \in 1..(Len(a) + Len(b)) :
            t[j] = IF j <= Len(a) THEN a[j] ELSE b[j - Len(a)]
  <2>1. a \in Seq(S) /\ b \in Seq(S)
    BY <1>4, <1>5
  <2>2. t = a \o b
    BY <1>2, <1>3
  <2>3. /\ a \o b \in Seq(S) /\ Len(a \o b) = Len(a) + Len(b)
        /\ \A j \in 1..(Len(a) + Len(b)) :
              (a \o b)[j] = IF j <= Len(a) THEN a[j] ELSE b[j - Len(a)]
    BY <2>1, ConcatProperties
  <2> QED BY <2>2, <2>3, Zenon
<1>7. Len(a) + Len(b) = Len(s) - 1
  BY <1>1, <1>4, <1>5
<1>8. ASSUME NEW j \in 1..(Len(s) - 1)
      PROVE  t[j] = IF j < i THEN s[j] ELSE s[j + 1]
  <2>1. t[j] = IF j <= i - 1 THEN a[j] ELSE b[j - (i - 1)]
    <3>1. j \in 1..(Len(a) + Len(b)) /\ Len(a) = i - 1
      BY <1>4, <1>7
    <3> QED BY <1>6, <3>1, Zenon
  <2>2. CASE j < i
    <3>1. j \in 1..(i - 1) /\ j <= i - 1
      BY <1>1, <2>2
    <3> QED BY <1>4, <2>1, <2>2, <3>1, Zenon
  <2>3. CASE ~(j < i)
    <3>1. j - (i - 1) \in 1..(Len(s) - i) /\ i + (j - (i - 1)) = j + 1
      BY <1>1, <2>3
    <3>2. b[j - (i - 1)] = s[i + (j - (i - 1))]
      BY <1>5, <3>1
    <3>3. ~(j <= i - 1)
      BY <1>1, <2>3
    <3> QED BY <2>1, <2>3, <3>1, <3>2, <3>3
  <2> QED BY <2>2, <2>3
<1> QED BY <1>6, <1>7, <1>8

\* The counter of a nonempty list is positive while it is maintained.
LEMMA CountPositive ==
    ASSUME TypeOK, CountsEvents, NEW e \in events,
           pc \notin {"dispose", "disposed"}
    PROVE  /\ IsFiniteSet(events)
           /\ unscheduledEvents - 1 \in Nat
           /\ unscheduledEvents - 1 = Cardinality(events \ {e})
<1>1. IsFiniteSet(events)
  <2>1. IsFiniteSet(Event)
    BY KernelAssumption, FS_Interval, 1 \in Int, MaxEvents \in Int DEF Event
  <2> QED BY <2>1, FS_Subset DEF TypeOK
<1>2. Cardinality(events \ {e}) = Cardinality(events) - 1 /\ Cardinality(events) \in Nat
  BY <1>1, FS_RemoveElement, FS_CardinalityType
<1>3. Cardinality(events \ {e}) \in Nat
  BY <1>1, FS_Subset, FS_CardinalityType
<1> QED BY <1>1, <1>2, <1>3 DEF CountsEvents

\* What an EventId of the caller says: an unexpired one names an event that
\* waits in the list, an expired one an event that was taken or cancelled.
LEMMA HeldEvents ==
    ASSUME IInv, UserCode, NEW e \in 1..created, Held(e),
           key[e].uid # DestroyUid
    PROVE  /\ req[e].kind = "schedule" /\ Inserted(e)
           /\ ~IsExpired(e) => e \in events
           /\ IsExpired(e) => e \in gone \cup cancelled
<1>1. e \in Event /\ pc \notin {"dispose", "disposed"}
  BY KernelAssumption DEF IInv, TypeOK, Event, UserCode
<1>2. req[e].kind = "schedule" /\ Inserted(e)
  BY <1>1 DEF Held, IInv, Keys, KeyOf, Main
<1>3. key[e].uid \in Nat /\ key[e].ts \in Nat /\ currentTs \in Nat
      /\ currentUid \in Nat
  BY <1>1 DEF IInv, TypeOK, Key
<1>4. IsExpired(e) <=> e \in cancelled \/ ~AfterNow(e)
  BY <1>3 DEF IsExpired, AfterNow
<1>5. e \in events \cup gone
  BY <1>1, <1>2 DEF IInv, Placed, ListPlaced
<1>6. e \in gone => e \in cancelled \/ ~AfterNow(e)
  BY <1>1, <1>2 DEF IInv, Timely
<1>7. e \in events => AfterNow(e)
  BY DEF IInv, Timely
<1> QED BY <1>2, <1>4, <1>5, <1>6, <1>7

\* Who changes the marks of the history and m_stop.
LEMMA MarkChanges ==
    ASSUME TypeOK, [Next]_vars
    PROVE  /\ BeginDispose \/ doomed' = doomed
           /\ \/ Stop \/ Run \/ ClearStop
              \/ \E e \in Event : InvokeStop(e)
              \/ UNCHANGED stops
<1>1. CASE Quiet
  BY <1>1 DEF Quiet, CheckFlag, DrainDone, Destroy, RunReturns, Disposed, Stop,
         Run, ClearStop, BeginDispose, HandlerStep, HandlerReturns,
         DestroyHandlerReturns, history
<1>2. ASSUME NEW kind, NEW delay, NEW context, ScheduleAt(kind, delay, context)
      PROVE  UNCHANGED <<stops, doomed>>
  BY <1>2 DEF ScheduleAt, Create
<1>3. CASE ScheduleDestroy
  BY <1>3 DEF ScheduleDestroy, Create
<1>4. ASSUME NEW delay, NEW context, InjectWithContext(context, delay)
      PROVE  UNCHANGED <<stops, doomed>>
  BY <1>4 DEF InjectWithContext, Create
<1>5. ASSUME NEW e \in Event, \/ Cancel(e) \/ RemoveExpired(e)
                              \/ RemoveEvent(e) \/ RemoveDestroyEvent(e)
      PROVE  UNCHANGED <<stops, doomed>>
  BY <1>5 DEF Cancel, RemoveExpired, RemoveEvent, RemoveDestroyEvent, Revoke
<1>6. CASE SwapQueues \/ InsertSwapped \/ ProcessDestroyEvent
  BY <1>6 DEF SwapQueues, InsertSwapped, ProcessDestroyEvent, history
<1>7. ASSUME NEW e \in Event, ProcessOneEvent(e)
      PROVE  doomed' = doomed /\ (InvokeStop(e) \/ UNCHANGED stops)
  BY <1>7 DEF ProcessOneEvent, InvokeHandler, InvokeStop, SkipCancelled,
         TakeNext, stops
<1>8. ASSUME NEW e \in Event, DisposeEvent(e)
      PROVE  UNCHANGED <<stops, doomed>>
  BY <1>8 DEF DisposeEvent
<1>9. CASE UNCHANGED vars
  BY <1>9 DEF vars, history
<1> QED
  BY <1>1, <1>2, <1>3, <1>4, <1>5, <1>6, <1>7, <1>8, <1>9, NextCases

\* The types: every action assigns to each variable a value of its type.
LEMMA TypeStep ==
    ASSUME IInv, [Next]_vars
    PROVE  TypeOK'
<1> USE DEF TypeOK, IInv
<1>0. /\ stop' \in BOOLEAN /\ halted' \in BOOLEAN
      /\ doomed' \in SUBSET Event
  <2>1. 1..created \subseteq Event
    BY KernelAssumption DEF Event
  <2>2. doomed' = doomed \/ doomed' = 1..created
    BY MarkChanges DEF BeginDispose
  <2>3. stop' \in BOOLEAN /\ halted' \in BOOLEAN
    BY MarkChanges DEF Stop, Run, ClearStop, InvokeStop, stops
  <2> QED BY <2>1, <2>2, <2>3
<1> USE <1>0
<1>1. ASSUME Quiet PROVE TypeOK'
  <2>1. UNCHANGED <<now, list, destroyEvents, cancelled, injected, swapped, lives>>
    BY <1>1, QuietChanges
  <2>2. pc' \in PC /\ ret' \in {"run", "loop", "dispose"}
        /\ running' \in Event \cup {NoEvent}
    BY <1>1 DEF Quiet, Stop, Run, Destroy, CheckFlag, DrainDone, ClearStop,
         RunReturns, BeginDispose, Disposed, HandlerStep, HandlerReturns,
         DestroyHandlerReturns, control, PC
  <2> QED BY <2>1, <2>2 DEF now, list, injected, lives
<1>2. ASSUME NEW kind \in Main, NEW delay \in Nat, NEW context \in Context,
             ScheduleAt(kind, delay, context)
      PROVE TypeOK'
  <2>1. PICK e \in Event : /\ Create(e, kind, delay, context)
                           /\ Insert(e, currentTs + delay, context)
                           /\ UNCHANGED <<now, stops, destroyEvents, cancelled,
                                          injected, control>>
    BY <1>2 DEF ScheduleAt
  <2>2. kind \in Kind /\ currentTs + delay \in Nat
    BY DEF Main, Kind
  <2>3. /\ created' \in 0..MaxEvents /\ req' \in [Event -> Req]
    BY <2>1, <2>2, CreateChanges
  <2>4. /\ key' \in [Event -> Key] /\ uid' \in 0..(UidSpace - 1)
        /\ unscheduledEvents' = unscheduledEvents + 1
        /\ events' \in SUBSET Event
    BY <2>1, <2>2, InsertChanges
  <2> QED BY <2>1, <2>3, <2>4 DEF now, injected, control, Create
<1>3. ASSUME ScheduleDestroy PROVE TypeOK'
  <2>1. PICK e \in Event : Create(e, "destroy", 0, NoContext)
                        /\ key' = [key EXCEPT ![e] = [ts |-> currentTs,
                                     context |-> NoContext, uid |-> DestroyUid]]
                        /\ destroyEvents' = Append(destroyEvents, e)
    BY <1>3 DEF ScheduleDestroy
  <2>2. /\ created' \in 0..MaxEvents /\ req' \in [Event -> Req]
    BY <2>1, CreateChanges DEF Kind, Context
  <2>3. key' \in [Event -> Key] /\ destroyEvents' \in Seq(Event)
    BY <2>1 DEF Key, Context, DestroyUid
  <2>4. uid' \in 0..(UidSpace - 1)
    BY <1>3, KernelAssumption DEF ScheduleDestroy, NextUid, FirstUid
  <2> QED BY <1>3, <2>1, <2>2, <2>3, <2>4
          DEF ScheduleDestroy, now, injected, control, Create
<1>4. ASSUME NEW delay \in Nat, NEW context \in Context,
             InjectWithContext(context, delay)
      PROVE TypeOK'
  <2>1. PICK e \in Event : /\ Create(e, "thread", delay, context)
                           /\ eventsWithContext' = Append(eventsWithContext, e)
                           /\ eventsWithContextEmpty' = FALSE
                           /\ UNCHANGED <<now, list, stops, destroyEvents,
                                          cancelled, control>>
    BY <1>4 DEF InjectWithContext
  <2>2. /\ created' \in 0..MaxEvents /\ req' \in [Event -> Req]
    BY <2>1, CreateChanges DEF Kind
  <2>3. eventsWithContext' \in Seq(Event)
    BY <2>1
  <2> QED BY <2>1, <2>2, <2>3 DEF now, list, control, Create
<1>5. ASSUME NEW e \in Event, Cancel(e) \/ RemoveExpired(e) PROVE TypeOK'
  BY <1>5 DEF Cancel, RemoveExpired, Revoke, now, list, injected, control
<1>6. ASSUME NEW e \in Event, RemoveEvent(e) PROVE TypeOK'
  <2>1. e \in events /\ pc \notin {"dispose", "disposed"}
    BY <1>6, HeldEvents DEF RemoveEvent, Revoke, UserCode
  <2>2. unscheduledEvents - 1 \in Nat
    BY <2>1, CountPositive
  <2>3. /\ unscheduledEvents' \in Nat /\ events' \in SUBSET Event
        /\ cancelled' \in SUBSET Event /\ gone' \in SUBSET Event
        /\ revoked' \in SUBSET Event
    BY <1>6, <2>2 DEF RemoveEvent, Revoke
  <2>4. UNCHANGED <<currentTs, currentUid, currentContext, uid, key, 
                    destroyEvents, eventsWithContext, eventsWithContextEmpty,
                    swapped, pc, ret, running, created, req, ran>>
    BY <1>6 DEF RemoveEvent, Revoke, now, injected, control
  <2> QED BY <2>3, <2>4
<1>7. ASSUME NEW e \in Event, RemoveDestroyEvent(e) PROVE TypeOK'
  <2>1. destroyEvents' \in Seq(Event)
    BY <1>7, EraseProperties DEF RemoveDestroyEvent
  <2> QED BY <1>7, <2>1 DEF RemoveDestroyEvent, Revoke, now, list, injected, control
<1>8. ASSUME SwapQueues PROVE TypeOK'
  BY <1>8 DEF SwapQueues, now, list, history, lives, PC
<1>9. ASSUME InsertSwapped PROVE TypeOK'
  <2> DEFINE e == Head(swapped)
  <2>1. e \in Event /\ Tail(swapped) \in Seq(Event)
    BY <1>9 DEF InsertSwapped
  <2>2. currentTs + req[e].delay \in Nat /\ req[e].context \in Context
    BY <2>1 DEF Req
  <2>3. /\ key' \in [Event -> Key] /\ uid' \in 0..(UidSpace - 1)
        /\ unscheduledEvents' = unscheduledEvents + 1
        /\ events' \in SUBSET Event
    BY <1>9, <2>1, <2>2, InsertChanges DEF InsertSwapped
  <2> QED BY <1>9, <2>1, <2>3 DEF InsertSwapped, now, injected, history, lives
<1>10. ASSUME NEW e \in Event, ProcessOneEvent(e) PROVE TypeOK'
  <2>1. TakeNext(e)
    BY <1>10 DEF ProcessOneEvent, InvokeHandler, InvokeStop, SkipCancelled
  <2>2. unscheduledEvents' \in Nat
    BY <2>1, CountPositive DEF TakeNext
  <2>3. pc' \in PC /\ ret' \in {"run", "loop", "dispose"}
        /\ running' \in Event \cup {NoEvent} /\ ran' \in SUBSET Event
    BY <1>10 DEF ProcessOneEvent, InvokeHandler, InvokeStop, SkipCancelled, PC
  <2> QED BY <2>1, <2>2, <2>3 DEF TakeNext, Key, injected
<1>11. ASSUME NEW e \in Event, DisposeEvent(e) PROVE TypeOK'
  BY <1>11 DEF DisposeEvent, now, injected, control
<1>12. ASSUME ProcessDestroyEvent PROVE TypeOK'
  <2>1. Head(destroyEvents) \in Event /\ Tail(destroyEvents) \in Seq(Event)
    BY <1>12 DEF ProcessDestroyEvent
  <2> QED BY <1>12, <2>1 DEF ProcessDestroyEvent, now, list, injected, PC
<1>13. ASSUME UNCHANGED vars PROVE TypeOK'
  BY <1>13 DEF vars, now, list, injected, control, history, lives
<1> QED
  BY <1>1, <1>2, <1>3, <1>4, <1>5, <1>6, <1>7, <1>8, <1>9, <1>10, <1>11,
     <1>12, <1>13, NextCases
-----------------------------------------------------------------------------
(***************************************************************************)
(* What the steps that create, insert, take and remove events do, in terms *)
(* of single events.  Here NoWrap is needed: uids grow.                    *)
(***************************************************************************)
LEMMA FreshEvent ==
    ASSUME IInv, NEW e \in Event, e = created + 1
    PROVE  /\ req[e].kind = "none" /\ key[e].uid = InvalidUid
           /\ e \notin events /\ e \notin gone /\ e \notin ran
           /\ \A f \in Event : req[f].kind # "none" => f < e
           /\ \A i \in 1..Len(eventsWithContext) : eventsWithContext[i] < e
           /\ \A i \in 1..Len(swapped) : swapped[i] < e
           /\ \A i \in 1..Len(destroyEvents) : destroyEvents[i] # e
<1>1. created \in Nat /\ e > created /\ \A f \in Event : f \in Nat
  BY KernelAssumption DEF IInv, TypeOK, Event
<1>2. req[e].kind = "none" /\ key[e].uid = InvalidUid
  BY <1>1 DEF IInv, Keys, KeyOf
<1>3. \A f \in Event : req[f].kind # "none" => f < e
  <2> SUFFICES ASSUME NEW f \in Event, req[f].kind # "none" PROVE f < e
    OBVIOUS
  <2>1. ~(f > created)
    BY DEF IInv, Keys, KeyOf
  <2> QED BY <1>1, <2>1
<1>4. ~Inserted(e) /\ req[e].kind # "destroy"
  BY <1>2 DEF Inserted, FirstUid, InvalidUid
<1>5. e \notin events /\ e \notin gone /\ e \notin ran
  BY <1>4 DEF IInv, Placed, ListPlaced, Timely
<1>6. /\ \A i \in 1..Len(eventsWithContext) :
            eventsWithContext[i] \in Event /\ req[eventsWithContext[i]].kind # "none"
      /\ \A i \in 1..Len(swapped) :
            swapped[i] \in Event /\ req[swapped[i]].kind # "none"
      /\ \A i \in 1..Len(destroyEvents) :
            destroyEvents[i] \in Event /\ req[destroyEvents[i]].kind # "none"
  BY DEF IInv, TypeOK, Queues, DestroyQueue, InjectedQueues
<1> QED BY <1>1, <1>2, <1>3, <1>5, <1>6

\* As long as an event is still to come or to be drained, m_uid++ does not
\* wrap.
LEMMA UidGrows ==
    ASSUME NoWrap, IInv, created + 1 \in Event \/ swapped # <<>>
    PROVE  NextUid = uid + 1
<1>1. /\ uid \in Nat /\ created \in Nat /\ created <= MaxEvents
      /\ Len(eventsWithContext) \in Nat /\ Len(swapped) \in Nat
      /\ MaxEvents \in Nat /\ UidSpace \in Nat
  BY KernelAssumption DEF IInv, TypeOK
<1>2. created + 1 <= MaxEvents \/ Len(swapped) >= 1
  BY <1>1 DEF Event, IInv, TypeOK
<1>3. uid + Len(eventsWithContext) + Len(swapped) <= FirstUid + created
  BY DEF IInv, Keys, KeyOf
<1>4. uid + 1 # UidSpace
  BY <1>1, <1>2, <1>3 DEF NoWrap, FirstUid
<1> QED BY <1>4 DEF NextUid

\* The main thread's insertion of a new event e.
WasScheduled(e, kind, delay, context) ==
    /\ e = created + 1 /\ created' = e
    /\ req'[e] = [kind |-> kind, at |-> currentTs, delay |-> delay,
                  context |-> context]
    /\ \A f \in Event : f # e => req'[f] = req[f]
    /\ key'[e] = [ts |-> currentTs + delay, context |-> context,
                  uid |-> uid]
    /\ \A f \in Event : f # e => key'[f] = key[f]
    /\ uid' = uid + 1
    /\ unscheduledEvents' = unscheduledEvents + 1
    /\ events' = events \cup {e}
    /\ pc \in {"user", "event", "destroyEvent"}
    /\ UNCHANGED <<currentTs, currentUid, currentContext, 
                   destroyEvents, cancelled, eventsWithContext,
                   eventsWithContextEmpty, swapped, pc, ret, running,
                   ran, gone, revoked>>

\* Schedule, ScheduleNow, ScheduleWithContext and Stop (delay) put a new event
\* into the list.
LEMMA ScheduleChanges ==
    ASSUME NoWrap, IInv, NEW kind \in Main, NEW delay \in Nat,
           NEW context \in Context, ScheduleAt(kind, delay, context)
    PROVE  \E e \in Event : WasScheduled(e, kind, delay, context)
<1>1. PICK e \in Event : /\ Create(e, kind, delay, context)
                         /\ Insert(e, currentTs + delay, context)
                         /\ UserCode
                         /\ UNCHANGED <<now, stops, destroyEvents, cancelled,
                                        injected, control>>
  BY DEF ScheduleAt
<1>2. TypeOK /\ kind \in Kind /\ currentTs + delay \in Nat
  BY DEF IInv, TypeOK, Main, Kind
<1>3. /\ created' = e /\ e = created + 1
      /\ req'[e] = [kind |-> kind, at |-> currentTs, delay |-> delay,
                    context |-> context]
      /\ \A f \in Event : f # e => req'[f] = req[f]
  BY <1>1, <1>2, CreateChanges
<1>4. /\ key'[e] = [ts |-> currentTs + delay, context |-> context, uid |-> uid]
      /\ \A f \in Event : f # e => key'[f] = key[f]
      /\ unscheduledEvents' = unscheduledEvents + 1
      /\ events' = events \cup {e}
  BY <1>1, <1>2, InsertChanges
<1>5. uid' = uid + 1
  BY <1>1, <1>3, UidGrows DEF Insert
<1> QED BY <1>1, <1>3, <1>4, <1>5 DEF WasScheduled, Create, UserCode, now, injected, control

WasScheduledDestroy(e) ==
    /\ e = created + 1 /\ created' = e
    /\ req'[e] = [kind |-> "destroy", at |-> currentTs, delay |-> 0,
                  context |-> NoContext]
    /\ \A f \in Event : f # e => req'[f] = req[f]
    /\ key'[e] = [ts |-> currentTs, context |-> NoContext,
                  uid |-> DestroyUid]
    /\ \A f \in Event : f # e => key'[f] = key[f]
    /\ uid' = uid + 1
    /\ destroyEvents' = Append(destroyEvents, e)
    /\ pc \in {"user", "event", "destroyEvent"}
    /\ UNCHANGED <<currentTs, currentUid, currentContext, 
                   unscheduledEvents, events, cancelled,
                   eventsWithContext, eventsWithContextEmpty, swapped,
                   pc, ret, running, ran, gone, revoked>>

\* ScheduleDestroy appends a new event to the destroy events.
LEMMA ScheduleDestroyChanges ==
    ASSUME NoWrap, IInv, ScheduleDestroy
    PROVE  \E e \in Event : WasScheduledDestroy(e)
<1>1. PICK e \in Event :
         /\ Create(e, "destroy", 0, NoContext)
         /\ UserCode
         /\ key' = [key EXCEPT ![e] = [ts |-> currentTs, context |-> NoContext,
                                       uid |-> DestroyUid]]
         /\ destroyEvents' = Append(destroyEvents, e)
         /\ uid' = NextUid
         /\ UNCHANGED <<now, unscheduledEvents, events, stops, cancelled,
                        injected, control>>
  BY DEF ScheduleDestroy
<1>2. TypeOK /\ "destroy" \in Kind /\ 0 \in Nat /\ NoContext \in Context
  BY DEF IInv, Kind, Context
<1>3. /\ created' = e /\ e = created + 1
      /\ req'[e] = [kind |-> "destroy", at |-> currentTs, delay |-> 0,
                    context |-> NoContext]
      /\ \A f \in Event : f # e => req'[f] = req[f]
  BY <1>1, <1>2, CreateChanges
<1>4. uid' = uid + 1
  BY <1>1, <1>3, UidGrows
<1>5. /\ key'[e] = [ts |-> currentTs, context |-> NoContext, uid |-> DestroyUid]
      /\ \A f \in Event : f # e => key'[f] = key[f]
  BY <1>1, <1>2 DEF TypeOK
<1> QED BY <1>1, <1>3, <1>4, <1>5 DEF WasScheduledDestroy, Create, UserCode, now, injected, control

WasInjected(e, delay, context) ==
    /\ e = created + 1 /\ created' = e
    /\ req'[e] = [kind |-> "thread", at |-> currentTs, delay |-> delay,
                  context |-> context]
    /\ \A f \in Event : f # e => req'[f] = req[f]
    /\ eventsWithContext' = Append(eventsWithContext, e)
    /\ eventsWithContextEmpty' = FALSE
    /\ UNCHANGED <<currentTs, currentUid, currentContext, uid,
                   unscheduledEvents, events, key, 
                   destroyEvents, cancelled, swapped, pc, ret,
                   running, ran, gone, revoked>>

\* An injection appends a new event to the shared queue and clears the flag.
LEMMA InjectChanges ==
    ASSUME IInv, NEW delay \in Nat, NEW context \in Context,
           InjectWithContext(context, delay)
    PROVE  \E e \in Event : WasInjected(e, delay, context)
<1>1. PICK e \in Event : /\ Create(e, "thread", delay, context)
                         /\ eventsWithContext' = Append(eventsWithContext, e)
                         /\ eventsWithContextEmpty' = FALSE
                         /\ UNCHANGED <<now, list, stops, destroyEvents,
                                        cancelled, control>>
  BY DEF InjectWithContext
<1>2. TypeOK /\ "thread" \in Kind
  BY DEF IInv, Kind
<1>3. /\ created' = e /\ e = created + 1
      /\ req'[e] = [kind |-> "thread", at |-> currentTs, delay |-> delay,
                    context |-> context]
      /\ \A f \in Event : f # e => req'[f] = req[f]
  BY <1>1, <1>2, CreateChanges
<1> QED BY <1>1, <1>3 DEF WasInjected, Create, now, list, control

\* The drain's insertion of the injected event e.
WasDrained(e) ==
    /\ e = swapped[1] /\ Len(swapped) >= 1
    /\ swapped' \in Seq(Event) /\ Len(swapped') = Len(swapped) - 1
    /\ \A i \in 1..Len(swapped') : swapped'[i] = swapped[i + 1]
    /\ req[e].delay \in Nat
    /\ key'[e] = [ts |-> currentTs + req[e].delay,
                  context |-> req[e].context, uid |-> uid]
    /\ \A f \in Event : f # e => key'[f] = key[f]
    /\ uid' = uid + 1
    /\ unscheduledEvents' = unscheduledEvents + 1
    /\ events' = events \cup {e}
    /\ pc = "insert"
    /\ UNCHANGED <<currentTs, currentUid, currentContext, 
                   destroyEvents, cancelled, eventsWithContext,
                   eventsWithContextEmpty, pc, ret, running, created,
                   req, ran, gone, revoked>>

\* One turn of the loop of ProcessEventsWithContext moves the first event of the
\* local queue into the list.
LEMMA InsertSwappedChanges ==
    ASSUME NoWrap, IInv, InsertSwapped
    PROVE  \E e \in Event : WasDrained(e)
<1> DEFINE e == Head(swapped)
<1>1. TypeOK /\ swapped \in Seq(Event) /\ swapped # <<>>
  BY DEF IInv, TypeOK, InsertSwapped
<1>2. e \in Event /\ e = swapped[1] /\ Len(swapped) >= 1
  BY <1>1
<1>3. req[e].delay \in Nat /\ req[e].context \in Context /\ currentTs \in Nat
  BY <1>1, <1>2 DEF TypeOK, Req
<1>4. /\ Tail(swapped) \in Seq(Event) /\ Len(Tail(swapped)) = Len(swapped) - 1
      /\ \A i \in 1..Len(Tail(swapped)) : Tail(swapped)[i] = swapped[i + 1]
  BY <1>1, HeadTailProperties
<1>5. /\ key'[e] = [ts |-> currentTs + req[e].delay, context |-> req[e].context,
                    uid |-> uid]
      /\ \A f \in Event : f # e => key'[f] = key[f]
      /\ unscheduledEvents' = unscheduledEvents + 1
      /\ events' = events \cup {e}
  <2>1. currentTs + req[e].delay \in Nat
    BY <1>3
  <2>2. Insert(e, currentTs + req[e].delay, req[e].context)
    BY DEF InsertSwapped
  <2> QED BY <1>1, <1>2, <1>3, <2>1, <2>2, InsertChanges
<1>6. uid' = uid + 1
  BY <1>1, UidGrows DEF InsertSwapped, Insert
<1>7. /\ swapped' = Tail(swapped) /\ pc = "insert"
      /\ UNCHANGED <<currentTs, currentUid, currentContext, 
                            destroyEvents, cancelled, eventsWithContext,
                            eventsWithContextEmpty, pc, ret, running, created,
                            req, ran, gone, revoked>>
  BY DEF InsertSwapped, now, injected, history, lives
<1> HIDE DEF e
<1> QED BY <1>2, <1>3, <1>4, <1>5, <1>6, <1>7 DEF WasDrained

\* ProcessOneEvent takes event e; whether or not its handler runs.
WasTaken(e) ==
    /\ pc = "loop" /\ pc' \in {"event", "drain"}
    /\ e \in events /\ events' = events \ {e}
    /\ \A f \in events : ~Less(key[f], key[e])
    /\ unscheduledEvents' = unscheduledEvents - 1
    /\ currentTs' = key[e].ts /\ currentUid' = key[e].uid
    /\ gone' = gone \cup {e}
    /\ \/ ran' = ran
       \/ ran' = ran \cup {e} /\ e \notin cancelled
    /\ UNCHANGED <<uid, key, destroyEvents, cancelled,
                   eventsWithContext, eventsWithContextEmpty, swapped,
                   created, req, revoked>>

\* ProcessOneEvent takes the earliest event, whether its handler runs or not.
LEMMA TakeChanges ==
    ASSUME NEW e \in Event, ProcessOneEvent(e)
    PROVE  WasTaken(e)
<1>1. TakeNext(e)
  BY DEF ProcessOneEvent, InvokeHandler, InvokeStop, SkipCancelled
<1>2. /\ pc' \in {"event", "drain"}
      /\ ran' = ran \/ (ran' = ran \cup {e} /\ e \notin cancelled)
  BY DEF ProcessOneEvent, InvokeHandler, InvokeStop, SkipCancelled
<1> QED BY <1>1, <1>2 DEF WasTaken, TakeNext, injected

\* A destroy event runs, or is dropped if cancelled.
DestroyEventTaken(e) ==
    /\ Len(destroyEvents) >= 1 /\ e = destroyEvents[1]
    /\ destroyEvents' \in Seq(Event)
    /\ Len(destroyEvents') = Len(destroyEvents) - 1
    /\ \A i \in 1..Len(destroyEvents') :
          destroyEvents'[i] = destroyEvents[i + 1]
    /\ gone' = gone \cup {e}
    /\ \/ ran' = ran
       \/ ran' = ran \cup {e} /\ e \notin cancelled
    /\ pc = "destroy" /\ pc' \in {"destroy", "destroyEvent"}
    /\ UNCHANGED <<currentTs, currentUid, currentContext, uid,
                   unscheduledEvents, events, key, cancelled,
                   eventsWithContext, eventsWithContextEmpty, swapped,
                   created, req, revoked>>

\* One turn of the loop of Destroy takes the first destroy event.
LEMMA DestroyEventChanges ==
    ASSUME TypeOK, ProcessDestroyEvent
    PROVE  \E e \in Event : DestroyEventTaken(e)
<1>1. destroyEvents \in Seq(Event) /\ destroyEvents # <<>>
  BY DEF TypeOK, ProcessDestroyEvent
<1>2. /\ Head(destroyEvents) \in Event /\ Len(destroyEvents) >= 1
      /\ Head(destroyEvents) = destroyEvents[1]
  BY <1>1
<1>3. /\ Tail(destroyEvents) \in Seq(Event)
      /\ Len(Tail(destroyEvents)) = Len(destroyEvents) - 1
      /\ \A i \in 1..Len(Tail(destroyEvents)) :
            Tail(destroyEvents)[i] = destroyEvents[i + 1]
  BY <1>1, HeadTailProperties
<1>4. /\ destroyEvents' = Tail(destroyEvents)
      /\ gone' = gone \cup {Head(destroyEvents)}
      /\ \/ ran' = ran
         \/ ran' = ran \cup {Head(destroyEvents)} /\ Head(destroyEvents) \notin cancelled
      /\ pc = "destroy" /\ pc' \in {"destroy", "destroyEvent"}
      /\ UNCHANGED <<currentTs, currentUid, currentContext, uid,
                     unscheduledEvents, events, key, cancelled,
                     eventsWithContext, eventsWithContextEmpty, swapped,
                     created, req, revoked>>
  BY DEF ProcessDestroyEvent, now, list, injected
<1>5. PICK e \in Event : e = Head(destroyEvents)
  BY <1>2
<1> WITNESS e \in Event
<1> QED BY <1>2, <1>3, <1>4, <1>5 DEF DestroyEventTaken

\* What the caller's Cancel and Remove leave alone.
WasRevoked(e) ==
    /\ UNCHANGED <<currentTs, currentUid, currentContext, uid, key, 
                   eventsWithContext, eventsWithContextEmpty, swapped,
                   pc, ret, running, created, req, ran>>
    /\ pc \in {"user", "event", "destroyEvent"}
    /\ e \in 1..created /\ Held(e)
    /\ cancelled \subseteq cancelled' /\ cancelled' \subseteq cancelled \cup {e}
    /\ gone \subseteq gone' /\ gone' \subseteq gone \cup {e}
    /\ revoked' = IF e \in gone THEN revoked ELSE revoked \cup {e}

\* What the forms of Cancel and Remove have in common.
LEMMA RevokeChanges ==
    ASSUME NEW e \in Event,
           Cancel(e) \/ RemoveExpired(e) \/ RemoveEvent(e) \/ RemoveDestroyEvent(e)
    PROVE  WasRevoked(e)
  BY DEF WasRevoked, Cancel, RemoveExpired, RemoveEvent, RemoveDestroyEvent, Revoke,
         UserCode, now, list, injected, control

\* Swapping empties the shared queue into the local one.
LEMMA SwapChanges ==
    ASSUME SwapQueues
    PROVE  /\ pc = "swap" /\ pc' = "insert"
           /\ swapped' = eventsWithContext /\ eventsWithContext' = <<>>
           /\ eventsWithContextEmpty' = TRUE
           /\ UNCHANGED <<currentTs, currentUid, currentContext, uid,
                          unscheduledEvents, events, key, destroyEvents,
                          cancelled, created, req, ran, gone, revoked>>
  BY DEF SwapQueues, now, list, history, lives

WasDisposed(e) ==
    /\ pc = "dispose" /\ pc' = pc
    /\ e \in events /\ events' = events \ {e} /\ gone' = gone \cup {e}
    /\ UNCHANGED <<currentTs, currentUid, currentContext, uid,
                   unscheduledEvents, key, destroyEvents,
                   cancelled, eventsWithContext, eventsWithContextEmpty,
                   swapped, created, req, ran, revoked>>
\* One turn of the loop of DoDispose drops the earliest event.
LEMMA DisposeChanges ==
    ASSUME NEW e \in Event, DisposeEvent(e)
    PROVE  WasDisposed(e)
  BY DEF WasDisposed, DisposeEvent, now, injected, control

\* All of the above in one list: every step is one of these.
LEMMA StepCases ==
    ASSUME IInv, [Next]_vars
    PROVE  \/ /\ UNCHANGED <<now, list, destroyEvents, cancelled, injected,
                             swapped, lives>>
              /\ Quiet \/ UNCHANGED vars
           \/ \E kind \in Main, delay \in Nat, context \in Context :
                 ScheduleAt(kind, delay, context)
           \/ ScheduleDestroy
           \/ \E delay \in Nat, context \in Context :
                 InjectWithContext(context, delay)
           \/ \E e \in Event : \/ Cancel(e) \/ RemoveExpired(e)
                               \/ RemoveEvent(e) \/ RemoveDestroyEvent(e)
           \/ SwapQueues
           \/ InsertSwapped
           \/ \E e \in Event : ProcessOneEvent(e)
           \/ \E e \in Event : DisposeEvent(e)
           \/ ProcessDestroyEvent
<1>1. CASE UNCHANGED vars
  BY <1>1 DEF vars, control, history
<1>2. CASE Next
  BY <1>2, NextCases, QuietChanges DEF IInv
<1> QED BY <1>1, <1>2
-----------------------------------------------------------------------------
(***************************************************************************)
(* Each part of the invariant is preserved.                                *)
(***************************************************************************)
LEMMA ControlStep ==
    ASSUME IInv, [Next]_vars
    PROVE  Control'
<1> USE DEF IInv, Control, FlagTracksQueue
<1>1. CASE Quiet
  <2>1. UNCHANGED <<injected, swapped>>
    BY <1>1, QuietChanges
  <2>2. pc' = "insert" => pc = "insert"
    BY <1>1 DEF Quiet, Stop, Run, Destroy, CheckFlag, DrainDone, ClearStop,
         RunReturns, BeginDispose, Disposed, HandlerStep, HandlerReturns,
         DestroyHandlerReturns, control, TypeOK
  <2>3. pc = "insert" /\ pc' # "insert" => swapped = <<>>
    BY <1>1 DEF Quiet, Stop, Run, Destroy, CheckFlag, DrainDone, ClearStop,
         RunReturns, BeginDispose, Disposed, HandlerStep, HandlerReturns,
         DestroyHandlerReturns, control
  <2> QED BY <2>1, <2>2, <2>3 DEF injected
<1>2. ASSUME NEW kind \in Main, NEW delay \in Nat, NEW context \in Context,
             ScheduleAt(kind, delay, context)
      PROVE Control'
  BY <1>2 DEF ScheduleAt, injected, control
<1>3. CASE ScheduleDestroy
  BY <1>3 DEF ScheduleDestroy, injected, control
<1>4. ASSUME NEW delay \in Nat, NEW context \in Context,
             InjectWithContext(context, delay)
      PROVE Control'
  <2>1. PICK e \in Event : eventsWithContext' = Append(eventsWithContext, e)
    BY <1>4 DEF InjectWithContext
  <2>2. eventsWithContext' # <<>>
    BY <2>1, AppendProperties DEF TypeOK
  <2> QED BY <1>4, <2>2 DEF InjectWithContext, control
<1>5. ASSUME NEW e \in Event, \/ Cancel(e) \/ RemoveExpired(e)
                              \/ RemoveEvent(e) \/ RemoveDestroyEvent(e)
      PROVE Control'
  BY <1>5, RevokeChanges DEF WasRevoked
<1>6. CASE SwapQueues
  BY <1>6, SwapChanges
<1>7. CASE InsertSwapped
  BY <1>7 DEF InsertSwapped, injected
<1>8. ASSUME NEW e \in Event, ProcessOneEvent(e) PROVE Control'
  BY <1>8, TakeChanges DEF WasTaken
<1>9. ASSUME NEW e \in Event, DisposeEvent(e) PROVE Control'
  BY <1>9, DisposeChanges DEF WasDisposed
<1>10. CASE ProcessDestroyEvent
  BY <1>10 DEF ProcessDestroyEvent, injected
<1>11. CASE UNCHANGED vars
  BY <1>11 DEF vars, injected, control
<1> QED
  BY <1>1, <1>2, <1>3, <1>4, <1>5, <1>6, <1>7, <1>8, <1>9, <1>10, <1>11,
     StepCases

\* An event whose request and key do not change keeps what its uid tells.
LEMMA KeyOfOther ==
    ASSUME TypeOK, Keys, NEW f \in Event, req'[f] = req[f], key'[f] = key[f],
           uid' \in {uid, uid + 1},
           \/ created' = created
           \/ created' = created + 1 /\ f # created'
    PROVE  KeyOf(f)'
<1>1. uid \in Nat /\ created \in Nat /\ f \in Nat /\ key[f].uid \in Nat
  BY KernelAssumption DEF TypeOK, Event, Key
<1>2. f > created' <=> f > created
  BY <1>1
<1>3. KeyOf(f)
  BY DEF Keys
<1>4. Inserted(f)' <=> Inserted(f)
  BY DEF Inserted
<1>5. key[f].uid < uid => key'[f].uid < uid'
  BY <1>1
<1> QED BY <1>2, <1>3, <1>4, <1>5 DEF KeyOf

\* The uid given to event e, if it is one of a list, is new.
LEMMA UniqueUid ==
    ASSUME TypeOK, Keys, NEW e \in Event,
           key'[e].uid = uid \/ key'[e].uid \in {InvalidUid, DestroyUid},
           \A f \in Event : f # e => key'[f] = key[f]
    PROVE  \A f, g \in Event : Inserted(f)' /\ key'[f].uid = key'[g].uid => f = g
<1> SUFFICES ASSUME NEW f \in Event, NEW g \in Event, Inserted(f)',
                    key'[f].uid = key'[g].uid, f # g
             PROVE  FALSE
  OBVIOUS
<1>1. uid \in Nat /\ key[f].uid \in Nat /\ key[g].uid \in Nat
  BY DEF TypeOK, Key
<1>2. /\ Inserted(f) => key[f].uid < uid
      /\ Inserted(g) => key[g].uid < uid
      /\ uid >= FirstUid
  BY DEF Keys, KeyOf
<1>3. CASE f = e
  BY <1>1, <1>2, <1>3 DEF Inserted, FirstUid, InvalidUid, DestroyUid
<1>4. CASE g = e
  BY <1>1, <1>2, <1>4 DEF Inserted, FirstUid, InvalidUid, DestroyUid
<1>5. CASE f # e /\ g # e
  BY <1>5 DEF Keys, Inserted
<1> QED BY <1>3, <1>4, <1>5

\* Every step keeps Keys: uids stay distinct and below m_uid.
LEMMA KeysStep ==
    ASSUME NoWrap, IInv, [Next]_vars
    PROVE  Keys'
<1> USE DEF InvalidUid, DestroyUid, FirstUid
<1>0. TypeOK /\ Control /\ Keys /\ Queues /\ Placed
  BY DEF IInv
<1>n. /\ uid \in Nat /\ currentUid \in Nat /\ created \in Nat
      /\ Len(eventsWithContext) \in Nat /\ Len(swapped) \in Nat
      /\ \A f \in Event : f \in Nat /\ key[f].uid \in Nat
  BY <1>0, KernelAssumption DEF TypeOK, Event, Key
<1>m. "destroy" \notin Main /\ "thread" \notin Main /\ "none" \notin Main
  BY DEF Main
<1>1. CASE UNCHANGED <<now, list, injected, swapped, lives>>
  BY <1>0, <1>1 DEF Keys, KeyOf, Inserted, now, list, injected, lives
<1>2. ASSUME NEW kind \in Main, NEW delay \in Nat, NEW context \in Context,
             ScheduleAt(kind, delay, context)
      PROVE Keys'
  <2>1. PICK e \in Event : WasScheduled(e, kind, delay, context)
    BY <1>2, ScheduleChanges
  <2>2. ASSUME NEW f \in Event PROVE KeyOf(f)'
    <3>1. CASE f # e
      BY <1>0, <2>1, <3>1, KeyOfOther DEF WasScheduled
    <3>2. CASE f = e
      <4>1. req'[f].kind = kind /\ key'[f].uid = uid /\ ~(f > created')
        BY <1>n, <2>1, <3>2 DEF WasScheduled
      <4>2. uid >= FirstUid /\ uid < uid'
        BY <1>0, <1>n, <2>1 DEF WasScheduled, Keys
      <4> QED BY <1>m, <4>1, <4>2 DEF KeyOf, Inserted
    <3> QED BY <3>1, <3>2
  <2>3. \A f, g \in Event : Inserted(f)' /\ key'[f].uid = key'[g].uid => f = g
    BY <1>0, <2>1, UniqueUid DEF WasScheduled
  <2>4. /\ currentUid' < uid' /\ uid' >= FirstUid
        /\ uid' + Len(eventsWithContext') + Len(swapped') <= FirstUid + created'
    BY <1>0, <1>n, <2>1 DEF WasScheduled, Keys
  <2> QED BY <2>2, <2>3, <2>4 DEF Keys, Inserted
<1>3. CASE ScheduleDestroy
  <2>1. PICK e \in Event : WasScheduledDestroy(e)
    BY <1>3, ScheduleDestroyChanges
  <2>2. ASSUME NEW f \in Event PROVE KeyOf(f)'
    <3>1. CASE f # e
      BY <1>0, <2>1, <3>1, KeyOfOther DEF WasScheduledDestroy
    <3>2. CASE f = e
      <4>1. req'[f].kind = "destroy" /\ key'[f].uid = DestroyUid /\ ~(f > created')
        BY <1>n, <2>1, <3>2 DEF WasScheduledDestroy
      <4> QED BY <1>m, <4>1 DEF KeyOf, Inserted
    <3> QED BY <3>1, <3>2
  <2>3. \A f, g \in Event : Inserted(f)' /\ key'[f].uid = key'[g].uid => f = g
    BY <1>0, <2>1, UniqueUid DEF WasScheduledDestroy
  <2>4. /\ currentUid' < uid' /\ uid' >= FirstUid
        /\ uid' + Len(eventsWithContext') + Len(swapped') <= FirstUid + created'
    BY <1>0, <1>n, <2>1 DEF WasScheduledDestroy, Keys
  <2> QED BY <2>2, <2>3, <2>4 DEF Keys, Inserted
<1>4. ASSUME NEW delay \in Nat, NEW context \in Context,
             InjectWithContext(context, delay)
      PROVE Keys'
  <2>1. PICK e \in Event : WasInjected(e, delay, context)
    BY <1>4, InjectChanges
  <2>2. Len(eventsWithContext') = Len(eventsWithContext) + 1
    BY <1>0, <2>1, AppendProperties DEF WasInjected, TypeOK
  <2>3. key[e].uid = InvalidUid
    BY <2>1, FreshEvent DEF WasInjected
  <2>4. ASSUME NEW f \in Event PROVE KeyOf(f)'
    <3>1. CASE f # e
      BY <1>0, <2>1, <3>1, KeyOfOther DEF WasInjected
    <3>2. CASE f = e
      <4>1. req'[f].kind = "thread" /\ key'[f].uid = InvalidUid /\ ~(f > created')
        BY <1>n, <2>1, <2>3, <3>2 DEF WasInjected
      <4> QED BY <1>m, <4>1 DEF KeyOf, Inserted
    <3> QED BY <3>1, <3>2
  <2>5. \A f, g \in Event : Inserted(f)' /\ key'[f].uid = key'[g].uid => f = g
    BY <1>0, <2>1 DEF WasInjected, Keys, Inserted
  <2>6. /\ currentUid' < uid' /\ uid' >= FirstUid
        /\ uid' + Len(eventsWithContext') + Len(swapped') <= FirstUid + created'
    BY <1>0, <1>n, <2>1, <2>2 DEF WasInjected, Keys
  <2> QED BY <2>4, <2>5, <2>6 DEF Keys, Inserted
<1>5. ASSUME NEW e \in Event, \/ Cancel(e) \/ RemoveExpired(e)
                              \/ RemoveEvent(e) \/ RemoveDestroyEvent(e)
      PROVE Keys'
  BY <1>0, <1>5, RevokeChanges DEF WasRevoked, Keys, KeyOf, Inserted
<1>6. CASE SwapQueues
  <2>1. Len(swapped) = 0
    BY <1>0, <1>6, SwapChanges DEF Control
  <2>2. uid' + Len(eventsWithContext') + Len(swapped') <= FirstUid + created'
    BY <1>0, <1>6, <1>n, <2>1, SwapChanges DEF Keys
  <2> QED BY <1>0, <1>6, <2>2, SwapChanges DEF Keys, KeyOf, Inserted
<1>7. CASE InsertSwapped
  <2>1. PICK e \in Event : WasDrained(e)
    BY <1>7, InsertSwappedChanges
  <2>2. req[e].kind = "thread" /\ 1 \in 1..Len(swapped)
    BY <1>0, <1>n, <2>1 DEF WasDrained, Queues, InjectedQueues
  <2>3. ASSUME NEW f \in Event PROVE KeyOf(f)'
    <3>1. CASE f # e
      BY <1>0, <2>1, <3>1, KeyOfOther DEF WasDrained
    <3>2. CASE f = e
      <4>1. req'[f].kind = "thread" /\ key'[f].uid = uid /\ ~(f > created')
        BY <1>0, <1>n, <2>1, <2>2, <3>2 DEF WasDrained, Keys, KeyOf
      <4>2. uid >= FirstUid /\ uid < uid'
        BY <1>0, <1>n, <2>1 DEF WasDrained, Keys
      <4> QED BY <1>m, <4>1, <4>2 DEF KeyOf, Inserted
    <3> QED BY <3>1, <3>2
  <2>4. \A f, g \in Event : Inserted(f)' /\ key'[f].uid = key'[g].uid => f = g
    BY <1>0, <2>1, UniqueUid DEF WasDrained
  <2>5. /\ currentUid' < uid' /\ uid' >= FirstUid
    BY <1>0, <1>n, <2>1 DEF WasDrained, Keys
  <2>6. uid' + Len(eventsWithContext') + Len(swapped') <= FirstUid + created'
    <3>1. /\ uid' = uid + 1 /\ Len(swapped') = Len(swapped) - 1
          /\ created' = created /\ eventsWithContext' = eventsWithContext
      BY <2>1 DEF WasDrained
    <3> QED BY <1>0, <1>n, <3>1 DEF Keys
  <2> QED BY <2>3, <2>4, <2>5, <2>6 DEF Keys, Inserted
<1>8. ASSUME NEW e \in Event, ProcessOneEvent(e) PROVE Keys'
  <2>1. WasTaken(e)
    BY <1>8, TakeChanges
  <2>2. currentUid' < uid'
    BY <1>0, <2>1 DEF WasTaken, Keys, KeyOf, Placed, ListPlaced
  <2> QED BY <1>0, <2>1, <2>2 DEF WasTaken, Keys, KeyOf, Inserted
<1>9. ASSUME NEW e \in Event, DisposeEvent(e) PROVE Keys'
  BY <1>0, <1>9, DisposeChanges DEF WasDisposed, Keys, KeyOf, Inserted
<1>10. CASE ProcessDestroyEvent
  <2>1. PICK e \in Event : DestroyEventTaken(e)
    BY <1>0, <1>10, DestroyEventChanges
  <2>2. UNCHANGED <<currentUid, uid, key, req, created, eventsWithContext, swapped>>
    BY <1>10 DEF ProcessDestroyEvent, now, list, injected
  <2> QED BY <1>0, <2>2 DEF Keys, KeyOf, Inserted
<1> QED
  BY <1>1, <1>2, <1>3, <1>4, <1>5, <1>6, <1>7, <1>8, <1>9, <1>10, StepCases

\* The queues of injected events stay right while the queues and the events
\* that may be in them do not change.
LEMMA InjectedQueuesKept ==
    ASSUME TypeOK, InjectedQueues, UNCHANGED <<eventsWithContext, swapped>>,
           \A f \in Event : req[f].kind = "thread" /\ key[f].uid = InvalidUid =>
              req'[f] = req[f] /\ key'[f] = key[f]
    PROVE  InjectedQueues'
<1>1. /\ \A i \in 1..Len(eventsWithContext) : eventsWithContext[i] \in Event
      /\ \A i \in 1..Len(swapped) : swapped[i] \in Event
  BY DEF TypeOK
<1> QED BY <1>1 DEF InjectedQueues

\* Every step keeps the order of the injected events, the swap included.
LEMMA InjectedQueuesStep ==
    ASSUME NoWrap, IInv, [Next]_vars
    PROVE  InjectedQueues'
<1>0. TypeOK /\ Control /\ Keys /\ InjectedQueues
  BY DEF IInv, Queues
<1>1. CASE UNCHANGED <<now, list, injected, swapped, lives>>
  BY <1>0, <1>1, InjectedQueuesKept DEF list, injected, lives
<1>2. ASSUME NEW kind \in Main, NEW delay \in Nat, NEW context \in Context,
             ScheduleAt(kind, delay, context)
      PROVE InjectedQueues'
  <2>1. PICK e \in Event : WasScheduled(e, kind, delay, context)
    BY <1>2, ScheduleChanges
  <2>2. req[e].kind = "none"
    BY <2>1, FreshEvent DEF WasScheduled
  <2> QED BY <1>0, <2>1, <2>2, InjectedQueuesKept DEF WasScheduled
<1>3. CASE ScheduleDestroy
  <2>1. PICK e \in Event : WasScheduledDestroy(e)
    BY <1>3, ScheduleDestroyChanges
  <2>2. req[e].kind = "none"
    BY <2>1, FreshEvent DEF WasScheduledDestroy
  <2> QED BY <1>0, <2>1, <2>2, InjectedQueuesKept DEF WasScheduledDestroy
<1>4. ASSUME NEW delay \in Nat, NEW context \in Context,
             InjectWithContext(context, delay)
      PROVE InjectedQueues'
  <2>1. PICK e \in Event : WasInjected(e, delay, context)
    BY <1>4, InjectChanges
  <2>2. /\ req[e].kind = "none" /\ key[e].uid = InvalidUid
        /\ \A i \in 1..Len(eventsWithContext) : eventsWithContext[i] < e
        /\ \A i \in 1..Len(swapped) : swapped[i] < e
    BY <2>1, FreshEvent DEF WasInjected
  <2> DEFINE n == Len(eventsWithContext)
  <2>3. /\ n \in Nat /\ Len(eventsWithContext') = n + 1
        /\ \A i \in 1..n : eventsWithContext'[i] = eventsWithContext[i]
        /\ eventsWithContext'[n + 1] = e
    BY <1>0, <2>1, AppendProperties DEF WasInjected, TypeOK
  <2>4. \A i \in 1..n : eventsWithContext[i] \in Event
    BY <1>0 DEF TypeOK
  <2>5. \A i \in 1..Len(swapped) : swapped[i] \in Event
    BY <1>0 DEF TypeOK
  <2>6. /\ swapped' = swapped /\ key' = key
        /\ req'[e].kind = "thread" /\ \A f \in Event : f # e => req'[f] = req[f]
    BY <2>1 DEF WasInjected
  <2> HIDE DEF n
  <2>7. \A i \in 1..(n + 1) : i = n + 1 \/ i \in 1..n
    BY <2>3
  <2>8. n + 1 \in 1..(n + 1) /\ 1..n \subseteq 1..(n + 1)
        /\ \A i \in 1..n : ~(n + 1 < i)
    BY <2>3
  <2>9. \A i \in 1..Len(eventsWithContext') :
          /\ req'[eventsWithContext'[i]].kind = "thread"
          /\ key'[eventsWithContext'[i]].uid = InvalidUid
    BY <1>0, <2>2, <2>3, <2>4, <2>6, <2>7 DEF InjectedQueues, n
  <2>10. \A i \in 1..Len(swapped') :
          req'[swapped'[i]].kind = "thread" /\ key'[swapped'[i]].uid = InvalidUid
    BY <1>0, <2>2, <2>5, <2>6 DEF InjectedQueues
  <2>11. \A i, j \in 1..Len(eventsWithContext') :
          i < j => eventsWithContext'[i] < eventsWithContext'[j]
    <3> SUFFICES ASSUME NEW i \in 1..(n + 1), NEW j \in 1..(n + 1), i < j
                 PROVE  eventsWithContext'[i] < eventsWithContext'[j]
      BY <2>3
    <3>1. i \in 1..n
      BY <2>3
    <3>2. CASE j = n + 1
      BY <2>2, <2>3, <3>1, <3>2 DEF n
    <3>3. CASE j \in 1..n
      BY <1>0, <2>3, <3>1, <3>3 DEF InjectedQueues, n
    <3> QED BY <2>7, <3>2, <3>3
  <2>12. \A i, j \in 1..Len(swapped') : i < j => swapped'[i] < swapped'[j]
    BY <1>0, <2>6 DEF InjectedQueues
  <2>13. \A i \in 1..Len(swapped'), j \in 1..Len(eventsWithContext') :
          swapped'[i] < eventsWithContext'[j]
    BY <1>0, <2>2, <2>3, <2>6, <2>7 DEF InjectedQueues, n
  <2> QED BY <2>9, <2>10, <2>11, <2>12, <2>13 DEF InjectedQueues
<1>5. ASSUME NEW e \in Event, \/ Cancel(e) \/ RemoveExpired(e)
                              \/ RemoveEvent(e) \/ RemoveDestroyEvent(e)
      PROVE InjectedQueues'
  BY <1>0, <1>5, RevokeChanges, InjectedQueuesKept DEF WasRevoked
<1>6. CASE SwapQueues
  <2>1. Len(swapped) = 0 /\ Len(eventsWithContext') = 0
    BY <1>0, <1>6, SwapChanges DEF Control
  <2>2. 1..0 = {}
    OBVIOUS
  <2> QED BY <1>0, <1>6, <2>1, <2>2, SwapChanges DEF InjectedQueues
<1>7. CASE InsertSwapped
  <2>1. PICK e \in Event : WasDrained(e)
    BY <1>7, InsertSwappedChanges
  <2> DEFINE n == Len(swapped)
  <2>2. /\ n \in Nat /\ n >= 1 /\ Len(swapped') = n - 1
        /\ \A i \in 1..(n - 1) : swapped'[i] = swapped[i + 1]
        /\ e = swapped[1]
    BY <1>0, <2>1 DEF WasDrained, TypeOK
  <2>3. UNCHANGED <<req, eventsWithContext>> /\ \A f \in Event : f # e => key'[f] = key[f]
    BY <2>1 DEF WasDrained
  <2>4. /\ \A i \in 1..n : swapped[i] \in Event
        /\ \A i \in 1..Len(eventsWithContext) : eventsWithContext[i] \in Event
        /\ \A f \in Event : f \in Nat
    BY <1>0, KernelAssumption DEF TypeOK, Event
  <2> HIDE DEF n
  <2>5. 1 \in 1..n /\ \A i \in 1..(n - 1) : i + 1 \in 1..n /\ 1 < i + 1
    BY <2>2
  <2>6. \A i, j \in 1..(n - 1) : i < j => i + 1 < j + 1
    BY <2>2
  <2>7. \A i \in 1..(n - 1) : swapped[i + 1] \in Event /\ swapped[i + 1] # e
    BY <1>0, <2>2, <2>4, <2>5 DEF InjectedQueues, n
  <2>8. \A i \in 1..Len(eventsWithContext) : eventsWithContext[i] # e
    BY <1>0, <2>2, <2>4, <2>5 DEF InjectedQueues, n
  <2>9. \A i \in 1..Len(eventsWithContext') :
          /\ req'[eventsWithContext'[i]].kind = "thread"
          /\ key'[eventsWithContext'[i]].uid = InvalidUid
    BY <1>0, <2>3, <2>4, <2>8 DEF InjectedQueues
  <2>10. \A i \in 1..Len(swapped') :
          req'[swapped'[i]].kind = "thread" /\ key'[swapped'[i]].uid = InvalidUid
    BY <1>0, <2>2, <2>3, <2>5, <2>7 DEF InjectedQueues, n
  <2>11. \A i, j \in 1..Len(swapped') : i < j => swapped'[i] < swapped'[j]
    BY <1>0, <2>2, <2>5, <2>6 DEF InjectedQueues, n
  <2>12. \A i \in 1..Len(swapped'), j \in 1..Len(eventsWithContext') :
          swapped'[i] < eventsWithContext'[j]
    BY <1>0, <2>2, <2>3, <2>5 DEF InjectedQueues, n
  <2> QED BY <1>0, <2>3, <2>9, <2>10, <2>11, <2>12 DEF InjectedQueues
<1>8. ASSUME NEW e \in Event, ProcessOneEvent(e) PROVE InjectedQueues'
  BY <1>0, <1>8, TakeChanges, InjectedQueuesKept DEF WasTaken
<1>9. ASSUME NEW e \in Event, DisposeEvent(e) PROVE InjectedQueues'
  BY <1>0, <1>9, DisposeChanges, InjectedQueuesKept DEF WasDisposed
<1>10. CASE ProcessDestroyEvent
  <2>1. UNCHANGED <<key, req, eventsWithContext, swapped>>
    BY <1>10 DEF ProcessDestroyEvent, list, injected
  <2> QED BY <1>0, <2>1, InjectedQueuesKept
<1> QED
  BY <1>1, <1>2, <1>3, <1>4, <1>5, <1>6, <1>7, <1>8, <1>9, <1>10, StepCases

\* The list of destroy events stays right while it does not change and none
\* of its events goes.
LEMMA DestroyQueueKept ==
    ASSUME TypeOK, DestroyQueue, UNCHANGED destroyEvents,
           \A f \in Event : req[f].kind = "destroy" /\ f \notin gone =>
              req'[f].kind = "destroy" /\ f \notin gone'
    PROVE  DestroyQueue'
<1>1. \A i \in 1..Len(destroyEvents) : destroyEvents[i] \in Event
  BY DEF TypeOK
<1> QED BY <1>1 DEF DestroyQueue

\* Every step keeps the list of destroy events: what is appended is new, what
\* is taken or erased was there once.
LEMMA DestroyQueueStep ==
    ASSUME NoWrap, IInv, [Next]_vars
    PROVE  DestroyQueue'
<1>0. TypeOK /\ Keys /\ DestroyQueue /\ Placed
  BY DEF IInv, Queues
<1>d. \A f \in Event : req[f].kind = "destroy" =>
         ~Inserted(f) /\ key[f].uid = DestroyUid
  BY <1>0 DEF Keys, KeyOf, Inserted, DestroyUid, FirstUid
<1>1. CASE UNCHANGED <<now, list, destroyEvents, cancelled, injected, swapped, lives>>
  BY <1>0, <1>1, DestroyQueueKept DEF lives
<1>2. ASSUME NEW kind \in Main, NEW delay \in Nat, NEW context \in Context,
             ScheduleAt(kind, delay, context)
      PROVE DestroyQueue'
  <2>1. PICK e \in Event : WasScheduled(e, kind, delay, context)
    BY <1>2, ScheduleChanges
  <2>2. req[e].kind = "none"
    BY <2>1, FreshEvent DEF WasScheduled
  <2> QED BY <1>0, <2>1, <2>2, DestroyQueueKept DEF WasScheduled
<1>3. CASE ScheduleDestroy
  <2>1. PICK e \in Event : WasScheduledDestroy(e)
    BY <1>3, ScheduleDestroyChanges
  <2>2. /\ e \notin gone
        /\ \A i \in 1..Len(destroyEvents) : destroyEvents[i] # e
    BY <2>1, FreshEvent DEF WasScheduledDestroy
  <2> DEFINE n == Len(destroyEvents)
  <2>3. /\ n \in Nat /\ Len(destroyEvents') = n + 1
        /\ \A i \in 1..n : destroyEvents'[i] = destroyEvents[i]
        /\ destroyEvents'[n + 1] = e
        /\ \A i \in 1..n : destroyEvents[i] \in Event
    BY <1>0, <2>1, AppendProperties DEF WasScheduledDestroy, TypeOK
  <2>4. /\ gone' = gone
        /\ req'[e].kind = "destroy" /\ \A f \in Event : f # e => req'[f] = req[f]
    BY <2>1 DEF WasScheduledDestroy
  <2> HIDE DEF n
  <2>5. \A i \in 1..(n + 1) : i = n + 1 \/ i \in 1..n
    BY <2>3
  <2> QED BY <1>0, <2>2, <2>3, <2>4, <2>5 DEF DestroyQueue, n
<1>4. ASSUME NEW delay \in Nat, NEW context \in Context,
             InjectWithContext(context, delay)
      PROVE DestroyQueue'
  <2>1. PICK e \in Event : WasInjected(e, delay, context)
    BY <1>4, InjectChanges
  <2>2. req[e].kind = "none"
    BY <2>1, FreshEvent DEF WasInjected
  <2> QED BY <1>0, <2>1, <2>2, DestroyQueueKept DEF WasInjected
<1>5. ASSUME NEW e \in Event, Cancel(e) \/ RemoveExpired(e) \/ RemoveEvent(e)
      PROVE DestroyQueue'
  <2>1. UNCHANGED <<destroyEvents, req>>
    BY <1>5 DEF Cancel, RemoveExpired, RemoveEvent, Revoke
  <2>2. gone' = gone \/ (gone' = gone \cup {e} /\ key[e].uid # DestroyUid)
    BY <1>5 DEF Cancel, RemoveExpired, RemoveEvent
  <2> QED BY <1>0, <1>d, <2>1, <2>2, DestroyQueueKept
<1>6. ASSUME NEW e \in Event, RemoveDestroyEvent(e) PROVE DestroyQueue'
  <2>a. /\ destroyEvents \in Seq(Event)
        /\ DOMAIN destroyEvents = 1..Len(destroyEvents)
    BY <1>0 DEF TypeOK
  <2>1. PICK k \in 1..Len(destroyEvents) :
          /\ destroyEvents[k] = e
          /\ destroyEvents' = SubSeq(destroyEvents, 1, k - 1)
                   \o SubSeq(destroyEvents, k + 1, Len(destroyEvents))
    BY <1>6, <2>a, Zenon DEF RemoveDestroyEvent
  <2> DEFINE n == Len(destroyEvents)
  <2>2. /\ Len(destroyEvents') = n - 1
        /\ \A j \in 1..(n - 1) : destroyEvents'[j] =
                 IF j < k THEN destroyEvents[j] ELSE destroyEvents[j + 1]
    BY <2>a, <2>1, EraseProperties, Zenon
  <2>3. n \in Nat /\ k \in 1..n /\ \A i \in 1..n : destroyEvents[i] \in Event
    BY <1>0, <2>1 DEF TypeOK
  <2>4. gone' = gone \cup {e} /\ req' = req
    BY <1>6 DEF RemoveDestroyEvent, Revoke
  <2> DEFINE old(j) == IF j < k THEN j ELSE j + 1
  <2>5. \A j \in 1..(n - 1) : old(j) \in 1..n /\ old(j) # k
    BY <2>3
  <2>6. \A i, j \in 1..(n - 1) : old(i) = old(j) => i = j
    BY <2>3
  <2>7. \A j \in 1..(n - 1) : destroyEvents'[j] = destroyEvents[old(j)]
    BY <2>2
  <2> HIDE DEF old, n
  <2>8. \A j \in 1..(n - 1) : destroyEvents[old(j)] # e
    BY <1>0, <2>1, <2>3, <2>5 DEF DestroyQueue, n
  <2> QED BY <1>0, <2>2, <2>4, <2>5, <2>6, <2>7, <2>8 DEF DestroyQueue, n
<1>7. CASE SwapQueues
  BY <1>0, <1>7, SwapChanges, DestroyQueueKept
<1>8. CASE InsertSwapped
  <2>1. PICK e \in Event : WasDrained(e)
    BY <1>8, InsertSwappedChanges
  <2> QED BY <1>0, <2>1, DestroyQueueKept DEF WasDrained
<1>9. ASSUME NEW e \in Event, ProcessOneEvent(e) \/ DisposeEvent(e)
      PROVE DestroyQueue'
  <2>1. /\ UNCHANGED <<destroyEvents, req>> /\ e \in events
        /\ gone' = gone \cup {e}
    BY <1>9, TakeChanges, DisposeChanges DEF WasTaken, WasDisposed
  <2>2. Inserted(e)
    BY <1>0, <2>1 DEF Placed, ListPlaced
  <2> QED BY <1>0, <1>d, <2>1, <2>2, DestroyQueueKept
<1>10. CASE ProcessDestroyEvent
  <2>1. PICK e \in Event : DestroyEventTaken(e)
    BY <1>0, <1>10, DestroyEventChanges
  <2> DEFINE n == Len(destroyEvents)
  <2>2. /\ n \in Nat /\ n >= 1 /\ Len(destroyEvents') = n - 1
        /\ \A i \in 1..(n - 1) : destroyEvents'[i] = destroyEvents[i + 1]
        /\ e = destroyEvents[1] /\ gone' = gone \cup {e} /\ req' = req
    BY <1>0, <2>1 DEF DestroyEventTaken, TypeOK
  <2> HIDE DEF n
  <2>3. 1 \in 1..n /\ \A i \in 1..(n - 1) : i + 1 \in 1..n /\ i + 1 # 1
    BY <2>2
  <2>4. \A i, j \in 1..(n - 1) : i + 1 = j + 1 => i = j
    BY <2>2
  <2>5. \A i \in 1..(n - 1) : destroyEvents[i + 1] # e
    BY <1>0, <2>2, <2>3 DEF DestroyQueue, n
  <2> QED BY <1>0, <2>2, <2>3, <2>4, <2>5 DEF DestroyQueue, n
<1> QED
  BY <1>1, <1>2, <1>3, <1>4, <1>5, <1>6, <1>7, <1>8, <1>9, <1>10, StepCases

\* Every step keeps ListPlaced: an event with a uid stays in the list until it
\* is gone.
LEMMA ListPlacedStep ==
    ASSUME NoWrap, IInv, [Next]_vars
    PROVE  ListPlaced'
<1>0. TypeOK /\ Control /\ Keys /\ Queues /\ ListPlaced
  BY DEF IInv, Placed
<1>1. CASE UNCHANGED <<now, list, destroyEvents, cancelled, injected, swapped, lives>>
  BY <1>0, <1>1 DEF ListPlaced, Inserted, list, lives
<1>2. ASSUME NEW kind \in Main, NEW delay \in Nat, NEW context \in Context,
             ScheduleAt(kind, delay, context)
      PROVE ListPlaced'
  <2>1. PICK e \in Event : WasScheduled(e, kind, delay, context)
    BY <1>2, ScheduleChanges
  <2>2. e \notin gone /\ e \notin events
    BY <2>1, FreshEvent DEF WasScheduled
  <2>3. Inserted(e)'
    BY <1>0, <2>1 DEF WasScheduled, Inserted, Keys
  <2>4. \A f \in Event : f # e => (Inserted(f)' <=> Inserted(f)) /\ req'[f] = req[f]
    BY <2>1 DEF WasScheduled, Inserted
  <2>5. events \subseteq Event /\ gone \subseteq Event
    BY <1>0 DEF TypeOK
  <2>6. gone' = gone /\ events' = events \cup {e}
    BY <2>1 DEF WasScheduled
  <2> QED BY <1>0, <2>2, <2>3, <2>4, <2>5, <2>6 DEF ListPlaced
<1>3. CASE ScheduleDestroy
  <2>1. PICK e \in Event : WasScheduledDestroy(e)
    BY <1>3, ScheduleDestroyChanges
  <2>2. e \notin gone /\ e \notin events
    BY <2>1, FreshEvent DEF WasScheduledDestroy
  <2>3. ~Inserted(e)'
    BY <2>1 DEF WasScheduledDestroy, Inserted, DestroyUid, FirstUid
  <2>4. \A f \in Event : f # e => (Inserted(f)' <=> Inserted(f)) /\ req'[f] = req[f]
    BY <2>1 DEF WasScheduledDestroy, Inserted
  <2>5. events \subseteq Event /\ gone \subseteq Event
    BY <1>0 DEF TypeOK
  <2>6. gone' = gone /\ events' = events
    BY <2>1 DEF WasScheduledDestroy
  <2> QED BY <1>0, <2>2, <2>3, <2>4, <2>5, <2>6 DEF ListPlaced
<1>4. ASSUME NEW delay \in Nat, NEW context \in Context,
             InjectWithContext(context, delay)
      PROVE ListPlaced'
  <2>1. PICK e \in Event : WasInjected(e, delay, context)
    BY <1>4, InjectChanges
  <2>2. e \notin gone /\ e \notin events
    BY <2>1, FreshEvent DEF WasInjected
  <2>3. gone \subseteq Event /\ \A f \in Event : f # e => req'[f] = req[f]
    BY <1>0, <2>1 DEF WasInjected, TypeOK
  <2>4. UNCHANGED <<key, events, gone>>
    BY <2>1 DEF WasInjected
  <2> QED BY <1>0, <2>2, <2>3, <2>4 DEF ListPlaced, Inserted
<1>5. ASSUME NEW e \in Event, Cancel(e) \/ RemoveExpired(e) PROVE ListPlaced'
  BY <1>0, <1>5 DEF Cancel, RemoveExpired, Revoke, list, ListPlaced, Inserted
<1>6. ASSUME NEW e \in Event, RemoveEvent(e) PROVE ListPlaced'
  <2>1. e \in events
    BY <1>6, HeldEvents DEF RemoveEvent, Revoke
  <2> QED BY <1>0, <1>6, <2>1 DEF RemoveEvent, Revoke, ListPlaced, Inserted
<1>7. ASSUME NEW e \in Event, RemoveDestroyEvent(e) PROVE ListPlaced'
  <2>1. gone' = gone \cup {e} /\ UNCHANGED <<key, events, req>>
    BY <1>7 DEF RemoveDestroyEvent, Revoke, list
  <2>2. Held(e) /\ key[e].uid = DestroyUid
    BY <1>7 DEF RemoveDestroyEvent, Revoke
  <2>3. req[e].kind = "destroy"
    BY <1>0, <2>2 DEF Held, Keys, KeyOf, Main, Inserted, DestroyUid, FirstUid
  <2>4. e \notin events
    BY <1>0, <2>2 DEF ListPlaced, Inserted, DestroyUid, FirstUid
  <2> QED BY <1>0, <2>1, <2>3, <2>4 DEF ListPlaced, Inserted
<1>8. CASE SwapQueues
  BY <1>0, <1>8, SwapChanges DEF ListPlaced, Inserted
<1>9. CASE InsertSwapped
  <2>1. PICK e \in Event : WasDrained(e)
    BY <1>9, InsertSwappedChanges
  <2>2. req[e].kind = "thread" /\ key[e].uid = InvalidUid
    <3>1. 1 \in 1..Len(swapped)
      BY <1>0, <2>1 DEF WasDrained, TypeOK
    <3> QED BY <1>0, <2>1, <3>1 DEF WasDrained, Queues, InjectedQueues
  <2>3. e \notin gone /\ e \notin events
    BY <1>0, <2>2 DEF ListPlaced, Inserted, InvalidUid, FirstUid
  <2>4. Inserted(e)'
    BY <1>0, <2>1 DEF WasDrained, Inserted, Keys
  <2>5. /\ \A f \in Event : f # e => (Inserted(f)' <=> Inserted(f))
        /\ events \subseteq Event /\ gone \subseteq Event
    BY <1>0, <2>1 DEF WasDrained, Inserted, TypeOK
  <2>6. gone' = gone /\ events' = events \cup {e} /\ req' = req
    BY <2>1 DEF WasDrained
  <2> QED BY <1>0, <2>3, <2>4, <2>5, <2>6 DEF ListPlaced
<1>10. ASSUME NEW e \in Event, ProcessOneEvent(e) \/ DisposeEvent(e)
       PROVE ListPlaced'
  <2>1. /\ UNCHANGED <<key, req>> /\ e \in events
        /\ events' = events \ {e} /\ gone' = gone \cup {e}
    BY <1>10, TakeChanges, DisposeChanges DEF WasTaken, WasDisposed
  <2> QED BY <1>0, <2>1 DEF ListPlaced, Inserted
<1>11. CASE ProcessDestroyEvent
  <2>1. PICK e \in Event : DestroyEventTaken(e)
    BY <1>0, <1>11, DestroyEventChanges
  <2>2. req[e].kind = "destroy"
    <3>1. 1 \in 1..Len(destroyEvents)
      BY <1>0, <2>1 DEF DestroyEventTaken, TypeOK
    <3> QED BY <1>0, <2>1, <3>1 DEF DestroyEventTaken, Queues, DestroyQueue
  <2>3. e \notin events
    BY <1>0, <2>2 DEF ListPlaced, Keys, KeyOf, Inserted, DestroyUid, FirstUid
  <2>4. UNCHANGED <<key, req, events>> /\ gone' = gone \cup {e}
    BY <2>1 DEF DestroyEventTaken
  <2> QED BY <1>0, <2>2, <2>3, <2>4 DEF ListPlaced, Inserted
<1> QED
  BY <1>1, <1>2, <1>3, <1>4, <1>5, <1>6, <1>7, <1>8, <1>9, <1>10, <1>11, StepCases

\* Every step keeps DestroyPlaced: erasing one destroy event leaves the others.
LEMMA DestroyPlacedStep ==
    ASSUME NoWrap, IInv, [Next]_vars
    PROVE  DestroyPlaced'
<1>0. TypeOK /\ DestroyQueue /\ DestroyPlaced
  BY DEF IInv, Queues, Placed
\* The list does not change, and no destroy event is new.
<1>k. ASSUME UNCHANGED destroyEvents, gone \subseteq gone',
             \A f \in Event : req'[f].kind = "destroy" => req[f].kind = "destroy"
      PROVE  DestroyPlaced'
  BY <1>0, <1>k DEF DestroyPlaced
<1>1. CASE UNCHANGED <<now, list, destroyEvents, cancelled, injected, swapped, lives>>
  BY <1>1, <1>k DEF lives
<1>2. ASSUME NEW kind \in Main, NEW delay \in Nat, NEW context \in Context,
             ScheduleAt(kind, delay, context)
      PROVE DestroyPlaced'
  <2>1. PICK e \in Event : WasScheduled(e, kind, delay, context)
    BY <1>2, ScheduleChanges
  <2>2. kind # "destroy"
    BY DEF Main
  <2> QED BY <1>k, <2>1, <2>2 DEF WasScheduled
<1>3. CASE ScheduleDestroy
  <2>1. PICK e \in Event : WasScheduledDestroy(e)
    BY <1>3, ScheduleDestroyChanges
  <2> DEFINE n == Len(destroyEvents)
  <2>3. /\ n \in Nat /\ Len(destroyEvents') = n + 1
        /\ \A i \in 1..n : destroyEvents'[i] = destroyEvents[i]
        /\ destroyEvents'[n + 1] = e
    BY <1>0, <2>1, AppendProperties DEF WasScheduledDestroy, TypeOK
  <2>4. gone' = gone /\ \A f \in Event : f # e => req'[f] = req[f]
    BY <2>1 DEF WasScheduledDestroy
  <2> HIDE DEF n
  <2>5. n + 1 \in 1..(n + 1) /\ 1..n \subseteq 1..(n + 1)
    BY <2>3
  <2>6. ASSUME NEW f \in Event, req'[f].kind = "destroy", f \notin gone'
        PROVE  \E i \in 1..(n + 1) : destroyEvents'[i] = f
    <3>1. CASE f = e
      BY <2>3, <2>5, <3>1
    <3>2. CASE f # e
      <4>1. PICK i \in 1..n : destroyEvents[i] = f
        BY <1>0, <2>4, <2>6, <3>2 DEF DestroyPlaced, n
      <4> QED BY <2>3, <2>5, <4>1
    <3> QED BY <3>1, <3>2
  <2> QED BY <2>3, <2>6 DEF DestroyPlaced
<1>4. ASSUME NEW delay \in Nat, NEW context \in Context,
             InjectWithContext(context, delay)
      PROVE DestroyPlaced'
  <2>1. PICK e \in Event : WasInjected(e, delay, context)
    BY <1>4, InjectChanges
  <2> QED BY <1>k, <2>1 DEF WasInjected
<1>5. ASSUME NEW e \in Event, Cancel(e) \/ RemoveExpired(e) \/ RemoveEvent(e)
      PROVE DestroyPlaced'
  <2>1. UNCHANGED <<destroyEvents, req>> /\ gone \subseteq gone'
    BY <1>5 DEF Cancel, RemoveExpired, RemoveEvent, Revoke
  <2> QED BY <1>k, <2>1
<1>6. ASSUME NEW e \in Event, RemoveDestroyEvent(e) PROVE DestroyPlaced'
  <2>a. /\ destroyEvents \in Seq(Event)
        /\ DOMAIN destroyEvents = 1..Len(destroyEvents)
    BY <1>0 DEF TypeOK
  <2>1. PICK k \in 1..Len(destroyEvents) :
          /\ destroyEvents[k] = e
          /\ destroyEvents' = SubSeq(destroyEvents, 1, k - 1)
                   \o SubSeq(destroyEvents, k + 1, Len(destroyEvents))
    BY <1>6, <2>a, Zenon DEF RemoveDestroyEvent
  <2> DEFINE n == Len(destroyEvents)
  <2>2. /\ Len(destroyEvents') = n - 1
        /\ \A j \in 1..(n - 1) : destroyEvents'[j] =
                 IF j < k THEN destroyEvents[j] ELSE destroyEvents[j + 1]
    BY <2>a, <2>1, EraseProperties, Zenon
  <2>3. n \in Nat /\ k \in 1..n
    BY <2>a
  <2>4. gone' = gone \cup {e} /\ req' = req
    BY <1>6 DEF RemoveDestroyEvent, Revoke
  <2> HIDE DEF n
  <2>5. ASSUME NEW f \in Event, req'[f].kind = "destroy", f \notin gone'
        PROVE  \E i \in 1..(n - 1) : destroyEvents'[i] = f
    <3>1. PICK i \in 1..n : destroyEvents[i] = f
      BY <1>0, <2>4, <2>5 DEF DestroyPlaced, n
    <3>2. i # k
      BY <2>1, <2>4, <2>5, <3>1
    <3>3. CASE i < k
      <4>1. i \in 1..(n - 1)
        BY <2>3, <3>3
      <4> QED BY <2>2, <3>1, <3>3, <4>1
    <3>4. CASE ~(i < k)
      <4>1. i - 1 \in 1..(n - 1) /\ ~(i - 1 < k) /\ (i - 1) + 1 = i
        BY <2>3, <3>2, <3>4
      <4>2. destroyEvents'[i - 1] = destroyEvents[(i - 1) + 1]
        BY <2>2, <4>1
      <4> QED BY <3>1, <4>1, <4>2
    <3> QED BY <3>3, <3>4
  <2> QED BY <2>2, <2>5 DEF DestroyPlaced
<1>7. CASE SwapQueues
  BY <1>7, <1>k, SwapChanges
<1>8. CASE InsertSwapped
  <2>1. PICK e \in Event : WasDrained(e)
    BY <1>8, InsertSwappedChanges
  <2> QED BY <1>k, <2>1 DEF WasDrained
<1>9. ASSUME NEW e \in Event, ProcessOneEvent(e) \/ DisposeEvent(e)
      PROVE DestroyPlaced'
  BY <1>9, <1>k, TakeChanges, DisposeChanges DEF WasTaken, WasDisposed
<1>10. CASE ProcessDestroyEvent
  <2>1. PICK e \in Event : DestroyEventTaken(e)
    BY <1>0, <1>10, DestroyEventChanges
  <2> DEFINE n == Len(destroyEvents)
  <2>2. /\ n \in Nat /\ n >= 1 /\ Len(destroyEvents') = n - 1
        /\ \A i \in 1..(n - 1) : destroyEvents'[i] = destroyEvents[i + 1]
        /\ e = destroyEvents[1] /\ gone' = gone \cup {e} /\ req' = req
    BY <1>0, <2>1 DEF DestroyEventTaken, TypeOK
  <2> HIDE DEF n
  <2>3. ASSUME NEW f \in Event, req'[f].kind = "destroy", f \notin gone'
        PROVE  \E i \in 1..(n - 1) : destroyEvents'[i] = f
    <3>1. PICK i \in 1..n : destroyEvents[i] = f
      BY <1>0, <2>2, <2>3 DEF DestroyPlaced, n
    <3>2. i # 1
      BY <2>2, <2>3, <3>1
    <3>3. i - 1 \in 1..(n - 1) /\ (i - 1) + 1 = i
      BY <2>2, <3>2
    <3>4. destroyEvents'[i - 1] = destroyEvents[(i - 1) + 1]
      BY <2>2, <3>3
    <3> QED BY <3>1, <3>3, <3>4
  <2> QED BY <2>2, <2>3 DEF DestroyPlaced
<1> QED
  BY <1>1, <1>2, <1>3, <1>4, <1>5, <1>6, <1>7, <1>8, <1>9, <1>10, StepCases

\* Every step keeps InjectedPlaced: no injected event is lost between the
\* queues.
LEMMA InjectedPlacedStep ==
    ASSUME NoWrap, IInv, [Next]_vars
    PROVE  InjectedPlaced'
<1>0. TypeOK /\ Control /\ InjectedPlaced
  BY DEF IInv, Placed
\* The queues do not change, and no injected event is new.
<1>k. ASSUME UNCHANGED <<eventsWithContext, swapped>>,
             \A f \in Event : req'[f].kind = "thread" /\ ~Inserted(f)' =>
                                 req[f].kind = "thread" /\ ~Inserted(f)
      PROVE  InjectedPlaced'
  BY <1>0, <1>k DEF InjectedPlaced
<1>1. CASE UNCHANGED <<now, list, destroyEvents, cancelled, injected, swapped, lives>>
  BY <1>1, <1>k DEF list, injected, lives, Inserted
<1>2. ASSUME NEW kind \in Main, NEW delay \in Nat, NEW context \in Context,
             ScheduleAt(kind, delay, context)
      PROVE InjectedPlaced'
  <2>1. PICK e \in Event : WasScheduled(e, kind, delay, context)
    BY <1>2, ScheduleChanges
  <2>2. kind # "thread"
    BY DEF Main
  <2> QED BY <1>k, <2>1, <2>2 DEF WasScheduled, Inserted
<1>3. CASE ScheduleDestroy
  <2>1. PICK e \in Event : WasScheduledDestroy(e)
    BY <1>3, ScheduleDestroyChanges
  <2> QED BY <1>k, <2>1 DEF WasScheduledDestroy, Inserted
<1>4. ASSUME NEW delay \in Nat, NEW context \in Context,
             InjectWithContext(context, delay)
      PROVE InjectedPlaced'
  <2>1. PICK e \in Event : WasInjected(e, delay, context)
    BY <1>4, InjectChanges
  <2> DEFINE n == Len(eventsWithContext)
  <2>2. /\ n \in Nat /\ Len(eventsWithContext') = n + 1
        /\ \A i \in 1..n : eventsWithContext'[i] = eventsWithContext[i]
        /\ eventsWithContext'[n + 1] = e
    BY <1>0, <2>1, AppendProperties DEF WasInjected, TypeOK
  <2>3. UNCHANGED <<key, swapped>> /\ \A f \in Event : f # e => req'[f] = req[f]
    BY <2>1 DEF WasInjected
  <2> HIDE DEF n
  <2>4. n + 1 \in 1..(n + 1) /\ 1..n \subseteq 1..(n + 1)
    BY <2>2
  <2>5. ASSUME NEW f \in Event, req'[f].kind = "thread", ~Inserted(f)'
        PROVE  \/ \E i \in 1..(n + 1) : eventsWithContext'[i] = f
               \/ \E i \in 1..Len(swapped) : swapped[i] = f
    <3>1. CASE f = e
      BY <2>2, <2>4, <3>1
    <3>2. CASE f # e
      <4>1. req[f].kind = "thread" /\ ~Inserted(f)
        BY <2>3, <2>5, <3>2 DEF Inserted
      <4>2. \/ \E i \in 1..n : eventsWithContext[i] = f
            \/ \E i \in 1..Len(swapped) : swapped[i] = f
        BY <1>0, <4>1 DEF InjectedPlaced, n
      <4> QED BY <2>2, <2>4, <4>2
    <3> QED BY <3>1, <3>2
  <2> QED BY <2>2, <2>3, <2>5 DEF InjectedPlaced
<1>5. ASSUME NEW e \in Event, \/ Cancel(e) \/ RemoveExpired(e)
                              \/ RemoveEvent(e) \/ RemoveDestroyEvent(e)
      PROVE InjectedPlaced'
  BY <1>5, <1>k, RevokeChanges DEF WasRevoked, Inserted
<1>6. CASE SwapQueues
  <2>1. Len(swapped) = 0 /\ 1..0 = {}
    BY <1>0, <1>6, SwapChanges DEF Control
  <2> QED BY <1>0, <1>6, <2>1, SwapChanges DEF InjectedPlaced, Inserted
<1>7. CASE InsertSwapped
  <2>1. PICK e \in Event : WasDrained(e)
    BY <1>7, InsertSwappedChanges
  <2> DEFINE n == Len(swapped)
  <2>2. /\ n \in Nat /\ n >= 1 /\ Len(swapped') = n - 1
        /\ \A i \in 1..(n - 1) : swapped'[i] = swapped[i + 1]
        /\ e = swapped[1]
    BY <1>0, <2>1 DEF WasDrained, TypeOK
  <2>3. /\ UNCHANGED <<req, eventsWithContext>>
        /\ \A f \in Event : f # e => key'[f] = key[f]
    BY <2>1 DEF WasDrained
  <2>4. Inserted(e)'
    BY <1>0, <2>1 DEF WasDrained, Inserted, Keys, IInv
  <2> HIDE DEF n
  <2>5. ASSUME NEW f \in Event, req'[f].kind = "thread", ~Inserted(f)'
        PROVE  \/ \E i \in 1..Len(eventsWithContext) : eventsWithContext[i] = f
               \/ \E i \in 1..(n - 1) : swapped'[i] = f
    <3>1. f # e /\ req[f].kind = "thread" /\ ~Inserted(f)
      BY <2>3, <2>4, <2>5 DEF Inserted
    <3>2. CASE \E i \in 1..Len(eventsWithContext) : eventsWithContext[i] = f
      BY <3>2
    <3>3. ASSUME NEW i \in 1..n, swapped[i] = f
          PROVE  \E j \in 1..(n - 1) : swapped'[j] = f
      <4>1. i # 1
        BY <2>2, <3>1, <3>3
      <4>2. i - 1 \in 1..(n - 1) /\ (i - 1) + 1 = i
        BY <2>2, <4>1
      <4>3. swapped'[i - 1] = swapped[(i - 1) + 1]
        BY <2>2, <4>2
      <4> QED BY <3>3, <4>2, <4>3
    <3> QED BY <1>0, <3>1, <3>2, <3>3 DEF InjectedPlaced, n
  <2> QED BY <2>2, <2>3, <2>5 DEF InjectedPlaced
<1>8. ASSUME NEW e \in Event, ProcessOneEvent(e) \/ DisposeEvent(e)
      PROVE InjectedPlaced'
  BY <1>8, <1>k, TakeChanges, DisposeChanges DEF WasTaken, WasDisposed, Inserted
<1>9. CASE ProcessDestroyEvent
  <2>1. PICK e \in Event : DestroyEventTaken(e)
    BY <1>0, <1>9, DestroyEventChanges
  <2> QED BY <1>9, <1>k, <2>1 DEF DestroyEventTaken, ProcessDestroyEvent, Inserted
<1> QED
  BY <1>1, <1>2, <1>3, <1>4, <1>5, <1>6, <1>7, <1>8, <1>9, StepCases

\* Every step keeps m_unscheduledEvents equal to the length of the list.
LEMMA CountStep ==
    ASSUME NoWrap, IInv, [Next]_vars
    PROVE  CountsEvents'
<1>0. TypeOK /\ CountsEvents
  BY DEF IInv
<1>f. IsFiniteSet(events)
  <2>1. IsFiniteSet(Event)
    BY KernelAssumption, FS_Interval, 1 \in Int, MaxEvents \in Int DEF Event
  <2> QED BY <1>0, <2>1, FS_Subset DEF TypeOK
\* The list and its counter do not change, and counting does not resume.
<1>k. ASSUME UNCHANGED <<events, unscheduledEvents>>,
             pc \in {"dispose", "disposed"} => pc' \in {"dispose", "disposed"}
      PROVE  CountsEvents'
  BY <1>0, <1>k DEF CountsEvents
\* An insertion.
<1>i. ASSUME NEW e \in Event, e \notin events, events' = events \cup {e},
             unscheduledEvents' = unscheduledEvents + 1, pc' = pc
      PROVE  CountsEvents'
  <2>1. Cardinality(events \cup {e}) = Cardinality(events) + 1
    BY <1>f, <1>i, FS_AddElement
  <2> QED BY <1>0, <1>i, <2>1 DEF CountsEvents
\* A removal while the counter is maintained.
<1>r. ASSUME NEW e \in events, events' = events \ {e},
             unscheduledEvents' = unscheduledEvents - 1,
             pc \notin {"dispose", "disposed"}
      PROVE  CountsEvents'
  BY <1>0, <1>r, CountPositive DEF CountsEvents
<1>1. CASE Quiet \/ UNCHANGED vars
  <2>1. UNCHANGED <<events, unscheduledEvents>>
    BY <1>1, QuietChanges DEF list, vars
  <2>2. pc \in {"dispose", "disposed"} => pc' \in {"dispose", "disposed"}
    BY <1>1 DEF Quiet, Stop, Run, Destroy, CheckFlag, DrainDone, ClearStop,
         RunReturns, BeginDispose, Disposed, HandlerStep, HandlerReturns,
         DestroyHandlerReturns, control, vars, UserCode
  <2> QED BY <1>k, <2>1, <2>2
<1>2. ASSUME NEW kind \in Main, NEW delay \in Nat, NEW context \in Context,
             ScheduleAt(kind, delay, context)
      PROVE CountsEvents'
  <2>1. PICK e \in Event : WasScheduled(e, kind, delay, context)
    BY <1>2, ScheduleChanges
  <2>2. e \notin events
    BY <2>1, FreshEvent DEF WasScheduled
  <2> QED BY <1>i, <2>1, <2>2 DEF WasScheduled
<1>3. CASE ScheduleDestroy
  BY <1>3, <1>k DEF ScheduleDestroy, control
<1>4. ASSUME NEW delay \in Nat, NEW context \in Context,
             InjectWithContext(context, delay)
      PROVE CountsEvents'
  BY <1>4, <1>k DEF InjectWithContext, list, control
<1>5. ASSUME NEW e \in Event, Cancel(e) \/ RemoveExpired(e) \/ RemoveDestroyEvent(e)
      PROVE CountsEvents'
  BY <1>5, <1>k DEF Cancel, RemoveExpired, RemoveDestroyEvent, list, control
<1>6. ASSUME NEW e \in Event, RemoveEvent(e) PROVE CountsEvents'
  <2>1. e \in events /\ pc \notin {"dispose", "disposed"}
    BY <1>6, HeldEvents DEF RemoveEvent, Revoke, UserCode
  <2> QED BY <1>6, <1>r, <2>1 DEF RemoveEvent
<1>7. CASE SwapQueues
  BY <1>7, <1>k, SwapChanges
<1>8. CASE InsertSwapped
  <2>1. PICK e \in Event : WasDrained(e)
    BY <1>8, InsertSwappedChanges
  <2>2. 1 \in 1..Len(swapped)
    BY <1>0, <2>1 DEF WasDrained, TypeOK
  <2>3. key[e].uid = InvalidUid
    BY <2>1, <2>2 DEF WasDrained, IInv, Queues, InjectedQueues
  <2>4. e \notin events
    BY <2>3 DEF IInv, Placed, ListPlaced, Inserted, InvalidUid, FirstUid
  <2> QED BY <1>i, <2>1, <2>4 DEF WasDrained
<1>9. ASSUME NEW e \in Event, ProcessOneEvent(e) PROVE CountsEvents'
  BY <1>9, <1>r, TakeChanges DEF WasTaken
<1>10. ASSUME NEW e \in Event, DisposeEvent(e) PROVE CountsEvents'
  BY <1>10, DisposeChanges DEF WasDisposed, CountsEvents
<1>11. CASE ProcessDestroyEvent
  <2>1. PICK e \in Event : DestroyEventTaken(e)
    BY <1>0, <1>11, DestroyEventChanges
  <2> QED BY <1>k, <2>1 DEF DestroyEventTaken
<1> QED
  BY <1>1, <1>2, <1>3, <1>4, <1>5, <1>6, <1>7, <1>8, <1>9, <1>10, <1>11, StepCases

\* An insertion at the current time or later, under the next uid, is due
\* after the event last taken.
LEMMA InsertedAfterNow ==
    ASSUME TypeOK, Keys, NEW e \in Event, NEW delay \in Nat,
           key'[e].ts = currentTs + delay, key'[e].uid = uid,
           UNCHANGED <<currentTs, currentUid>>
    PROVE  AfterNow(e)'
  BY DEF TypeOK, Keys, AfterNow

\* Every step keeps Timely: time does not run backward, nor past a waiting event.
LEMMA TimelyStep ==
    ASSUME NoWrap, IInv, [Next]_vars
    PROVE  Timely'
<1>0. TypeOK /\ Keys /\ Queues /\ ListPlaced /\ Timely
  BY DEF IInv, Placed
\* Nothing comes to wait or run, and what goes does not matter.
<1>k. ASSUME UNCHANGED <<currentTs, currentUid, ran>>, gone \subseteq gone',
             cancelled \subseteq cancelled', events' \subseteq events,
             pc \in {"dispose", "disposed"} => pc' \in {"dispose", "disposed"},
             \A f \in events \cup gone : key'[f] = key[f],
             \A f \in gone' \ gone : Inserted(f)' =>
                f \in cancelled' \/ pc' \in {"dispose", "disposed"}
      PROVE  Timely'
  BY <1>0, <1>k DEF Timely, AfterNow, Inserted
\* Event e is inserted.
<1>i. ASSUME NEW e \in Event, e \notin gone, AfterNow(e)',
             events' = events \cup {e},
             UNCHANGED <<currentTs, currentUid, ran, gone, cancelled, pc>>,
             \A f \in Event : f # e => key'[f] = key[f]
      PROVE  Timely'
  <2>1. events \subseteq Event /\ gone \subseteq Event
    BY <1>0 DEF TypeOK
  <2> QED BY <1>0, <1>i, <2>1 DEF Timely, AfterNow, Inserted
<1>1. CASE Quiet \/ UNCHANGED vars
  <2>1. UNCHANGED <<currentTs, currentUid, ran, gone, cancelled, events, key>>
    BY <1>1, QuietChanges DEF now, list, history, lives, vars
  <2>2. pc \in {"dispose", "disposed"} => pc' \in {"dispose", "disposed"}
    BY <1>1 DEF Quiet, Stop, Run, Destroy, CheckFlag, DrainDone, ClearStop,
         RunReturns, BeginDispose, Disposed, HandlerStep, HandlerReturns,
         DestroyHandlerReturns, control, vars, UserCode
  <2> QED BY <1>k, <2>1, <2>2
<1>2. ASSUME NEW kind \in Main, NEW delay \in Nat, NEW context \in Context,
             ScheduleAt(kind, delay, context)
      PROVE Timely'
  <2>1. PICK e \in Event : WasScheduled(e, kind, delay, context)
    BY <1>2, ScheduleChanges
  <2>2. e \notin gone
    BY <2>1, FreshEvent DEF WasScheduled
  <2>3. AfterNow(e)'
    BY <1>0, <2>1, InsertedAfterNow DEF WasScheduled
  <2> QED BY <1>i, <2>1, <2>2, <2>3 DEF WasScheduled
<1>3. CASE ScheduleDestroy
  <2>1. PICK e \in Event : WasScheduledDestroy(e)
    BY <1>3, ScheduleDestroyChanges
  <2>2. e \notin gone /\ e \notin events
    BY <2>1, FreshEvent DEF WasScheduledDestroy
  <2>3. \A f \in events \cup gone : key'[f] = key[f]
    BY <1>0, <2>1, <2>2 DEF WasScheduledDestroy, TypeOK
  <2> QED BY <1>k, <2>1, <2>3 DEF WasScheduledDestroy
<1>4. ASSUME NEW delay \in Nat, NEW context \in Context,
             InjectWithContext(context, delay)
      PROVE Timely'
  <2>1. PICK e \in Event : WasInjected(e, delay, context)
    BY <1>4, InjectChanges
  <2> QED BY <1>k, <2>1 DEF WasInjected
<1>5. ASSUME NEW e \in Event, Cancel(e) \/ RemoveExpired(e) PROVE Timely'
  <2>1. /\ UNCHANGED <<currentTs, currentUid, ran, gone, events, key, pc>>
        /\ cancelled \subseteq cancelled'
    BY <1>5 DEF Cancel, RemoveExpired, Revoke, now, list, control
  <2> QED BY <1>k, <2>1
<1>6. ASSUME NEW e \in Event, RemoveEvent(e) PROVE Timely'
  <2>1. /\ UNCHANGED <<currentTs, currentUid, ran, key, pc>>
        /\ events' = events \ {e} /\ gone' = gone \cup {e}
        /\ cancelled' = cancelled \cup {e}
    BY <1>6 DEF RemoveEvent, Revoke, now, control
  <2> QED BY <1>k, <2>1
<1>7. ASSUME NEW e \in Event, RemoveDestroyEvent(e) PROVE Timely'
  <2>1. /\ UNCHANGED <<currentTs, currentUid, ran, events, key, pc, cancelled>>
        /\ gone' = gone \cup {e} /\ key[e].uid = DestroyUid
    BY <1>7 DEF RemoveDestroyEvent, Revoke, now, list, control
  <2>2. ~Inserted(e)'
    BY <2>1 DEF Inserted, DestroyUid, FirstUid
  <2> QED BY <1>k, <2>1, <2>2
<1>8. CASE SwapQueues
  BY <1>8, <1>k, SwapChanges
<1>9. CASE InsertSwapped
  <2>1. PICK e \in Event : WasDrained(e)
    BY <1>9, InsertSwappedChanges
  <2>2. 1 \in 1..Len(swapped)
    BY <1>0, <2>1 DEF WasDrained, TypeOK
  <2>3. req[e].kind = "thread" /\ key[e].uid = InvalidUid
    BY <1>0, <2>1, <2>2 DEF WasDrained, Queues, InjectedQueues
  <2>4. e \notin gone
    BY <1>0, <2>3 DEF ListPlaced, Inserted, InvalidUid, FirstUid
  <2>5. AfterNow(e)'
    BY <1>0, <2>1, InsertedAfterNow DEF WasDrained
  <2> QED BY <1>i, <2>1, <2>4, <2>5 DEF WasDrained
<1>10. ASSUME NEW e \in Event, ProcessOneEvent(e) PROVE Timely'
  <2>1. WasTaken(e)
    BY <1>10, TakeChanges
  <2>2. e \in events /\ AfterNow(e) /\ Inserted(e) /\ e \notin gone
    BY <1>0, <2>1 DEF WasTaken, Timely, ListPlaced
  <2>3. /\ currentTs \in Nat /\ currentUid \in Nat
        /\ \A f \in Event : key[f].ts \in Nat /\ key[f].uid \in Nat
        /\ events \subseteq Event /\ gone \subseteq Event
    BY <1>0 DEF TypeOK, Key
  <2>4. ASSUME NEW f \in events, f # e PROVE AfterNow(f)'
    <3>1. key[f].uid # key[e].uid
      BY <1>0, <2>2, <2>3, <2>4 DEF Keys, Inserted
    <3>2. ~Less(key[f], key[e])
      BY <2>1 DEF WasTaken
    <3>3. key[e].ts < key[f].ts \/ (key[f].ts = key[e].ts /\ key[f].uid > key[e].uid)
      BY <2>2, <2>3, <2>4, <3>1, <3>2 DEF Less
    <3> QED BY <2>1, <2>3, <3>3 DEF WasTaken, AfterNow
  <2>5. ASSUME NEW f \in Event, ~AfterNow(f) PROVE ~AfterNow(f)'
    BY <2>1, <2>2, <2>3, <2>5 DEF WasTaken, AfterNow
  <2>6. ~AfterNow(e)'
    BY <2>1, <2>3 DEF WasTaken, AfterNow
  <2>7. /\ key' = key /\ gone' = gone \cup {e} /\ cancelled' = cancelled
        /\ events' = events \ {e} /\ ran' \subseteq ran \cup {e}
        /\ pc \notin {"dispose", "disposed"}
    BY <2>1 DEF WasTaken
  <2>8. \A f \in events' : AfterNow(f)'
    BY <2>4, <2>7
  <2>9. ran' \subseteq gone'
    BY <1>0, <2>7 DEF Timely
  <2>10. \A f \in ran' : Inserted(f)' => ~AfterNow(f)'
    BY <1>0, <2>3, <2>5, <2>6, <2>7 DEF Timely, Inserted
  <2>11. \A f \in gone' : Inserted(f)' => f \in cancelled' \/ ~AfterNow(f)'
    BY <1>0, <2>3, <2>5, <2>6, <2>7 DEF Timely, Inserted
  <2> QED BY <2>8, <2>9, <2>10, <2>11 DEF Timely
<1>11. ASSUME NEW e \in Event, DisposeEvent(e) PROVE Timely'
  <2>1. WasDisposed(e)
    BY <1>11, DisposeChanges
  <2> QED BY <1>k, <2>1 DEF WasDisposed
<1>12. CASE ProcessDestroyEvent
  <2>1. PICK e \in Event : DestroyEventTaken(e)
    BY <1>0, <1>12, DestroyEventChanges
  <2>2. 1 \in 1..Len(destroyEvents)
    BY <1>0, <2>1 DEF DestroyEventTaken, TypeOK
  <2>3. req[e].kind = "destroy"
    BY <1>0, <2>1, <2>2 DEF DestroyEventTaken, Queues, DestroyQueue
  <2>4. ~Inserted(e)
    BY <1>0, <2>3 DEF Keys, KeyOf, Inserted, DestroyUid, FirstUid
  <2>5. /\ UNCHANGED <<currentTs, currentUid, key, events, cancelled>>
        /\ gone' = gone \cup {e} /\ ran' \subseteq ran \cup {e}
        /\ pc = "destroy"
    BY <2>1 DEF DestroyEventTaken
  <2> QED BY <1>0, <2>4, <2>5 DEF Timely, AfterNow, Inserted
<1> QED
  BY <1>1, <1>2, <1>3, <1>4, <1>5, <1>6, <1>7, <1>8, <1>9, <1>10, <1>11, <1>12,
     StepCases

\* Order and time stamps are kept while the requests and keys they relate do
\* not change and time does not go back.
LEMMA OrderedKept ==
    ASSUME TypeOK, Ordered, currentTs' \in Nat, currentTs' >= currentTs,
           \A f \in Event : req'[f].kind \in Main \cup {"thread"} =>
              req'[f] = req[f] /\ key'[f] = key[f]
    PROVE  Ordered'
<1>1. /\ currentTs \in Nat
      /\ \A f \in Event : req[f].delay \in Nat /\ key[f].ts \in Nat
  BY DEF TypeOK, Req, Key
<1>2. \A e \in Event : req'[e].kind \in Main => key'[e].ts = Due(e)'
  BY DEF Ordered, Due
<1>3. \A e \in Event : req'[e].kind = "thread" /\ Inserted(e)' =>
          key'[e].ts <= currentTs' + req'[e].delay
  BY <1>1 DEF Ordered, Inserted
<1>4. ASSUME NEW e \in Event, NEW f \in Event, e < f,
             req'[e].kind \in Main, req'[f].kind \in Main
      PROVE  key'[e].uid < key'[f].uid
  BY <1>4 DEF Ordered
<1>5. ASSUME NEW e \in Event, NEW f \in Event, e < f, Inserted(f)',
             req'[e].kind = "thread", req'[f].kind = "thread"
      PROVE  /\ Inserted(e)' /\ key'[e].uid < key'[f].uid
             /\ key'[e].ts + req'[f].delay <= key'[f].ts + req'[e].delay
  BY <1>5 DEF Ordered, Inserted
<1> QED BY <1>2, <1>3, <1>4, <1>5 DEF Ordered

\* Every step keeps Ordered: a later call gets a later uid.
LEMMA OrderedStep ==
    ASSUME NoWrap, IInv, [Next]_vars
    PROVE  Ordered'
<1>0. TypeOK /\ Keys /\ Queues /\ Placed /\ Timely /\ Ordered
  BY DEF IInv
<1>n. /\ currentTs \in Nat /\ uid \in Nat
      /\ \A f \in Event : /\ f \in Nat /\ req[f].delay \in Nat
                            /\ key[f].ts \in Nat /\ key[f].uid \in Nat
  BY <1>0, KernelAssumption DEF TypeOK, Event, Req, Key
<1>k. ASSUME UNCHANGED currentTs,
           \A f \in Event : req'[f].kind \in Main \cup {"thread"} =>
              req'[f] = req[f] /\ key'[f] = key[f]
      PROVE  Ordered'
  BY <1>0, <1>n, <1>k, OrderedKept
<1>1. CASE UNCHANGED <<now, list, destroyEvents, cancelled, injected, swapped, lives>>
  BY <1>1, <1>k DEF now, list, lives
<1>2. ASSUME NEW kind \in Main, NEW delay \in Nat, NEW context \in Context,
             ScheduleAt(kind, delay, context)
      PROVE Ordered'
  <2>1. PICK e \in Event : WasScheduled(e, kind, delay, context)
    BY <1>2, ScheduleChanges
  <2>2. \A f \in Event : req[f].kind # "none" => f < e
    BY <2>1, FreshEvent DEF WasScheduled
  <2>3. /\ req'[e].kind \in Main /\ req'[e].kind # "thread"
        /\ key'[e].ts = Due(e)' /\ key'[e].uid = uid
        /\ \A f \in Event : f # e => req'[f] = req[f] /\ key'[f] = key[f]
        /\ currentTs' = currentTs
    BY <2>1 DEF WasScheduled, Due, Main
  <2>4. \A f \in Event : f # e => Due(f)' = Due(f) /\ (Inserted(f)' <=> Inserted(f))
    BY <2>3 DEF Due, Inserted
  <2>5. \A f \in Event : req'[f].kind \in Main => key'[f].ts = Due(f)'
    BY <1>0, <2>3, <2>4 DEF Ordered
  <2>6. \A f \in Event : req'[f].kind = "thread" /\ Inserted(f)' =>
            key'[f].ts <= currentTs' + req'[f].delay
    BY <1>0, <2>3, <2>4 DEF Ordered
  <2>7. ASSUME NEW f \in Event, NEW g \in Event, f < g,
               req'[f].kind \in Main, req'[g].kind \in Main
        PROVE  key'[f].uid < key'[g].uid
    <3>1. CASE f = e
      <4>1. g # e /\ req[g].kind # "none"
        BY <1>n, <2>3, <2>7, <3>1 DEF Main
      <4> QED BY <1>n, <2>2, <2>7, <3>1, <4>1
    <3>2. CASE f # e /\ g = e
      <4>1. Inserted(f) /\ key[f].uid < uid
        BY <1>0, <2>3, <2>7, <3>2 DEF Keys, KeyOf
      <4> QED BY <2>3, <3>2, <4>1
    <3>3. CASE f # e /\ g # e
      BY <1>0, <2>3, <2>7, <3>3 DEF Ordered
    <3> QED BY <3>1, <3>2, <3>3
  <2>8. ASSUME NEW f \in Event, NEW g \in Event, f < g, Inserted(g)',
               req'[f].kind = "thread", req'[g].kind = "thread"
        PROVE  /\ Inserted(f)' /\ key'[f].uid < key'[g].uid
               /\ key'[f].ts + req'[g].delay <= key'[g].ts + req'[f].delay
    <3>1. f # e /\ g # e
      BY <2>3, <2>8
    <3> QED BY <1>0, <2>3, <2>4, <2>8, <3>1 DEF Ordered
  <2> QED BY <2>5, <2>6, <2>7, <2>8 DEF Ordered
<1>3. CASE ScheduleDestroy
  <2>1. PICK e \in Event : WasScheduledDestroy(e)
    BY <1>3, ScheduleDestroyChanges
  <2> QED BY <1>k, <2>1 DEF WasScheduledDestroy, Main
<1>4. ASSUME NEW delay \in Nat, NEW context \in Context,
             InjectWithContext(context, delay)
      PROVE Ordered'
  <2>1. PICK e \in Event : WasInjected(e, delay, context)
    BY <1>4, InjectChanges
  <2>2. /\ \A f \in Event : req[f].kind # "none" => f < e
        /\ key[e].uid = InvalidUid
    BY <2>1, FreshEvent DEF WasInjected
  <2>3. /\ UNCHANGED <<key, currentTs>> /\ req'[e].kind = "thread"
        /\ \A f \in Event : f # e => req'[f] = req[f]
    BY <2>1 DEF WasInjected
  <2>4. ~Inserted(e)' /\ "thread" \notin Main
    BY <2>2, <2>3 DEF Inserted, InvalidUid, FirstUid, Main
  <2>5. \A f \in Event : Inserted(f)' <=> Inserted(f)
    BY <2>3 DEF Inserted
  <2>6. \A f \in Event : f # e => Due(f)' = Due(f)
    BY <2>3 DEF Due
  <2>7. /\ \A f \in Event : req'[f].kind \in Main => key'[f].ts = Due(f)'
        /\ \A f \in Event : req'[f].kind = "thread" /\ Inserted(f)' =>
              key'[f].ts <= currentTs' + req'[f].delay
        /\ \A f, g \in Event :
              req'[f].kind \in Main /\ req'[g].kind \in Main /\ f < g =>
                 key'[f].uid < key'[g].uid
    BY <1>0, <2>3, <2>4, <2>5, <2>6 DEF Ordered
  <2>8. ASSUME NEW f \in Event, NEW g \in Event, f < g, Inserted(g)',
               req'[f].kind = "thread", req'[g].kind = "thread"
        PROVE  /\ Inserted(f)' /\ key'[f].uid < key'[g].uid
               /\ key'[f].ts + req'[g].delay <= key'[g].ts + req'[f].delay
    <3>1. g # e
      BY <2>4, <2>8
    <3>2. g < e
      BY <2>2, <2>3, <2>8, <3>1
    <3>3. f # e
      BY <1>n, <2>8, <3>2
    <3> QED BY <1>0, <2>3, <2>5, <2>8, <3>1, <3>3 DEF Ordered
  <2> QED BY <2>7, <2>8 DEF Ordered
<1>5. ASSUME NEW e \in Event, \/ Cancel(e) \/ RemoveExpired(e)
                              \/ RemoveEvent(e) \/ RemoveDestroyEvent(e)
      PROVE Ordered'
  BY <1>5, <1>k, RevokeChanges DEF WasRevoked
<1>6. CASE SwapQueues
  BY <1>6, <1>k, SwapChanges
<1>7. CASE InsertSwapped
  <2>1. PICK e \in Event : WasDrained(e)
    BY <1>7, InsertSwappedChanges
  <2>2. /\ Len(swapped) \in Nat /\ 1 \in 1..Len(swapped) /\ e = swapped[1]
        /\ \A i \in 1..Len(swapped) : i = 1 \/ 1 < i
    BY <1>0, <2>1 DEF WasDrained, TypeOK
  <2>3. req[e].kind = "thread" /\ key[e].uid = InvalidUid
    BY <1>0, <2>2 DEF Queues, InjectedQueues
  <2>4. ~Inserted(e) /\ "thread" \notin Main
    BY <2>3 DEF Inserted, InvalidUid, FirstUid, Main
  <2>5. /\ key'[e].ts = currentTs + req[e].delay /\ key'[e].uid = uid
        /\ \A f \in Event : f # e => key'[f] = key[f]
        /\ UNCHANGED <<req, currentTs>>
    BY <2>1 DEF WasDrained
  <2>6. \A f \in Event : f # e => (Inserted(f)' <=> Inserted(f))
    BY <2>5 DEF Inserted
  <2>7. \A f \in Event : Due(f)' = Due(f)
    BY <2>5 DEF Due
  <2>8. /\ \A f \in Event : req'[f].kind \in Main => key'[f].ts = Due(f)'
        /\ \A f, g \in Event :
              req'[f].kind \in Main /\ req'[g].kind \in Main /\ f < g =>
                 key'[f].uid < key'[g].uid
    BY <1>0, <2>3, <2>4, <2>5, <2>7 DEF Ordered
  <2>9. ASSUME NEW f \in Event, req'[f].kind = "thread", Inserted(f)'
        PROVE  key'[f].ts <= currentTs' + req'[f].delay
    <3>1. CASE f = e
      BY <1>n, <2>5, <3>1
    <3>2. CASE f # e
      BY <1>0, <2>5, <2>6, <2>9, <3>2 DEF Ordered
    <3> QED BY <3>1, <3>2
  <2>10. ASSUME NEW f \in Event, NEW g \in Event, f < g, Inserted(g)',
                req'[f].kind = "thread", req'[g].kind = "thread"
         PROVE  /\ Inserted(f)' /\ key'[f].uid < key'[g].uid
                /\ key'[f].ts + req'[g].delay <= key'[g].ts + req'[f].delay
    <3>1. CASE g = e
      <4>1. f # e
        BY <1>n, <2>10, <3>1
      <4>2. Inserted(f)
        <5> SUFFICES ASSUME ~Inserted(f) PROVE FALSE
          OBVIOUS
        <5>1. req[f].kind = "thread"
          BY <2>5, <2>10
        <5>2. CASE \E i \in 1..Len(eventsWithContext) : eventsWithContext[i] = f
          <6>1. e < f
            BY <1>0, <2>2, <5>2 DEF Queues, InjectedQueues
          <6> QED BY <1>n, <2>10, <3>1, <6>1
        <5>3. CASE \E i \in 1..Len(swapped) : swapped[i] = f
          <6>1. e = f \/ e < f
            BY <1>0, <2>2, <5>3 DEF Queues, InjectedQueues
          <6> QED BY <1>n, <2>10, <3>1, <6>1
        <5> QED BY <1>0, <5>1, <5>2, <5>3 DEF Placed, InjectedPlaced
      <4>3. key[f].ts <= currentTs + req[f].delay
        BY <1>0, <2>5, <2>10, <4>2 DEF Ordered
      <4>4. key[f].uid < uid
        BY <1>0, <4>2 DEF Keys, KeyOf
      <4>5. key[f].ts + req[g].delay <= (currentTs + req[g].delay) + req[f].delay
        BY <1>n, <4>3
      <4> QED BY <2>5, <2>6, <3>1, <4>1, <4>2, <4>4, <4>5
    <3>2. CASE g # e
      <4>1. Inserted(g) /\ req[f].kind = "thread" /\ req[g].kind = "thread"
        BY <2>5, <2>6, <2>10, <3>2
      <4>2. /\ Inserted(f) /\ key[f].uid < key[g].uid
            /\ key[f].ts + req[g].delay <= key[g].ts + req[f].delay
        BY <1>0, <2>10, <4>1 DEF Ordered
      <4>3. f # e
        BY <2>4, <4>2
      <4> QED BY <2>5, <2>6, <3>2, <4>2, <4>3
    <3> QED BY <3>1, <3>2
  <2> QED BY <2>8, <2>9, <2>10 DEF Ordered
<1>8. ASSUME NEW e \in Event, ProcessOneEvent(e) PROVE Ordered'
  <2>1. WasTaken(e)
    BY <1>8, TakeChanges
  <2>2. AfterNow(e)
    BY <1>0, <2>1 DEF WasTaken, Timely
  <2>3. currentTs' \in Nat /\ currentTs' >= currentTs
    BY <1>n, <2>1, <2>2 DEF WasTaken, AfterNow
  <2>4. UNCHANGED <<req, key>>
    BY <2>1 DEF WasTaken
  <2> QED BY <1>0, <2>3, <2>4, OrderedKept
<1>9. ASSUME NEW e \in Event, DisposeEvent(e) PROVE Ordered'
  BY <1>9, <1>k, DisposeChanges DEF WasDisposed
<1>10. CASE ProcessDestroyEvent
  <2>1. PICK e \in Event : DestroyEventTaken(e)
    BY <1>0, <1>10, DestroyEventChanges
  <2> QED BY <1>k, <2>1 DEF DestroyEventTaken
<1> QED
  BY <1>1, <1>2, <1>3, <1>4, <1>5, <1>6, <1>7, <1>8, <1>9, <1>10, StepCases

\* The caller's id of a destroy event is expired exactly when the event is
\* cancelled or no longer in the list of destroy events.
LEMMA HeldDestroyEvents ==
    ASSUME IInv, NEW e \in 1..created, Held(e), key[e].uid = DestroyUid
    PROVE  /\ e \in gone <=> e \notin Range(destroyEvents)
           /\ IsExpired(e) <=> e \in gone \cup cancelled
<1>0. TypeOK /\ Keys /\ DestroyQueue /\ DestroyPlaced
  BY DEF IInv, Queues, Placed
<1>1. e \in Event
  BY <1>0, KernelAssumption DEF TypeOK, Event
<1>2. req[e].kind = "destroy"
  BY <1>0, <1>1 DEF Keys, KeyOf, Held, Main, Inserted, DestroyUid, FirstUid
<1>3. DOMAIN destroyEvents = 1..Len(destroyEvents)
  BY <1>0 DEF TypeOK
<1>4. e \in gone => e \notin Range(destroyEvents)
  BY <1>0, <1>3 DEF DestroyQueue, Range
<1>5. e \notin gone => e \in Range(destroyEvents)
  BY <1>0, <1>1, <1>2, <1>3 DEF DestroyPlaced, Range
<1> QED BY <1>4, <1>5 DEF IsExpired

\* Every step keeps Revoked: what was cancelled or removed in time is not run.
LEMMA RevokedStep ==
    ASSUME NoWrap, IInv, [Next]_vars
    PROVE  Revoked'
<1>0. TypeOK /\ Keys /\ Queues /\ ListPlaced /\ Timely /\ Revoked
  BY DEF IInv, Placed
<1>k. ASSUME UNCHANGED <<revoked, ran>>, gone \subseteq gone', cancelled \subseteq cancelled'
      PROVE  Revoked'
  BY <1>0, <1>k DEF Revoked
\* Event e goes, having run if it was not cancelled.
<1>t. ASSUME NEW e, e \notin gone, gone' = gone \cup {e},
             ran' = ran \/ (ran' = ran \cup {e} /\ e \notin cancelled),
             UNCHANGED <<revoked, cancelled>>
      PROVE  Revoked'
  BY <1>0, <1>t DEF Revoked
<1>1. CASE UNCHANGED <<now, list, destroyEvents, cancelled, injected, swapped, lives>>
  BY <1>1, <1>k DEF lives
<1>2. ASSUME NEW kind \in Main, NEW delay \in Nat, NEW context \in Context,
             ScheduleAt(kind, delay, context)
      PROVE Revoked'
  BY <1>2, <1>k DEF ScheduleAt, Create
<1>3. CASE ScheduleDestroy
  BY <1>3, <1>k DEF ScheduleDestroy, Create
<1>4. ASSUME NEW delay \in Nat, NEW context \in Context,
             InjectWithContext(context, delay)
      PROVE Revoked'
  BY <1>4, <1>k DEF InjectWithContext, Create
<1>5. ASSUME NEW e \in Event, \/ Cancel(e) \/ RemoveExpired(e)
                              \/ RemoveEvent(e) \/ RemoveDestroyEvent(e)
      PROVE Revoked'
  <2>1. WasRevoked(e)
    BY <1>5, RevokeChanges
  <2>2. UserCode /\ e \in 1..created /\ Held(e)
    BY <2>1 DEF WasRevoked, UserCode
  <2>3. IsExpired(e) => e \in gone \cup cancelled
    BY <2>2, HeldEvents, HeldDestroyEvents
  <2>4. e \in gone' \cup cancelled'
    <3>1. CASE Cancel(e)
      BY <2>3, <3>1 DEF Cancel
    <3>2. CASE RemoveExpired(e)
      BY <2>2, <2>3, <3>2, HeldDestroyEvents DEF RemoveExpired
    <3>3. CASE RemoveEvent(e)
      BY <3>3 DEF RemoveEvent
    <3>4. CASE RemoveDestroyEvent(e)
      BY <3>4 DEF RemoveDestroyEvent
    <3> QED BY <1>5, <3>1, <3>2, <3>3, <3>4
  <2>5. e \notin gone => e \notin ran
    BY <1>0 DEF Timely
  <2> QED BY <1>0, <2>1, <2>4, <2>5 DEF WasRevoked, Revoked
<1>6. CASE SwapQueues
  BY <1>6, <1>k, SwapChanges
<1>7. CASE InsertSwapped
  <2>1. PICK e \in Event : WasDrained(e)
    BY <1>7, InsertSwappedChanges
  <2> QED BY <1>k, <2>1 DEF WasDrained
<1>8. ASSUME NEW e \in Event, ProcessOneEvent(e) PROVE Revoked'
  <2>1. WasTaken(e)
    BY <1>8, TakeChanges
  <2>2. e \notin gone
    BY <1>0, <2>1 DEF WasTaken, ListPlaced
  <2> QED BY <1>t, <2>1, <2>2 DEF WasTaken
<1>9. ASSUME NEW e \in Event, DisposeEvent(e) PROVE Revoked'
  <2>1. WasDisposed(e)
    BY <1>9, DisposeChanges
  <2> QED BY <1>k, <2>1 DEF WasDisposed
<1>10. CASE ProcessDestroyEvent
  <2>1. PICK e \in Event : DestroyEventTaken(e)
    BY <1>0, <1>10, DestroyEventChanges
  <2>2. 1 \in 1..Len(destroyEvents)
    BY <1>0, <2>1 DEF DestroyEventTaken, TypeOK
  <2>3. e \notin gone
    BY <1>0, <2>1, <2>2 DEF DestroyEventTaken, Queues, DestroyQueue
  <2> QED BY <1>t, <2>1, <2>3 DEF DestroyEventTaken
<1> QED
  BY <1>1, <1>2, <1>3, <1>4, <1>5, <1>6, <1>7, <1>8, <1>9, <1>10, StepCases
-----------------------------------------------------------------------------
(***************************************************************************)
(* The invariant, and what follows from it.                                *)
(***************************************************************************)
LEMMA InitIInv == Init => IInv
<1> SUFFICES ASSUME Init PROVE IInv
  OBVIOUS
<1> USE DEF Init, NoKey, NoReq, InvalidUid, FirstUid
<1>1. TypeOK
  <2>1. NoKey \in Key /\ NoReq \in Req
    BY DEF Key, Req, Context
  <2>2. key \in [Event -> Key] /\ req \in [Event -> Req]
    BY <2>1, Zenon
  <2>3. <<>> \in Seq(Event)
    OBVIOUS
  <2>4. uid \in 0..(UidSpace - 1) /\ created \in 0..MaxEvents
    BY KernelAssumption
  <2> QED BY <2>2, <2>3, <2>4 DEF TypeOK, Context, PC, NoEvent
<1>2. Len(<<>>) = 0 /\ 1..0 = {} /\ "none" \notin Main
  BY DEF Main
<1>3. \A e \in Event : ~Inserted(e) /\ req[e].kind = "none" /\ e > created
  BY KernelAssumption DEF Inserted, Event
<1>4. Control
  BY DEF Control, FlagTracksQueue
<1>5. Keys
  BY <1>2, <1>3 DEF Keys, KeyOf
<1>6. Queues /\ Placed
  BY <1>2, <1>3 DEF Queues, DestroyQueue, InjectedQueues, Placed, ListPlaced,
                    DestroyPlaced, InjectedPlaced
<1>7. CountsEvents
  BY FS_EmptySet DEF CountsEvents
<1>8. Timely /\ Revoked
  BY DEF Timely, Revoked
<1>9. Ordered
  BY <1>2, <1>3 DEF Ordered
<1> QED BY <1>1, <1>4, <1>5, <1>6, <1>7, <1>8, <1>9 DEF IInv

\* Every step keeps the inductive invariant.
LEMMA StepIInv ==
    ASSUME NoWrap, IInv, [Next]_vars
    PROVE  IInv'
<1>1. Queues'
  BY DestroyQueueStep, InjectedQueuesStep DEF Queues
<1>2. Placed'
  BY ListPlacedStep, DestroyPlacedStep, InjectedPlacedStep DEF Placed
<1> QED BY <1>1, <1>2, TypeStep, ControlStep, KeysStep, CountStep, TimelyStep,
           OrderedStep, RevokedStep DEF IInv

\* The invariant holds throughout, if m_uid never wraps.
THEOREM Invariance == ASSUME NoWrap PROVE Spec => []IInv
<1>1. IInv /\ [Next]_vars => IInv'
  BY StepIInv
<1> QED BY <1>1, InitIInv, PTL DEF Spec

\* The kernel's state keeps its types: the counter is never negative, whatever
\* is cancelled or removed, and m_uid stays in range.
THEOREM TypeCorrect == ASSUME NoWrap PROVE Spec => []TypeOK
<1>1. IInv => TypeOK
  BY DEF IInv
<1> QED BY <1>1, Invariance, PTL

\* m_unscheduledEvents counts the event list until DoDispose, so the assertion
\* at the end of Run holds.
THEOREM CounterExact == ASSUME NoWrap PROVE Spec => []CountsEvents
<1>1. IInv => CountsEvents
  BY DEF IInv
<1> QED BY <1>1, Invariance, PTL

\* The flag that is read without the mutex always tells whether the queue of
\* injected events is empty.
THEOREM FlagCorrect == ASSUME NoWrap PROVE Spec => []FlagTracksQueue
<1>1. IInv => FlagTracksQueue
  BY DEF IInv, Control
<1> QED BY <1>1, Invariance, PTL

\* An event cancelled or removed while it waited never runs.
THEOREM RevocationHolds == ASSUME NoWrap PROVE Spec => []RevokedNeverRuns
<1>1. IInv => RevokedNeverRuns
  BY DEF IInv, Revoked, RevokedNeverRuns
<1> QED BY <1>1, Invariance, PTL

\* IsExpired says of every id, at every moment user code runs, exactly whether
\* its event was taken, removed or cancelled.
THEOREM ExpiryExact == ASSUME NoWrap PROVE Spec => []ExpiredIsSettled
<1>1. ASSUME IInv PROVE ExpiredIsSettled
  <2> SUFFICES ASSUME UserCode, NEW e \in 1..created, Held(e)
               PROVE  IsExpired(e) <=> e \in gone \cup cancelled
    BY DEF ExpiredIsSettled
  <2>1. CASE key[e].uid = DestroyUid
    BY <1>1, <2>1, HeldDestroyEvents
  <2>2. CASE key[e].uid # DestroyUid
    <3>1. IsExpired(e) => e \in gone \cup cancelled
      BY <1>1, <2>2, HeldEvents
    <3>2. e \in cancelled => IsExpired(e)
      BY DEF IsExpired
    <3>3. ~IsExpired(e) => e \notin gone
      BY <1>1, <2>2, HeldEvents DEF IInv, Placed, ListPlaced
    <3> QED BY <3>1, <3>2, <3>3
  <2> QED BY <2>1, <2>2
<1>2. IInv => ExpiredIsSettled
  BY <1>1
<1> QED BY <1>2, Invariance, PTL

\* While an event of the caller waits, GetDelayLeft is the time that is left.
THEOREM DelayLeftCorrect == ASSUME NoWrap PROVE Spec => []DelayLeftExact
<1>1. ASSUME IInv PROVE DelayLeftExact
  <2> SUFFICES ASSUME UserCode, NEW e \in events, req[e].kind = "schedule",
                      e \notin cancelled
               PROVE  GetDelayLeft(e) = Due(e) - currentTs
    BY DEF DelayLeftExact
  <2>1. /\ e \in Event /\ AfterNow(e) /\ Inserted(e)
        /\ currentTs \in Nat /\ currentUid \in Nat
        /\ key[e].ts \in Nat /\ key[e].uid \in Nat
    BY <1>1 DEF IInv, TypeOK, Timely, Placed, ListPlaced, Key
  <2>2. key[e].uid # DestroyUid
    BY <2>1 DEF Inserted, FirstUid, DestroyUid
  <2>3. ~IsExpired(e)
    BY <2>1, <2>2 DEF IsExpired, AfterNow
  <2>4. key[e].ts = Due(e)
    BY <1>1, <2>1 DEF IInv, Ordered, Main
  <2> QED BY <2>3, <2>4 DEF GetDelayLeft
<1>2. IInv => DelayLeftExact
  BY <1>1
<1> QED BY <1>2, Invariance, PTL

\* Of two due events, the uids decide as the order of the calls would.
LEMMA WaitingAfterRan ==
    ASSUME IInv, NEW e \in events, NEW r \in ran, Inserted(r)
    PROVE  Less(key[r], key[e])
<1>1. /\ e \in Event /\ r \in Event
      /\ currentTs \in Nat /\ currentUid \in Nat
      /\ key[e].ts \in Nat /\ key[e].uid \in Nat
      /\ key[r].ts \in Nat /\ key[r].uid \in Nat
  BY DEF IInv, TypeOK, Key
<1>2. AfterNow(e) /\ ~AfterNow(r)
  BY DEF IInv, Timely
<1> QED BY <1>1, <1>2 DEF AfterNow, Less

\* Events run in the order of their times and, for the same time, in the order
\* in which the program asked for them, with other threads injecting too.
THEOREM OrderCorrect == ASSUME NoWrap PROVE Spec => []ExecutionOrder
<1>1. ASSUME IInv PROVE ExecutionOrder
  <2> SUFFICES ASSUME NEW r \in ran, req[r].kind # "destroy",
                      NEW e \in events \cup Range(eventsWithContext) \cup Range(swapped),
                      MustPrecede(e, r)
               PROVE  FALSE
    BY DEF ExecutionOrder
  <2>1. TypeOK /\ Keys /\ InjectedQueues /\ ListPlaced /\ Timely /\ Ordered
    BY <1>1 DEF IInv, Queues, Placed
  <2>2. /\ DOMAIN eventsWithContext = 1..Len(eventsWithContext)
        /\ DOMAIN swapped = 1..Len(swapped)
    BY <2>1 DEF TypeOK
  <2>3. r \in Event /\ e \in Event
    BY <2>1, <2>2 DEF TypeOK, Range
  <2>4. Inserted(r) /\ req[r].kind # "none"
    BY <2>1, <2>3 DEF Timely, ListPlaced, Keys, KeyOf, Inserted, InvalidUid, FirstUid
  <2>5. e \in events \/ (req[e].kind = "thread" /\ ~Inserted(e))
    BY <2>1, <2>2 DEF InjectedQueues, Range, Inserted, InvalidUid, FirstUid
  <2>6. /\ key[e].ts \in Nat /\ key[e].uid \in Nat
        /\ key[r].ts \in Nat /\ key[r].uid \in Nat
        /\ req[e].delay \in Nat /\ req[r].delay \in Nat
        /\ req[e].kind \in Kind \cup {"none"} /\ req[r].kind \in Kind \cup {"none"}
    BY <2>1, <2>3 DEF TypeOK, Key, Req
  <2>7. e \in events => Less(key[r], key[e])
    BY <1>1, <2>4, WaitingAfterRan
  <2>8. CASE e \in events /\ key[e].ts < key[r].ts
    BY <2>6, <2>7, <2>8 DEF Less
  <2>9. CASE e < r /\ req[e].kind = "thread" /\ req[r].kind = "thread"
              /\ req[e].delay <= req[r].delay
    <3>1. /\ Inserted(e) /\ key[e].uid < key[r].uid
          /\ key[e].ts + req[r].delay <= key[r].ts + req[e].delay
      BY <2>1, <2>3, <2>4, <2>9 DEF Ordered
    <3>2. key[e].ts <= key[r].ts
      BY <2>6, <2>9, <3>1
    <3> QED BY <2>5, <2>6, <2>7, <3>1, <3>2 DEF Less
  <2>10. CASE e < r /\ req[e].kind # "thread" /\ req[r].kind # "thread"
               /\ Due(e) <= Due(r)
    <3>1. e \in events /\ Inserted(e)
      BY <2>1, <2>5, <2>10 DEF ListPlaced
    <3>2. req[e].kind \in Main /\ req[r].kind \in Main
      BY <2>1, <2>3, <2>4, <2>6, <2>10, <3>1
         DEF Keys, KeyOf, Inserted, InvalidUid, DestroyUid, FirstUid, Kind, Main
    <3>3. key[e].ts = Due(e) /\ key[r].ts = Due(r) /\ key[e].uid < key[r].uid
      BY <2>1, <2>3, <2>10, <3>2 DEF Ordered
    <3> QED BY <2>6, <2>7, <2>10, <3>1, <3>3 DEF Less
  <2> QED BY <2>8, <2>9, <2>10 DEF MustPrecede, SameCaller
<1>2. IInv => ExecutionOrder
  BY <1>1
<1> QED BY <1>2, Invariance, PTL

\* Every event the program created is in exactly one place: the list, one of
\* the three queues, or gone.  None is lost or held twice.
THEOREM EventsConserved == ASSUME NoWrap PROVE Spec => []Conserved
<1>1. ASSUME IInv PROVE Conserved
  <2>0. /\ TypeOK /\ Keys /\ DestroyQueue /\ InjectedQueues
        /\ ListPlaced /\ DestroyPlaced /\ InjectedPlaced
    BY <1>1 DEF IInv, Queues, Placed
  <2> DEFINE D == Range(destroyEvents)
             W == Range(eventsWithContext)
             S == Range(swapped)
  <2>1. /\ DOMAIN destroyEvents = 1..Len(destroyEvents)
        /\ DOMAIN eventsWithContext = 1..Len(eventsWithContext)
        /\ DOMAIN swapped = 1..Len(swapped)
        /\ \A i \in 1..Len(destroyEvents) : destroyEvents[i] \in Event
        /\ \A i \in 1..Len(eventsWithContext) : eventsWithContext[i] \in Event
        /\ \A i \in 1..Len(swapped) : swapped[i] \in Event
    BY <2>0 DEF TypeOK
  <2>2. D \subseteq Event /\ W \subseteq Event /\ S \subseteq Event
        /\ events \subseteq Event /\ gone \subseteq Event
    BY <2>0, <2>1 DEF Range, TypeOK
  <2>3. \A e \in D : req[e].kind = "destroy" /\ e \notin gone
    BY <2>0, <2>1 DEF DestroyQueue, Range
  <2>4. \A e \in W \cup S : req[e].kind = "thread" /\ key[e].uid = InvalidUid
    BY <2>0, <2>1 DEF InjectedQueues, Range
  <2>5. \A e \in W \cup S : ~Inserted(e) /\ e \notin gone
    BY <2>0, <2>4 DEF ListPlaced, Inserted, InvalidUid, FirstUid
  <2>6. \A e \in D : ~Inserted(e)
    BY <2>0, <2>2, <2>3 DEF Keys, KeyOf, Inserted, DestroyUid, FirstUid
  <2>7. \A e \in events : Inserted(e) /\ e \notin gone
    BY <2>0 DEF ListPlaced
  <2>8. W \cap S = {}
    <3>1. \A e \in Event : e \in Nat
      BY KernelAssumption DEF Event
    <3>2. \A i \in 1..Len(swapped), j \in 1..Len(eventsWithContext) :
             swapped[i] # eventsWithContext[j]
      BY <2>0, <2>1, <3>1 DEF InjectedQueues
    <3> QED BY <2>1, <3>2 DEF Range
  <2>9. \A e \in Event : req[e].kind # "none" =>
           e \in events \/ e \in D \/ e \in W \/ e \in S \/ e \in gone
    <3> SUFFICES ASSUME NEW e \in Event, req[e].kind # "none"
                 PROVE  e \in events \/ e \in D \/ e \in W \/ e \in S \/ e \in gone
      OBVIOUS
    <3>1. CASE Inserted(e)
      BY <2>0, <3>1 DEF ListPlaced
    <3>2. CASE req[e].kind = "destroy"
      BY <2>0, <2>1, <3>2 DEF DestroyPlaced, Range
    <3>3. CASE req[e].kind = "thread" /\ ~Inserted(e)
      BY <2>0, <2>1, <3>3 DEF InjectedPlaced, Range
    <3>4. req[e].kind \in Main => Inserted(e)
      BY <2>0 DEF Keys, KeyOf
    <3>5. req[e].kind \in Kind \cup {"none"}
      BY <2>0 DEF TypeOK, Req
    <3> QED BY <3>1, <3>2, <3>3, <3>4, <3>5 DEF Kind, Main
  <2>10. \A e \in Event : req[e].kind = "none" =>
            e \notin events /\ e \notin D /\ e \notin W /\ e \notin S /\ e \notin gone
    BY <2>0, <2>3, <2>4, <2>7
       DEF Keys, KeyOf, ListPlaced, Inserted, InvalidUid, FirstUid
  <2>11. \A e \in Event : e <= created <=> req[e].kind # "none"
    <3>1. created \in Nat /\ \A e \in Event : e \in Nat
      BY <2>0, KernelAssumption DEF TypeOK, Event
    <3> QED BY <2>0, <3>1 DEF Keys, KeyOf
  <2>12. /\ DOMAIN Places = {1, 2, 3, 4, 5}
         /\ Places[1] = events /\ Places[2] = D /\ Places[3] = W
         /\ Places[4] = S /\ Places[5] = gone
    BY DEF Places
  <2> HIDE DEF D, W, S
  <2>13. \A e \in Event : e <= created <=> \E i \in DOMAIN Places : e \in Places[i]
    BY <2>9, <2>10, <2>11, <2>12
  <2>14. /\ events \cap D = {} /\ events \cap W = {} /\ events \cap S = {}
         /\ events \cap gone = {} /\ D \cap W = {} /\ D \cap S = {}
         /\ D \cap gone = {} /\ W \cap gone = {} /\ S \cap gone = {}
    BY <2>3, <2>4, <2>5, <2>6, <2>7
  <2>15. \A i, j \in DOMAIN Places : i # j => Places[i] \cap Places[j] = {}
    BY <2>8, <2>12, <2>14
  <2>16. IsInjective(destroyEvents)
    BY <2>0, <2>1 DEF DestroyQueue, IsInjective
  <2>17. IsInjective(eventsWithContext) /\ IsInjective(swapped)
    <3>1. /\ \A e \in Event : e \in Nat
          /\ \A i \in 1..Len(eventsWithContext) : i \in Nat
          /\ \A i \in 1..Len(swapped) : i \in Nat
      BY KernelAssumption DEF Event
    <3>2. ASSUME NEW i \in 1..Len(eventsWithContext), NEW j \in 1..Len(eventsWithContext),
                 eventsWithContext[i] = eventsWithContext[j]
          PROVE  i = j
      BY <2>0, <2>1, <3>1, <3>2 DEF InjectedQueues
    <3>3. ASSUME NEW i \in 1..Len(swapped), NEW j \in 1..Len(swapped),
                 swapped[i] = swapped[j]
          PROVE  i = j
      BY <2>0, <2>1, <3>1, <3>3 DEF InjectedQueues
    <3> QED BY <2>1, <3>2, <3>3 DEF IsInjective
  <2> QED BY <2>13, <2>15, <2>16, <2>17 DEF Conserved
<1>2. IInv => Conserved
  BY <1>1
<1> QED BY <1>2, Invariance, PTL

\* In the drain, on behalf of whom ret says.
Draining == pc \in {"drain", "swap", "insert"}

\* From the call of Run to ClearStop no Stop was called since; from there on
\* m_stop says whether one was.
StopExact ==
    /\ pc = "run" \/ (Draining /\ ret = "run") => ~halted
    /\ pc \in {"loop", "event"} \/ (Draining /\ ret = "loop") =>
          (stop <=> halted)

\* Every step keeps StopExact.
LEMMA StopExactStep ==
    ASSUME TypeOK, StopExact, [Next]_vars
    PROVE  StopExact'
<1> USE DEF StopExact, Draining
\* The marks and the place of the main thread are left alone.
<1>k. ASSUME UNCHANGED <<stops, pc, ret>> PROVE StopExact'
  BY <1>k DEF stops
<1>1. CASE Quiet
  <2>1. CASE Stop
    BY <1>1, <2>1 DEF Stop, control, UserCode
  <2>2. CASE Run \/ ClearStop
    BY <2>2 DEF Run, ClearStop
  <2>3. CASE CheckFlag \/ DrainDone
    BY <2>3 DEF CheckFlag, DrainDone, stops, TypeOK
  <2>4. CASE Destroy \/ RunReturns \/ BeginDispose \/ Disposed
    BY <2>4 DEF Destroy, RunReturns, BeginDispose, Disposed, stops
  <2>5. CASE HandlerStep
    BY <2>5 DEF HandlerStep, HandlerReturns, DestroyHandlerReturns, stops
  <2> QED BY <1>1, <2>1, <2>2, <2>3, <2>4, <2>5 DEF Quiet
<1>2. ASSUME NEW kind, NEW delay, NEW context, ScheduleAt(kind, delay, context)
      PROVE  StopExact'
  BY <1>2, <1>k DEF ScheduleAt, control
<1>3. CASE ScheduleDestroy
  BY <1>3, <1>k DEF ScheduleDestroy, control
<1>4. ASSUME NEW delay, NEW context, InjectWithContext(context, delay)
      PROVE  StopExact'
  BY <1>4, <1>k DEF InjectWithContext, control
<1>5. ASSUME NEW e \in Event, \/ Cancel(e) \/ RemoveExpired(e)
                              \/ RemoveEvent(e) \/ RemoveDestroyEvent(e)
      PROVE  StopExact'
  BY <1>5, <1>k DEF Cancel, RemoveExpired, RemoveEvent, RemoveDestroyEvent, control
<1>6. CASE SwapQueues \/ InsertSwapped \/ ProcessDestroyEvent
  BY <1>6 DEF SwapQueues, InsertSwapped, ProcessDestroyEvent, stops
<1>7. ASSUME NEW e \in Event, ProcessOneEvent(e) PROVE StopExact'
  BY <1>7 DEF ProcessOneEvent, InvokeHandler, InvokeStop, SkipCancelled,
         TakeNext, stops
<1>8. ASSUME NEW e \in Event, DisposeEvent(e) PROVE StopExact'
  BY <1>8, <1>k DEF DisposeEvent, control
<1>9. CASE UNCHANGED vars
  BY <1>9, <1>k DEF vars, control
<1> QED
  BY <1>1, <1>2, <1>3, <1>4, <1>5, <1>6, <1>7, <1>8, <1>9, NextCases

\* StopExact holds in every reachable state.
LEMMA StopInvariance == ASSUME NoWrap PROVE Spec => []StopExact
<1>1. Init => StopExact
  BY DEF Init, StopExact, Draining
<1>2. IInv /\ StopExact /\ [Next]_vars => StopExact'
  BY StopExactStep DEF IInv
<1> QED BY <1>1, <1>2, Invariance, PTL DEF Spec

\* After Stop no handler of the event list runs until Run is called again.
THEOREM StopCorrect == ASSUME NoWrap PROVE Spec => StopHonoured
<1>1. ASSUME IInv, StopExact, [Next]_vars, halted, NEW e \in ran' \ ran
      PROVE  req[e].kind = "destroy"
  <2>1. CASE ran' = ran
    BY <1>1, <2>1
  <2>2. ASSUME NEW f \in Event, ProcessOneEvent(f) PROVE FALSE
    <3>1. pc = "loop" /\ ~stop
      BY <2>2 DEF ProcessOneEvent, InvokeHandler, InvokeStop, SkipCancelled, TakeNext
    <3> QED BY <1>1, <3>1 DEF StopExact
  <2>3. CASE ProcessDestroyEvent
    <3>1. PICK f \in Event : DestroyEventTaken(f)
      BY <1>1, <2>3, DestroyEventChanges DEF IInv
    <3>2. 1 \in 1..Len(destroyEvents) /\ f = destroyEvents[1] /\ e = f
      BY <1>1, <3>1 DEF DestroyEventTaken, IInv, TypeOK
    <3> QED BY <1>1, <3>2 DEF IInv, Queues, DestroyQueue
  <2>4. \A f \in Event : \/ Cancel(f) \/ RemoveExpired(f) \/ RemoveEvent(f)
                          \/ RemoveDestroyEvent(f) \/ DisposeEvent(f)
                         => ran' = ran
    BY RevokeChanges, DisposeChanges DEF WasRevoked, WasDisposed
  <2> QED
    BY <1>1, <2>1, <2>2, <2>3, <2>4, StepCases
       DEF ScheduleAt, ScheduleDestroy, InjectWithContext, Create, SwapQueues,
           InsertSwapped, history, lives
<1>2. IInv /\ StopExact /\ [Next]_vars =>
          [halted => \A e \in ran' \ ran : req[e].kind = "destroy"]_vars
  BY <1>1
<1> QED BY <1>2, Invariance, StopInvariance, PTL DEF Spec, StopHonoured

\* Only a Stop called in this Run ends it while events wait.
THEOREM RunCorrect == ASSUME NoWrap PROVE Spec => RunsUntilStopped
<1>1. ASSUME IInv, StopExact, Next, pc = "loop", pc' = "user"
      PROVE  events = {} \/ halted
  <2>1. RunReturns \/ ~Quiet
    BY <1>1 DEF Quiet, Stop, Run, Destroy, CheckFlag, DrainDone, ClearStop,
         BeginDispose, Disposed, HandlerStep, HandlerReturns,
         DestroyHandlerReturns, control
  <2>2. Quiet
    <3>1. ~UserCode
      BY <1>1 DEF UserCode
    <3>2. \A e \in Event : ~ProcessOneEvent(e) /\ ~DisposeEvent(e)
      BY <1>1, TakeChanges, DisposeChanges DEF WasTaken, WasDisposed
    <3> QED
      BY <1>1, <3>1, <3>2, NextCases
         DEF ScheduleAt, ScheduleDestroy, InjectWithContext, Cancel, Remove,
             RemoveExpired, RemoveEvent, RemoveDestroyEvent, Revoke, SwapQueues,
             InsertSwapped, ProcessDestroyEvent, control, IInv
  <2> QED BY <1>1, <2>1, <2>2 DEF RunReturns, StopExact
<1>2. IInv /\ StopExact /\ [Next]_vars =>
          [pc = "loop" /\ pc' = "user" => events = {} \/ halted]_vars
  BY <1>1
<1> QED BY <1>2, Invariance, StopInvariance, PTL DEF Spec, RunsUntilStopped
-----------------------------------------------------------------------------
(***************************************************************************)
(* The kernel implements the client's side of Scheduler, and takes events  *)
(* as Scheduler hands them out.                                            *)
(***************************************************************************)
\* Abbreviations for the refinement mapping.
ListKeys == {key[e] : e \in events}
LastKey  == [ts |-> currentTs, uid |-> currentUid]

\* Nothing changes in the list.
LEMMA ListStutters ==
    ASSUME UNCHANGED <<currentTs, currentUid, events>>,
           \A f \in events : key'[f] = key[f]
    PROVE  UNCHANGED <<ListKeys, LastKey>>
  BY DEF ListKeys, LastKey

\* An insertion at the current time or later, under the next uid, is one that
\* Scheduler allows.
LEMMA ListInserts ==
    ASSUME IInv, NEW e \in Event, NEW delay \in Nat, e \notin events,
           key'[e].ts = currentTs + delay, key'[e].uid = uid,
           events' = events \cup {e}, UNCHANGED <<currentTs, currentUid>>,
           \A f \in Event : f # e => key'[f] = key[f]
    PROVE  EventList!Insert
<1>1. TypeOK /\ Keys
  BY DEF IInv
<1>2. events \subseteq Event /\ \A f \in events : key'[f] = key[f]
  BY <1>1 DEF TypeOK
<1>3. ListKeys' = ListKeys \cup {key'[e]}
  BY <1>2 DEF ListKeys
<1>4. \A f \in events : key[f].uid # key'[e].uid
  <2>1. /\ uid \in Nat /\ uid >= FirstUid
        /\ \A f \in events : key[f].uid \in Nat /\ (Inserted(f) => key[f].uid < uid)
    BY <1>1, <1>2 DEF TypeOK, Key, Keys, KeyOf
  <2> QED BY <2>1 DEF IInv, Placed, ListPlaced
<1>5. \A q \in ListKeys : q.uid # key'[e].uid
  BY <1>4 DEF ListKeys
<1>6. key'[e] \in ListKeys' \ ListKeys
  BY <1>3, <1>5
<1>7. Less(LastKey, key'[e])
  BY <1>1 DEF TypeOK, Keys, Less, LastKey
<1>8. UNCHANGED LastKey
  BY DEF LastKey
<1> QED BY <1>3, <1>5, <1>6, <1>7, <1>8 DEF EventList!Insert, ListKeys, LastKey,
           Less, EventList!Less

\* What leaves the list leaves it under its own key.
LEMMA ListLoses ==
    ASSUME IInv, NEW e \in events, events' = events \ {e}, UNCHANGED key
    PROVE  key[e] \in ListKeys /\ ListKeys' = ListKeys \ {key[e]}
<1>1. events \subseteq Event /\ \A f \in events : Inserted(f)
  BY DEF IInv, TypeOK, Placed, ListPlaced
<1>2. \A f \in events : f # e => key[f] # key[e]
  BY <1>1 DEF IInv, Keys
<1> QED BY <1>2 DEF ListKeys

\* Every step of the simulator is a step of the event list, or none.
LEMMA ListSteps ==
    ASSUME NoWrap, IInv, [Next]_vars
    PROVE  [EventList!Next]_(EventList!svars)
<1>0. TypeOK /\ Queues /\ ListPlaced
  BY DEF IInv, Placed
<1>s. ASSUME UNCHANGED <<ListKeys, LastKey>>
      PROVE  [EventList!Next]_(EventList!svars)
  BY <1>s DEF EventList!svars, ListKeys, LastKey
<1>i. ASSUME EventList!Insert PROVE [EventList!Next]_(EventList!svars)
  BY <1>i DEF EventList!Next
<1>r. ASSUME NEW e \in events, events' = events \ {e}, UNCHANGED key,
             UNCHANGED LastKey
      PROVE  [EventList!Next]_(EventList!svars)
  <2>1. key[e] \in ListKeys /\ ListKeys' = ListKeys \ {key[e]}
    BY <1>r, ListLoses
  <2> QED BY <1>r, <2>1 DEF EventList!Next, EventList!Remove, ListKeys, LastKey
<1>1. CASE UNCHANGED <<now, list, destroyEvents, cancelled, injected, swapped, lives>>
  BY <1>1, <1>s, ListStutters DEF now, list
<1>2. ASSUME NEW kind \in Main, NEW delay \in Nat, NEW context \in Context,
             ScheduleAt(kind, delay, context)
      PROVE [EventList!Next]_(EventList!svars)
  <2>1. PICK e \in Event : WasScheduled(e, kind, delay, context)
    BY <1>2, ScheduleChanges
  <2>2. e \notin events
    BY <2>1, FreshEvent DEF WasScheduled
  <2> QED BY <1>i, <2>1, <2>2, ListInserts DEF WasScheduled
<1>3. CASE ScheduleDestroy
  <2>1. PICK e \in Event : WasScheduledDestroy(e)
    BY <1>3, ScheduleDestroyChanges
  <2>2. e \notin events /\ events \subseteq Event
    BY <1>0, <2>1, FreshEvent DEF WasScheduledDestroy, TypeOK
  <2> QED BY <1>s, <2>1, <2>2, ListStutters DEF WasScheduledDestroy
<1>4. ASSUME NEW delay \in Nat, NEW context \in Context,
             InjectWithContext(context, delay)
      PROVE [EventList!Next]_(EventList!svars)
  BY <1>4, <1>s, ListStutters DEF InjectWithContext, now, list
<1>5. ASSUME NEW e \in Event, Cancel(e) \/ RemoveExpired(e) \/ RemoveDestroyEvent(e)
      PROVE [EventList!Next]_(EventList!svars)
  BY <1>5, <1>s, ListStutters DEF Cancel, RemoveExpired, RemoveDestroyEvent, now, list
<1>6. ASSUME NEW e \in Event, RemoveEvent(e)
      PROVE [EventList!Next]_(EventList!svars)
  <2>1. e \in events
    BY <1>6, HeldEvents DEF RemoveEvent, Revoke
  <2>2. events' = events \ {e} /\ UNCHANGED key /\ UNCHANGED LastKey
    BY <1>6 DEF RemoveEvent, now, LastKey
  <2> QED BY <1>r, <2>1, <2>2
<1>7. CASE SwapQueues
  BY <1>7, <1>s, ListStutters, SwapChanges
<1>8. CASE InsertSwapped
  <2>1. PICK e \in Event : WasDrained(e)
    BY <1>8, InsertSwappedChanges
  <2>2. 1 \in 1..Len(swapped)
    BY <1>0, <2>1 DEF WasDrained, TypeOK
  <2>3. key[e].uid = InvalidUid
    BY <1>0, <2>1, <2>2 DEF WasDrained, Queues, InjectedQueues
  <2>4. e \notin events
    BY <1>0, <2>3 DEF ListPlaced, Inserted, InvalidUid, FirstUid
  <2> QED BY <1>i, <2>1, <2>4, ListInserts DEF WasDrained
<1>9. ASSUME NEW e \in Event, ProcessOneEvent(e)
      PROVE [EventList!Next]_(EventList!svars)
  <2>1. WasTaken(e)
    BY <1>9, TakeChanges
  <2>2. key[e] \in ListKeys /\ ListKeys' = ListKeys \ {key[e]}
    BY <2>1, ListLoses DEF WasTaken
  <2>3. LastKey' = [ts |-> key[e].ts, uid |-> key[e].uid]
    BY <2>1 DEF WasTaken, LastKey
  <2>4. \A q \in ListKeys : ~Less(q, key[e])
    BY <2>1 DEF WasTaken, ListKeys
  <2>5. EventList!RemoveNext
    BY <2>2, <2>3, <2>4 DEF EventList!RemoveNext, EventList!IsEarliest,
       EventList!Less, Less, ListKeys, LastKey
  <2> QED BY <2>5 DEF EventList!Next
<1>10. ASSUME NEW e \in Event, DisposeEvent(e)
       PROVE [EventList!Next]_(EventList!svars)
  BY <1>10, <1>r, DisposeChanges DEF WasDisposed, LastKey
<1>11. CASE ProcessDestroyEvent
  BY <1>11, <1>s, ListStutters DEF ProcessDestroyEvent, now, list
<1> QED
  BY <1>1, <1>2, <1>3, <1>4, <1>5, <1>6, <1>7, <1>8, <1>9, <1>10, <1>11, StepCases

\* The simulator, with the keys of its list and the key of the event it took
\* last, implements Scheduler: it inserts only events that sort after the one
\* handed out last, under uids of their own, removes only events that are in
\* the list, and handles events earliest first.
THEOREM ImplementsScheduler == ASSUME NoWrap PROVE Spec => UsesScheduler
<1>1. Init => EventList!Init
  BY DEF Init, EventList!Init, InvalidUid
<1>2. IInv /\ [Next]_vars => [EventList!Next]_(EventList!svars)
  BY ListSteps
<1> QED BY <1>1, <1>2, Invariance, PTL DEF Spec, UsesScheduler, EventList!Spec
=============================================================================
