---------------------------- MODULE RequestProofs ----------------------------
(***************************************************************************)
(* More proofs about DefaultSimulator: an event that runs is the one that  *)
(* was asked for, Destroy leaves no destroy event behind, and DoDispose    *)
(* none at all.  Three further invariants, each inductive together with    *)
(* IInv.                                                                   *)
(***************************************************************************)
EXTENDS DefaultSimulator_proofs

\* Answered: keys are what was asked for, and the current event is the one
\* whose handler runs.
Answered ==
    /\ \A e \in Event : req[e].at <= currentTs
    /\ \A e \in Event : Inserted(e) =>
          /\ key[e].context = req[e].context
          /\ req[e].kind = "thread" => key[e].ts >= Due(e)
    /\ pc = "event" => /\ running \in Event /\ Inserted(running)
                       /\ currentTs = key[running].ts
                       /\ currentContext = key[running].context

\* Answered is kept when time does not go back, the events known keep their
\* request and key, and the handler that runs goes on or returns.
LEMMA AnsweredKept ==
    ASSUME TypeOK, Answered, currentTs' \in Nat, currentTs' >= currentTs,
           \A f \in Event : req'[f] = req[f] /\ key'[f] = key[f],
           \/ pc' # "event"
           \/ UNCHANGED <<pc, running, currentTs, currentContext>>
    PROVE  Answered'
<1>1. currentTs \in Nat /\ \A f \in Event : req[f].at \in Nat
  BY DEF TypeOK, Req
<1>2. \A f \in Event : req'[f].at <= currentTs'
  BY <1>1 DEF Answered
<1> QED BY <1>2 DEF Answered, Inserted, Due

\* Event e gets a new request or a new key, as asked for.
LEMMA AnsweredNew ==
    ASSUME TypeOK, Answered, NEW e \in Event, ~Inserted(e),
           UNCHANGED <<currentTs, currentContext, pc, running>>,
           \A f \in Event : f # e => req'[f] = req[f] /\ key'[f] = key[f],
           req'[e].at <= currentTs,
           Inserted(e)' => /\ key'[e].context = req'[e].context
                           /\ req'[e].kind = "thread" =>
                                 key'[e].ts >= req'[e].at + req'[e].delay
    PROVE  Answered'
<1>1. \A f \in Event : req'[f].at <= currentTs'
  BY DEF Answered
<1>2. ASSUME NEW f \in Event, Inserted(f)'
      PROVE  /\ key'[f].context = req'[f].context
             /\ req'[f].kind = "thread" => key'[f].ts >= Due(f)'
  BY <1>2 DEF Answered, Inserted, Due
<1>3. ASSUME pc' = "event"
      PROVE  /\ running' \in Event /\ Inserted(running)'
             /\ currentTs' = key'[running'].ts
             /\ currentContext' = key'[running'].context
  <2>1. running \in Event /\ Inserted(running) /\ running' = running
    BY <1>3 DEF Answered
  <2>2. running # e
    BY <2>1
  <2>3. key'[running] = key[running]
    BY <2>1, <2>2
  <2> QED BY <1>3, <2>1, <2>3 DEF Answered, Inserted
<1> QED BY <1>1, <1>2, <1>3 DEF Answered

\* Every step keeps Answered.
LEMMA AnsweredStep ==
    ASSUME NoWrap, IInv, Answered, [Next]_vars
    PROVE  Answered'
<1>0. TypeOK /\ Keys /\ Queues /\ ListPlaced /\ Timely
  BY DEF IInv, Placed
<1>n. currentTs \in Nat /\ \A f \in Event : req[f].delay \in Nat
  BY <1>0 DEF TypeOK, Req
<1>1. CASE Quiet \/ UNCHANGED vars
  <2>1. UNCHANGED <<now, key, req>>
    BY <1>1, QuietChanges DEF list, history, lives, vars
  <2>2. pc' # "event" \/ UNCHANGED <<pc, running>>
    BY <1>0, <1>1 DEF Quiet, Stop, Run, Destroy, CheckFlag, DrainDone, ClearStop,
         RunReturns, BeginDispose, Disposed, HandlerStep, HandlerReturns,
         DestroyHandlerReturns, control, vars, TypeOK
  <2> QED BY <1>0, <1>n, <2>1, <2>2, AnsweredKept DEF now
<1>2. ASSUME NEW kind \in Main, NEW delay \in Nat, NEW context \in Context,
             ScheduleAt(kind, delay, context)
      PROVE Answered'
  <2>1. PICK e \in Event : WasScheduled(e, kind, delay, context)
    BY <1>2, ScheduleChanges
  <2>2. ~Inserted(e)
    BY <2>1, FreshEvent DEF WasScheduled, Inserted, InvalidUid, FirstUid
  <2>3. kind # "thread"
    BY DEF Main
  <2> QED BY <1>0, <1>n, <2>1, <2>2, <2>3, AnsweredNew DEF WasScheduled
<1>3. CASE ScheduleDestroy
  <2>1. PICK e \in Event : WasScheduledDestroy(e)
    BY <1>3, ScheduleDestroyChanges
  <2>2. ~Inserted(e)
    BY <2>1, FreshEvent DEF WasScheduledDestroy, Inserted, InvalidUid, FirstUid
  <2> QED BY <1>0, <1>n, <2>1, <2>2, AnsweredNew DEF WasScheduledDestroy
<1>4. ASSUME NEW delay \in Nat, NEW context \in Context,
             InjectWithContext(context, delay)
      PROVE Answered'
  <2>1. PICK e \in Event : WasInjected(e, delay, context)
    BY <1>4, InjectChanges
  <2>2. ~Inserted(e) /\ key'[e].uid = InvalidUid
    BY <2>1, FreshEvent DEF WasInjected, Inserted, InvalidUid, FirstUid
  <2>3. ~Inserted(e)'
    BY <2>2 DEF Inserted, InvalidUid, FirstUid
  <2> QED BY <1>0, <1>n, <2>1, <2>2, <2>3, AnsweredNew DEF WasInjected
<1>5. ASSUME NEW e \in Event, \/ Cancel(e) \/ RemoveExpired(e)
                              \/ RemoveEvent(e) \/ RemoveDestroyEvent(e)
      PROVE Answered'
  <2>1. WasRevoked(e)
    BY <1>5, RevokeChanges
  <2> QED BY <1>0, <1>n, <2>1, AnsweredKept DEF WasRevoked
<1>6. CASE SwapQueues
  BY <1>0, <1>n, <1>6, SwapChanges, AnsweredKept
<1>7. CASE InsertSwapped
  <2>1. PICK e \in Event : WasDrained(e)
    BY <1>7, InsertSwappedChanges
  <2>2. 1 \in 1..Len(swapped)
    BY <1>0, <2>1 DEF WasDrained, TypeOK
  <2>3. req[e].kind = "thread" /\ key[e].uid = InvalidUid
    BY <1>0, <2>1, <2>2 DEF WasDrained, Queues, InjectedQueues
  <2>4. ~Inserted(e)
    BY <2>3 DEF Inserted, InvalidUid, FirstUid
  <2>5. req[e].at <= currentTs /\ req[e].at \in Nat
    BY <1>0 DEF Answered, TypeOK, Req
  <2>6. currentTs + req[e].delay >= req[e].at + req[e].delay
    BY <1>n, <2>5
  <2> QED BY <1>0, <2>1, <2>4, <2>5, <2>6, AnsweredNew DEF WasDrained
<1>8. ASSUME NEW e \in Event, ProcessOneEvent(e) PROVE Answered'
  <2>1. WasTaken(e)
    BY <1>8, TakeChanges
  <2>2. currentTs' = key[e].ts /\ currentContext' = key[e].context /\ key' = key
    BY <1>8 DEF ProcessOneEvent, InvokeHandler, InvokeStop, SkipCancelled, TakeNext
  <2>3. AfterNow(e) /\ Inserted(e) /\ key[e].ts \in Nat
    BY <1>0, <2>1 DEF WasTaken, Timely, ListPlaced, TypeOK, Key
  <2>4. currentTs' \in Nat /\ currentTs' >= currentTs
    BY <1>n, <2>2, <2>3 DEF AfterNow
  <2>5. req' = req
    BY <2>1 DEF WasTaken
  <2>6. CASE pc' # "event"
    BY <1>0, <2>2, <2>4, <2>5, <2>6, AnsweredKept
  <2>7. CASE pc' = "event"
    <3>1. running' = e
      BY <1>8, <2>7 DEF ProcessOneEvent, InvokeHandler, InvokeStop, SkipCancelled
    <3>2. \A f \in Event : req[f].at \in Nat /\ req[f].at <= currentTs
      BY <1>0 DEF Answered, TypeOK, Req
    <3>3. \A f \in Event : req'[f].at <= currentTs'
      BY <1>n, <2>4, <2>5, <3>2
    <3> QED BY <2>2, <2>3, <2>5, <3>1, <3>3 DEF Answered, Inserted, Due
  <2> QED BY <2>6, <2>7
<1>9. ASSUME NEW e \in Event, DisposeEvent(e) PROVE Answered'
  BY <1>0, <1>n, <1>9, DisposeChanges, AnsweredKept DEF WasDisposed
<1>10. CASE ProcessDestroyEvent
  <2>1. PICK e \in Event : DestroyEventTaken(e)
    BY <1>0, <1>10, DestroyEventChanges
  <2> QED BY <1>0, <1>n, <2>1, AnsweredKept DEF DestroyEventTaken
<1> QED
  BY <1>1, <1>2, <1>3, <1>4, <1>5, <1>6, <1>7, <1>8, <1>9, <1>10, StepCases

\* A handler runs in the context and at the time it was asked for; that of an
\* injected event, which waits for a drain, never before its time.
THEOREM RequestsHonoured == ASSUME NoWrap PROVE Spec => []RunsAsRequested
<1>1. Init => Answered
  <2> SUFFICES ASSUME Init PROVE Answered
    OBVIOUS
  <2> QED BY DEF Init, Answered, Inserted, NoKey, NoReq, InvalidUid, FirstUid
<1>2. IInv /\ Answered /\ [Next]_vars => Answered'
  BY AnsweredStep
<1>3. ASSUME IInv, Answered, pc = "event"
      PROVE  /\ currentContext = req[running].context
             /\ IF req[running].kind = "thread" THEN currentTs >= Due(running)
                                                ELSE currentTs = Due(running)
  <2>1. /\ running \in Event /\ Inserted(running)
        /\ currentTs = key[running].ts /\ currentContext = key[running].context
    BY <1>3 DEF Answered
  <2>2. req[running].kind \in Main \cup {"thread"}
    <3>1. req[running].kind \in Kind \cup {"none"}
      BY <1>3, <2>1 DEF IInv, TypeOK, Req
    <3>2. req[running].kind \notin {"none", "destroy"}
      BY <1>3, <2>1 DEF IInv, Keys, KeyOf, Inserted, InvalidUid, DestroyUid, FirstUid
    <3> QED BY <3>1, <3>2 DEF Kind, Main
  <2>3. req[running].kind \in Main => key[running].ts = Due(running)
    BY <1>3, <2>1 DEF IInv, Ordered
  <2> QED BY <1>3, <2>1, <2>2, <2>3 DEF Answered
<1>4. IInv /\ Answered => RunsAsRequested
  BY <1>3 DEF RunsAsRequested
<1> QED BY <1>1, <1>2, <1>4, Invariance, PTL DEF Spec
-----------------------------------------------------------------------------
\* After the loop of Destroy: the drain on behalf of DoDispose, and DoDispose.
Leaving == \/ pc \in {"dispose", "disposed"}
           \/ pc \in {"drain", "swap", "insert"} /\ ret = "dispose"

\* DestroyDone: a destroy event leaves its list by running or by the user's
\* will, only the user cancels one, and none is left after Destroy.
DestroyDone ==
    /\ \A e \in gone : req[e].kind = "destroy" => e \in ran \cup revoked
    /\ \A e \in cancelled : /\ req[e].kind # "none"
                            /\ req[e].kind = "destroy" => e \in revoked
    /\ Leaving => Len(destroyEvents) = 0

\* Every step keeps DestroyDone.
LEMMA DestroyDoneStep ==
    ASSUME NoWrap, IInv, DestroyDone, [Next]_vars
    PROVE  DestroyDone'
<1>0. TypeOK /\ Keys /\ Queues /\ ListPlaced /\ Timely
  BY DEF IInv, Placed
<1>d. gone \subseteq Event /\ cancelled \subseteq Event
  BY <1>0 DEF TypeOK
\* A new event e, which is neither gone nor cancelled.
<1>e. ASSUME NEW e \in Event, e = created + 1,
             \A f \in Event : f # e => req'[f] = req[f],
             UNCHANGED <<gone, cancelled, ran, revoked, pc, ret>>,
             destroyEvents' = destroyEvents \/ ~Leaving
      PROVE  DestroyDone'
  <2>1. e \notin gone /\ req[e].kind = "none"
    BY <1>e, FreshEvent
  <2>2. e \notin cancelled
    BY <2>1 DEF DestroyDone
  <2>3. \A f \in gone \cup cancelled : req'[f] = req[f]
    BY <1>d, <1>e, <2>1, <2>2
  <2> QED BY <1>e, <2>3 DEF DestroyDone, Leaving
\* Nothing happens to destroy events.
<1>k. ASSUME UNCHANGED <<req, cancelled, ran, revoked, destroyEvents>>,
             gone \subseteq gone',
             \A f \in gone' \ gone : req[f].kind # "destroy",
             Leaving' => Leaving
      PROVE  DestroyDone'
  BY <1>k DEF DestroyDone
<1>1. CASE Quiet \/ UNCHANGED vars
  <2>1. UNCHANGED <<req, gone, cancelled, ran, revoked, destroyEvents>>
    BY <1>1, QuietChanges DEF history, lives, vars
  <2>2. CASE BeginDispose
    <3>1. Len(destroyEvents) = 0
      BY <2>2 DEF BeginDispose
    <3> QED BY <2>1, <3>1 DEF DestroyDone
  <2>3. CASE ~BeginDispose
    <3>1. Leaving' => Leaving
      BY <1>0, <1>1, <2>3 DEF Leaving, Quiet, Stop, Run, Destroy, CheckFlag,
         DrainDone, ClearStop, RunReturns, Disposed, HandlerStep, HandlerReturns,
         DestroyHandlerReturns, control, vars, UserCode, TypeOK
    <3> QED BY <1>k, <2>1, <3>1
  <2> QED BY <2>2, <2>3
<1>2. ASSUME NEW kind \in Main, NEW delay \in Nat, NEW context \in Context,
             ScheduleAt(kind, delay, context)
      PROVE DestroyDone'
  <2>1. PICK e \in Event : WasScheduled(e, kind, delay, context)
    BY <1>2, ScheduleChanges
  <2> QED BY <1>e, <2>1 DEF WasScheduled
<1>3. CASE ScheduleDestroy
  <2>1. PICK e \in Event : WasScheduledDestroy(e)
    BY <1>3, ScheduleDestroyChanges
  <2> QED BY <1>e, <2>1 DEF WasScheduledDestroy, Leaving
<1>4. ASSUME NEW delay \in Nat, NEW context \in Context,
             InjectWithContext(context, delay)
      PROVE DestroyDone'
  <2>1. PICK e \in Event : WasInjected(e, delay, context)
    BY <1>4, InjectChanges
  <2>2. UNCHANGED <<pc, ret>>
    BY <1>4 DEF InjectWithContext, control
  <2> QED BY <1>e, <2>1, <2>2 DEF WasInjected
<1>5. ASSUME NEW e \in Event, \/ Cancel(e) \/ RemoveExpired(e)
                              \/ RemoveEvent(e) \/ RemoveDestroyEvent(e)
      PROVE DestroyDone'
  <2>1. WasRevoked(e)
    BY <1>5, RevokeChanges
  <2>2. /\ UNCHANGED <<req, ran, pc>> /\ ~Leaving /\ revoked \subseteq revoked'
        /\ e \in 1..created /\ Held(e)
    BY <2>1 DEF WasRevoked, Leaving
  <2>3. ~Leaving'
    BY <2>1 DEF WasRevoked, Leaving
  <2>4. e \in gone' \ gone => e \in revoked'
    BY <2>1 DEF WasRevoked
  <2>5. ASSUME e \in cancelled' \ cancelled, req[e].kind = "destroy"
        PROVE  e \in revoked'
    <3>1. key[e].uid = DestroyUid
      BY <1>0, <2>5 DEF Keys, KeyOf
    <3>2. ~IsExpired(e)
      BY <1>5, <2>5, <3>1 DEF Cancel, RemoveExpired, RemoveEvent, RemoveDestroyEvent
    <3>3. e \notin gone
      BY <2>2, <3>1, <3>2, HeldDestroyEvents
    <3> QED BY <2>1, <3>3 DEF WasRevoked
  <2>6. req[e].kind # "none"
    BY <2>2 DEF Held
  <2> QED BY <2>1, <2>2, <2>3, <2>4, <2>5, <2>6 DEF DestroyDone, WasRevoked
<1>6. CASE SwapQueues
  <2>1. ret' = ret
    BY <1>6 DEF SwapQueues
  <2> QED BY <1>6, <1>k, <2>1, SwapChanges DEF Leaving
<1>7. CASE InsertSwapped
  <2>1. PICK e \in Event : WasDrained(e)
    BY <1>7, InsertSwappedChanges
  <2> QED BY <1>k, <2>1 DEF WasDrained, Leaving
<1>8. ASSUME NEW e \in Event, ProcessOneEvent(e) PROVE DestroyDone'
  <2>1. WasTaken(e)
    BY <1>8, TakeChanges
  <2>2. ~Leaving'
    BY <1>8 DEF ProcessOneEvent, InvokeHandler, InvokeStop, SkipCancelled, Leaving
  <2>3. req[e].kind # "destroy"
    <3>1. Inserted(e)
      BY <1>0, <2>1 DEF WasTaken, ListPlaced
    <3> QED BY <1>0, <3>1 DEF Keys, KeyOf, Inserted, DestroyUid, FirstUid
  <2> QED BY <2>1, <2>2, <2>3 DEF WasTaken, DestroyDone
<1>9. ASSUME NEW e \in Event, DisposeEvent(e) PROVE DestroyDone'
  <2>1. WasDisposed(e)
    BY <1>9, DisposeChanges
  <2>2. req[e].kind # "destroy"
    <3>1. Inserted(e)
      BY <1>0, <2>1 DEF WasDisposed, ListPlaced
    <3> QED BY <1>0, <3>1 DEF Keys, KeyOf, Inserted, DestroyUid, FirstUid
  <2> QED BY <1>k, <2>1, <2>2 DEF WasDisposed, Leaving
<1>10. CASE ProcessDestroyEvent
  <2>1. PICK e \in Event : DestroyEventTaken(e)
    BY <1>0, <1>10, DestroyEventChanges
  <2>2. ~Leaving'
    BY <2>1 DEF DestroyEventTaken, Leaving
  <2>3. 1 \in 1..Len(destroyEvents)
    BY <1>0, <2>1 DEF DestroyEventTaken, TypeOK
  <2>4. req[e].kind = "destroy"
    BY <1>0, <2>1, <2>3 DEF DestroyEventTaken, Queues, DestroyQueue
  <2>5. e \in ran' \cup revoked
    <3>1. CASE e \in cancelled
      BY <2>4, <3>1 DEF DestroyDone
    <3>2. CASE e \notin cancelled
      BY <1>10, <2>1, <3>2 DEF ProcessDestroyEvent, DestroyEventTaken
    <3> QED BY <3>1, <3>2
  <2> QED BY <2>1, <2>2, <2>5 DEF DestroyEventTaken, DestroyDone
<1> QED
  BY <1>1, <1>2, <1>3, <1>4, <1>5, <1>6, <1>7, <1>8, <1>9, <1>10, StepCases

\* Once Destroy has returned, every destroy event the user did not revoke has
\* run, and none that the user revoked.
THEOREM DestroyComplete == ASSUME NoWrap PROVE Spec => []DestroyEventsRun
<1>1. Init => DestroyDone
  BY DEF Init, DestroyDone, Leaving
<1>2. IInv /\ DestroyDone /\ [Next]_vars => DestroyDone'
  BY DestroyDoneStep
<1>3. ASSUME IInv, DestroyDone, pc \in {"dispose", "disposed"},
             NEW e \in 1..created, req[e].kind = "destroy"
      PROVE  e \in ran <=> e \notin revoked
  <2>1. e \in Event
    BY <1>3, KernelAssumption DEF IInv, TypeOK, Event
  <2>2. Len(destroyEvents) = 0
    BY <1>3 DEF DestroyDone, Leaving
  <2>3. e \in gone
    BY <1>3, <2>1, <2>2 DEF IInv, Placed, DestroyPlaced
  <2>4. e \in ran \cup revoked
    BY <1>3, <2>3 DEF DestroyDone
  <2>5. e \in revoked => e \notin ran
    BY <1>3 DEF IInv, Revoked
  <2> QED BY <2>4, <2>5
<1>4. IInv /\ DestroyDone => DestroyEventsRun
  BY <1>3 DEF DestroyEventsRun
<1> QED BY <1>1, <1>2, <1>4, Invariance, PTL DEF Spec
-----------------------------------------------------------------------------
\* DisposalDrained: the events that DoDispose has to drop existed when it was
\* called; from its swap on, none of them is in the shared queue, and when it
\* is done the list is empty.
DisposalDrained ==
    /\ \A e \in doomed : e <= created
    /\ pc \in {"dispose", "disposed"} \/ (pc = "insert" /\ ret = "dispose") =>
          \A i \in 1..Len(eventsWithContext) : eventsWithContext[i] \notin doomed
    /\ pc = "disposed" => events = {}

\* Every step keeps DisposalDrained.
LEMMA DisposalDrainedStep ==
    ASSUME NoWrap, IInv, DisposalDrained, [Next]_vars
    PROVE  DisposalDrained'
<1> USE DEF DisposalDrained
<1>0. TypeOK /\ FlagTracksQueue
  BY DEF IInv, Control
<1>n. created \in Nat
  BY <1>0, KernelAssumption DEF TypeOK
<1>m. BeginDispose \/ doomed' = doomed
  BY <1>0, MarkChanges
\* The main thread stays where it is, outside DoDispose's loop or with the
\* queue and the list as they were.
<1>k. ASSUME UNCHANGED <<doomed, pc, ret>>, created' \in Nat, created' >= created,
             \/ UserCode
             \/ UNCHANGED <<eventsWithContext, events>>
      PROVE  DisposalDrained'
  <2>1. \A e \in doomed : e \in Event
    BY <1>0 DEF TypeOK
  <2>2. \A e \in doomed' : e <= created'
    BY <1>n, <1>k, <2>1 DEF Event
  <2> QED BY <1>k, <2>2 DEF UserCode
<1>1. CASE Quiet
  <2>1. UNCHANGED <<created, eventsWithContext, eventsWithContextEmpty, events>>
    BY <1>1, QuietChanges DEF lives, injected, list
  <2>2. CASE BeginDispose
    BY <1>n, <2>1, <2>2 DEF BeginDispose
  <2>3. CASE CheckFlag
    <3>1. doomed' = doomed
      BY <1>m, <2>3 DEF CheckFlag, BeginDispose
    <3>2. pc' # "swap" => eventsWithContext = <<>>
      BY <1>0, <2>3 DEF CheckFlag, FlagTracksQueue
    <3> QED BY <1>0, <2>1, <2>3, <3>1, <3>2 DEF CheckFlag, TypeOK
  <2>4. CASE DrainDone
    BY <1>0, <1>m, <2>1, <2>4 DEF DrainDone, BeginDispose, TypeOK
  <2>5. CASE Disposed
    BY <1>m, <2>1, <2>5 DEF Disposed, BeginDispose
  <2>6. CASE Stop \/ Run \/ Destroy \/ ClearStop \/ RunReturns \/ HandlerStep
    BY <1>m, <2>1, <2>6 DEF Stop, Run, Destroy, ClearStop, RunReturns, HandlerStep,
         HandlerReturns, DestroyHandlerReturns, BeginDispose, UserCode, control
  <2> QED BY <1>1, <2>2, <2>3, <2>4, <2>5, <2>6 DEF Quiet
<1>2. ASSUME NEW kind \in Main, NEW delay \in Nat, NEW context \in Context,
             ScheduleAt(kind, delay, context)
      PROVE DisposalDrained'
  <2>1. PICK e \in Event : WasScheduled(e, kind, delay, context)
    BY <1>2, ScheduleChanges
  <2>2. UNCHANGED <<doomed, pc, ret>> /\ UserCode
    BY <1>2 DEF ScheduleAt, Create, control
  <2> QED BY <1>n, <1>k, <2>1, <2>2 DEF WasScheduled
<1>3. CASE ScheduleDestroy
  <2>1. PICK e \in Event : WasScheduledDestroy(e)
    BY <1>3, ScheduleDestroyChanges
  <2>2. UNCHANGED <<doomed, pc, ret>> /\ UserCode
    BY <1>3 DEF ScheduleDestroy, Create, control
  <2> QED BY <1>n, <1>k, <2>1, <2>2 DEF WasScheduledDestroy
\* An injection during disposal is of an event that is not doomed.
<1>4. ASSUME NEW delay \in Nat, NEW context \in Context,
             InjectWithContext(context, delay)
      PROVE DisposalDrained'
  <2>1. PICK e \in Event : WasInjected(e, delay, context)
    BY <1>4, InjectChanges
  <2>2. UNCHANGED <<doomed, pc, ret, events>> /\ pc # "disposed"
    BY <1>4 DEF InjectWithContext, Create, control, list
  <2>3. \A f \in doomed : f \in Event /\ f <= created
    BY <1>0 DEF TypeOK
  <2>4. e = created + 1 /\ created' = e /\ eventsWithContext' = Append(eventsWithContext, e)
    BY <2>1 DEF WasInjected
  <2>5. e \notin doomed /\ \A f \in doomed : f <= created'
    BY <1>n, <2>3, <2>4 DEF Event
  <2>6. ASSUME NEW i \in 1..Len(eventsWithContext')
        PROVE  \/ eventsWithContext'[i] = e
               \/ i \in 1..Len(eventsWithContext)
                     /\ eventsWithContext'[i] = eventsWithContext[i]
    BY <1>0, <2>4 DEF TypeOK
  <2> QED BY <2>2, <2>5, <2>6
<1>5. ASSUME NEW e \in Event, \/ Cancel(e) \/ RemoveExpired(e)
                              \/ RemoveEvent(e) \/ RemoveDestroyEvent(e)
      PROVE DisposalDrained'
  <2>1. WasRevoked(e)
    BY <1>5, RevokeChanges
  <2>2. UNCHANGED doomed /\ UserCode
    BY <1>5 DEF Cancel, RemoveExpired, RemoveEvent, RemoveDestroyEvent, Revoke
  <2> QED BY <1>n, <1>k, <2>1, <2>2 DEF WasRevoked
<1>6. CASE SwapQueues
  BY <1>m, <1>6 DEF SwapQueues, BeginDispose, history, lives
<1>7. CASE InsertSwapped
  BY <1>m, <1>7 DEF InsertSwapped, BeginDispose, injected, history, lives
<1>8. ASSUME NEW e \in Event, ProcessOneEvent(e) PROVE DisposalDrained'
  <2>1. UNCHANGED <<created, doomed>> /\ pc' \in {"event", "drain"}
    BY <1>8 DEF ProcessOneEvent, InvokeHandler, InvokeStop, SkipCancelled, TakeNext
  <2> QED BY <2>1
<1>9. ASSUME NEW e \in Event, DisposeEvent(e) PROVE DisposalDrained'
  BY <1>9 DEF DisposeEvent, injected, control
<1>10. CASE ProcessDestroyEvent
  BY <1>m, <1>10 DEF ProcessDestroyEvent, BeginDispose
<1>11. CASE UNCHANGED vars
  BY <1>n, <1>k, <1>11 DEF vars, control, history, lives, list, injected
<1> QED
  BY <1>0, <1>1, <1>2, <1>3, <1>4, <1>5, <1>6, <1>7, <1>8, <1>9, <1>10, <1>11,
     NextCases

\* Disposal leaves nothing behind: an event that existed when DoDispose was
\* called is gone when it ends, one that another thread injected included.
THEOREM DisposalComplete == ASSUME NoWrap PROVE Spec => []DisposesAll
<1>1. Init => DestroyDone /\ DisposalDrained
  BY DEF Init, DestroyDone, Leaving, DisposalDrained
<1>2. IInv /\ DestroyDone /\ [Next]_vars => DestroyDone'
  BY DestroyDoneStep
<1>3. IInv /\ DisposalDrained /\ [Next]_vars => DisposalDrained'
  BY DisposalDrainedStep
<1>4. ASSUME IInv, DestroyDone, DisposalDrained, pc = "disposed",
             NEW e \in doomed
      PROVE  e \in gone
  <2>1. e \in Event /\ req[e].kind # "none"
    <3>1. e \in Event /\ e <= created /\ created \in Nat
      BY <1>4, KernelAssumption DEF DisposalDrained, IInv, TypeOK
    <3> QED BY <1>4, <3>1 DEF IInv, Keys, KeyOf, Event
  <2>2. CASE Inserted(e)
    BY <1>4, <2>1, <2>2 DEF DisposalDrained, IInv, Placed, ListPlaced
  <2>3. CASE req[e].kind = "destroy"
    BY <1>4, <2>1, <2>3 DEF DestroyDone, Leaving, IInv, Placed, DestroyPlaced
  <2>4. CASE req[e].kind = "thread" /\ ~Inserted(e)
    <3>1. Len(swapped) = 0
      BY <1>4 DEF IInv, Control
    <3> QED BY <1>4, <2>1, <2>4, <3>1 DEF DisposalDrained, IInv, Placed, InjectedPlaced
  <2>5. req[e].kind \in Main \cup {"thread", "destroy"}
    BY <1>4, <2>1 DEF IInv, TypeOK, Req, Kind, Main
  <2> QED BY <1>4, <2>1, <2>2, <2>3, <2>4, <2>5 DEF IInv, Keys, KeyOf
<1>5. IInv /\ DestroyDone /\ DisposalDrained => DisposesAll
  BY <1>4 DEF DisposesAll
<1> QED BY <1>1, <1>2, <1>3, <1>5, Invariance, PTL DEF Spec
=============================================================================
