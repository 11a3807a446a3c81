-------------------------- MODULE DefaultSimulator --------------------------
(***************************************************************************)
(* The simulation kernel: ns3::DefaultSimulatorImpl with the static front  *)
(* end ns3::Simulator, ns3::EventImpl and ns3::EventId.                    *)
(*                                                                         *)
(* One thread, the main thread, owns the kernel.  It alternates between    *)
(* kernel code (the loops of Run, Destroy and DoDispose, and the drain     *)
(* ProcessEventsWithContext) and user code: the script around Run and      *)
(* Destroy, and the handlers of events.  Only user code calls Schedule,    *)
(* Cancel, Remove, Stop and so on.  Other threads call ScheduleWithContext *)
(* at any moment; they share with the main thread the queue                *)
(* eventsWithContext and its flag, which the mutex protects but for one    *)
(* read of the flag.                                                       *)
(*                                                                         *)
(* An event is a number: the order in which the program created it.  An    *)
(* event carries the key it was inserted with (key) and what was asked for *)
(* (req); an entry of the event list, an EventId and an EventWithContext   *)
(* all name the event and share these.                                     *)
(***************************************************************************)
EXTENDS Integers, Sequences, FiniteSets, Functions, EventKey

CONSTANTS
    MaxEvents,  \* bound on the events a behaviour creates
    Delays,     \* the delays a caller asks for
    Nodes,      \* the contexts (node numbers) a caller asks for
    NoContext,  \* Simulator::NO_CONTEXT
    UidSpace    \* number of values of m_uid, 2^32 in the code

InvalidUid == 0
DestroyUid == 2
FirstUid   == 4

ASSUME KernelAssumption ==
    /\ MaxEvents \in Nat
    /\ Delays \subseteq Nat
    /\ NoContext \notin Nodes
    /\ UidSpace \in Nat /\ UidSpace > FirstUid

\* m_uid never wraps: what the simulator relies on without checking it.
NoWrap == FirstUid + MaxEvents < UidSpace

Event   == 1..MaxEvents
NoEvent == 0
Context == Nodes \cup {NoContext}

\* How the program asked for an event.  Only "schedule" and "destroy" events
\* leave an EventId with the caller.
Kind == {"schedule", "context", "stop", "thread", "destroy"}

NoKey == [ts |-> 0, context |-> NoContext, uid |-> InvalidUid]
NoReq == [kind |-> "none", at |-> 0, delay |-> 0, context |-> NoContext]

VARIABLES
    currentTs,          \* m_currentTs: the simulation time
    currentUid,         \* m_currentUid: uid of the last event taken
    currentContext,     \* m_currentContext
    uid,                \* m_uid: the next uid
    unscheduledEvents,  \* m_unscheduledEvents
    stop,               \* m_stop
    events,             \* m_events: the event list
    destroyEvents,      \* m_destroyEvents
    cancelled,          \* events with EventImpl::m_cancel set
    key,                \* the EventKey each event was given
    eventsWithContext,      \* m_eventsWithContext: injected by other threads
    eventsWithContextEmpty, \* m_eventsWithContextEmpty
    swapped,            \* the local queue of ProcessEventsWithContext
    pc,                 \* where the main thread is
    ret,                \* where ProcessEventsWithContext returns to
    running,            \* the event whose handler runs, or NoEvent
    \* History: what the properties compare the kernel's answers with.
    created,            \* number of events created so far
    req,                \* what was asked of each event, and when
    ran,                \* events whose handler was called
    gone,               \* events that left the kernel: taken, removed, dropped
    revoked,            \* events the user cancelled or removed in time
    doomed,             \* events that existed when DoDispose was called
    halted              \* Stop was called since Run was called last

now      == <<currentTs, currentUid, currentContext>>
list     == <<uid, unscheduledEvents, events, key>>
injected == <<eventsWithContext, eventsWithContextEmpty>>
stops    == <<stop, halted>>
control  == <<swapped, pc, ret, running>>
lives    == <<created, req, ran, gone, revoked>>
history  == <<lives, doomed>>
vars     == <<now, list, stops, destroyEvents, cancelled, injected, control,
              history>>
-----------------------------------------------------------------------------
NextUid == IF uid + 1 = UidSpace THEN 0 ELSE uid + 1

\* Whether the caller of Schedule, ScheduleNow or ScheduleDestroy holds an id.
Held(e) == req[e].kind \in {"schedule", "destroy"}

\* Bugs: the event being run counts as waiting; the uid is not compared.
IsExpiredLate(e) ==
    \/ e \in cancelled
    \/ key[e].uid = DestroyUid /\ e \notin Range(destroyEvents)
    \/ key[e].uid # DestroyUid /\ \/ key[e].ts < currentTs
                                  \/ /\ key[e].ts = currentTs
                                     /\ key[e].uid < currentUid
IsExpiredByTime(e) ==
    \/ e \in cancelled
    \/ key[e].uid = DestroyUid /\ e \notin Range(destroyEvents)
    \/ key[e].uid # DestroyUid /\ key[e].ts <= currentTs
IsExpired(e) ==
    \/ e \in cancelled
    \/ key[e].uid = DestroyUid /\ e \notin Range(destroyEvents)
    \/ key[e].uid # DestroyUid /\ \/ key[e].ts < currentTs
                                  \/ /\ key[e].ts = currentTs
                                     /\ key[e].uid <= currentUid

\* The time left until the event of an id, 0 if it is expired.
GetDelayLeft(e) == IF IsExpired(e) THEN 0 ELSE key[e].ts - currentTs

\* A bug: m_uid is not incremented.
InsertSameUid(e, ts, context) ==
    /\ key' = [key EXCEPT ![e] = [ts |-> ts, context |-> context, uid |-> uid]]
    /\ uid' = uid
    /\ unscheduledEvents' = unscheduledEvents + 1
    /\ events' = events \cup {e}

\* m_events->Insert of event e under the next uid.
Insert(e, ts, context) ==
    /\ key' = [key EXCEPT ![e] = [ts |-> ts, context |-> context, uid |-> uid]]
    /\ uid' = NextUid
    /\ unscheduledEvents' = unscheduledEvents + 1
    /\ events' = events \cup {e}

\* The program creates event e.
Create(e, kind, delay, context) ==
    /\ e = created + 1
    /\ created' = e
    /\ req' = [req EXCEPT ![e] = [kind |-> kind, at |-> currentTs,
                                  delay |-> delay, context |-> context]]
    /\ UNCHANGED <<ran, gone, revoked, doomed>>
-----------------------------------------------------------------------------
Init ==
    /\ currentTs = 0 /\ currentUid = InvalidUid /\ currentContext = NoContext
    /\ uid = FirstUid
    /\ unscheduledEvents = 0
    /\ stop = FALSE
    /\ events = {} /\ destroyEvents = <<>> /\ cancelled = {}
    /\ key = [e \in Event |-> NoKey]
    /\ eventsWithContext = <<>> /\ eventsWithContextEmpty = TRUE
    /\ swapped = <<>>
    /\ pc = "user" /\ ret = "run" /\ running = NoEvent
    /\ created = 0
    /\ req = [e \in Event |-> NoReq]
    /\ ran = {} /\ gone = {} /\ revoked = {}
    /\ doomed = {} /\ halted = FALSE
-----------------------------------------------------------------------------
(***************************************************************************)
(* Calls made by user code on the main thread: the script outside Run, the *)
(* handler of an event, the handler of a destroy event.                    *)
(***************************************************************************)
UserCode == pc \in {"user", "event", "destroyEvent"}

ScheduleAt(kind, delay, context) == \E e \in Event :
    /\ UserCode
    /\ Create(e, kind, delay, context)
    /\ Insert(e, currentTs + delay, context)
    /\ UNCHANGED <<now, stops, destroyEvents, cancelled, injected, control>>

Schedule(delay) == ScheduleAt("schedule", delay, currentContext)

ScheduleNow == ScheduleAt("schedule", 0, currentContext)

\* ScheduleWithContext called on the main thread.
ScheduleWithContext(context, delay) == ScheduleAt("context", delay, context)

\* Stop (delay): an event whose handler is Simulator::Stop.
StopIn(delay) == ScheduleAt("stop", delay, currentContext)

ScheduleDestroy == \E e \in Event :
    /\ UserCode
    /\ Create(e, "destroy", 0, NoContext)
    /\ key' = [key EXCEPT ![e] = [ts |-> currentTs, context |-> NoContext,
                                  uid |-> DestroyUid]]
    /\ destroyEvents' = Append(destroyEvents, e)
    /\ uid' = NextUid
    /\ UNCHANGED <<now, unscheduledEvents, events, stops, cancelled, injected,
                   control>>

Stop ==
    /\ UserCode
    /\ stop' = TRUE /\ halted' = TRUE
    /\ UNCHANGED <<now, list, destroyEvents, cancelled, injected, control,
                   history>>

\* What the user means by revoking event e: it counts if e is still to run.
Revoke(e) ==
    /\ UserCode
    /\ e \in 1..created
    /\ Held(e)
    /\ revoked' = IF e \in gone THEN revoked ELSE revoked \cup {e}
    /\ UNCHANGED <<created, req, ran, doomed>>

Cancel(e) ==
    /\ Revoke(e)
    /\ cancelled' = IF IsExpired(e) THEN cancelled ELSE cancelled \cup {e}
    /\ UNCHANGED <<now, list, stops, destroyEvents, injected, control, gone>>

RemoveDestroyEvent(e) ==
    /\ Revoke(e)
    /\ key[e].uid = DestroyUid
    /\ \E i \in DOMAIN destroyEvents :
          /\ destroyEvents[i] = e
          /\ destroyEvents' = SubSeq(destroyEvents, 1, i - 1)
                    \o SubSeq(destroyEvents, i + 1, Len(destroyEvents))
    /\ gone' = gone \cup {e}
    /\ UNCHANGED <<now, list, stops, cancelled, injected, control>>

\* Bugs: the early return for expired ids is missing; the counter is not
\* maintained.
RemoveEventUnguarded(e) ==
    /\ Revoke(e)
    /\ key[e].uid # DestroyUid
    /\ events' = events \ {e}
    /\ cancelled' = cancelled \cup {e}
    /\ unscheduledEvents' = unscheduledEvents - 1
    /\ gone' = gone \cup {e}
    /\ UNCHANGED <<now, uid, key, stops, destroyEvents, injected, control>>
RemoveEventNoCount(e) ==
    /\ Revoke(e)
    /\ key[e].uid # DestroyUid
    /\ ~IsExpired(e)
    /\ events' = events \ {e}
    /\ cancelled' = cancelled \cup {e}
    /\ gone' = gone \cup {e}
    /\ UNCHANGED <<now, uid, key, unscheduledEvents, stops, destroyEvents,
                   injected, control>>
RemoveEvent(e) ==
    /\ Revoke(e)
    /\ key[e].uid # DestroyUid
    /\ ~IsExpired(e)
    /\ events' = events \ {e}
    /\ cancelled' = cancelled \cup {e}
    /\ unscheduledEvents' = unscheduledEvents - 1
    /\ gone' = gone \cup {e}
    /\ UNCHANGED <<now, uid, key, stops, destroyEvents, injected, control>>

\* Remove of an id whose event is no longer in a list, or was cancelled.
RemoveExpired(e) ==
    /\ Revoke(e)
    /\ IF key[e].uid = DestroyUid THEN e \notin Range(destroyEvents)
                                  ELSE IsExpired(e)
    /\ UNCHANGED <<now, list, stops, destroyEvents, cancelled, injected,
                   control, gone>>

Remove(e) == RemoveDestroyEvent(e) \/ RemoveEvent(e) \/ RemoveExpired(e)
-----------------------------------------------------------------------------
(***************************************************************************)
(* ScheduleWithContext called on any other thread.  The push and the flag  *)
(* are one critical section; the one read of the flag outside the mutex    *)
(* (CheckFlag) cannot tell it from a step.                                 *)
(***************************************************************************)
\* A bug: the flag is not cleared.
InjectUnseen(context, delay) == \E e \in Event :
    /\ pc # "disposed"
    /\ Create(e, "thread", delay, context)
    /\ eventsWithContext' = Append(eventsWithContext, e)
    /\ UNCHANGED <<now, list, stops, destroyEvents, cancelled, control,
                   eventsWithContextEmpty>>
InjectWithContext(context, delay) == \E e \in Event :
    /\ pc # "disposed"
    /\ Create(e, "thread", delay, context)
    /\ eventsWithContext' = Append(eventsWithContext, e)
    /\ eventsWithContextEmpty' = FALSE
    /\ UNCHANGED <<now, list, stops, destroyEvents, cancelled, control>>
-----------------------------------------------------------------------------
(***************************************************************************)
(* ProcessEventsWithContext, called at the start of Run, after each event, *)
(* and by DoDispose; ret says by whom.                                     *)
(***************************************************************************)
\* The unprotected read of the flag.
CheckFlag ==
    /\ pc = "drain"
    /\ pc' = IF eventsWithContextEmpty THEN ret ELSE "swap"
    /\ UNCHANGED <<now, list, stops, destroyEvents, cancelled, injected,
                   swapped, ret, running, history>>

\* A bug: the queue is copied, not swapped.
CopyQueues ==
    /\ pc = "swap"
    /\ pc' = "insert"
    /\ swapped' = eventsWithContext
    /\ eventsWithContextEmpty' = TRUE
    /\ UNCHANGED <<now, list, stops, destroyEvents, cancelled,
                   eventsWithContext, ret, running, history>>

\* The critical section.
SwapQueues ==
    /\ pc = "swap"
    /\ pc' = "insert"
    /\ swapped' = eventsWithContext
    /\ eventsWithContext' = <<>>
    /\ eventsWithContextEmpty' = TRUE
    /\ UNCHANGED <<now, list, stops, destroyEvents, cancelled, ret, running,
                   history>>

\* A bug: the delay is taken for a time.
InsertSwappedAbsolute ==
    /\ pc = "insert" /\ swapped # <<>>
    /\ LET e == Head(swapped)
       IN Insert(e, req[e].delay, req[e].context)
    /\ swapped' = Tail(swapped)
    /\ UNCHANGED <<now, stops, destroyEvents, cancelled, injected, pc, ret,
                   running, history>>
InsertSwapped ==
    /\ pc = "insert" /\ swapped # <<>>
    /\ LET e == Head(swapped)
       IN Insert(e, currentTs + req[e].delay, req[e].context)
    /\ swapped' = Tail(swapped)
    /\ UNCHANGED <<now, stops, destroyEvents, cancelled, injected, pc, ret,
                   running, history>>

DrainDone ==
    /\ pc = "insert" /\ swapped = <<>>
    /\ pc' = ret
    /\ UNCHANGED <<now, list, stops, destroyEvents, cancelled, injected,
                   swapped, ret, running, history>>
-----------------------------------------------------------------------------
(***************************************************************************)
(* Simulator::Run.                                                         *)
(***************************************************************************)
Run ==
    /\ pc = "user"
    /\ pc' = "drain" /\ ret' = "run"
    /\ halted' = FALSE
    /\ UNCHANGED <<now, list, stop, destroyEvents, cancelled, injected,
                   swapped, running, history>>

\* A bug: m_stop keeps its value from before Run.
KeepStop ==
    /\ pc = "run"
    /\ pc' = "loop"
    /\ UNCHANGED <<now, list, stops, destroyEvents, cancelled, injected,
                   swapped, ret, running, history>>

\* m_stop is cleared after the drain: a Stop called before Run has no effect.
ClearStop ==
    /\ pc = "run"
    /\ pc' = "loop"
    /\ stop' = FALSE
    /\ UNCHANGED <<now, list, halted, destroyEvents, cancelled, injected,
                   swapped, ret, running, history>>

\* A bug: of events of the same time any is taken.
TakeNextByTime(e) ==
    /\ pc = "loop" /\ ~stop
    /\ e \in events
    /\ \A f \in events : key[e].ts <= key[f].ts
    /\ events' = events \ {e}
    /\ unscheduledEvents' = unscheduledEvents - 1
    /\ currentTs' = key[e].ts
    /\ currentContext' = key[e].context
    /\ currentUid' = key[e].uid
    /\ gone' = gone \cup {e}
    /\ UNCHANGED <<uid, key, destroyEvents, cancelled, injected, swapped,
                   created, req, revoked, doomed>>

\* The head of ProcessOneEvent: take the next event and move to its time.
TakeNext(e) ==
    /\ pc = "loop" /\ ~stop
    /\ e \in events
    /\ \A f \in events : ~Less(key[f], key[e])
    /\ events' = events \ {e}
    /\ unscheduledEvents' = unscheduledEvents - 1
    /\ currentTs' = key[e].ts
    /\ currentContext' = key[e].context
    /\ currentUid' = key[e].uid
    /\ gone' = gone \cup {e}
    /\ UNCHANGED <<uid, key, destroyEvents, cancelled, injected, swapped,
                   created, req, revoked, doomed>>

\* EventImpl::Invoke calls the handler, unless the event is cancelled; the
\* handler of a Stop (delay) event is the kernel's own Stop.
InvokeHandler(e) ==
    /\ TakeNext(e)
    /\ e \notin cancelled /\ req[e].kind # "stop"
    /\ pc' = "event" /\ running' = e /\ ran' = ran \cup {e}
    /\ UNCHANGED <<stops, ret>>

InvokeStop(e) ==
    /\ TakeNext(e)
    /\ e \notin cancelled /\ req[e].kind = "stop"
    /\ pc' = "drain" /\ ret' = "loop" /\ ran' = ran \cup {e}
    /\ stop' = TRUE /\ halted' = TRUE
    /\ UNCHANGED running

SkipCancelled(e) ==
    /\ TakeNext(e)
    /\ e \in cancelled
    /\ pc' = "drain" /\ ret' = "loop"
    /\ UNCHANGED <<stops, running, ran>>

ProcessOneEvent(e) == InvokeHandler(e) \/ InvokeStop(e) \/ SkipCancelled(e)

\* A bug: what Run does before its loop, clearing m_stop included, is in the
\* loop.
HandlerReturnsToRun ==
    /\ pc = "event"
    /\ pc' = "drain" /\ ret' = "run" /\ running' = NoEvent
    /\ UNCHANGED <<now, list, stops, destroyEvents, cancelled, injected,
                   swapped, history>>

\* The handler returns, and ProcessOneEvent goes on to the drain.
HandlerReturns ==
    /\ pc = "event"
    /\ pc' = "drain" /\ ret' = "loop" /\ running' = NoEvent
    /\ UNCHANGED <<now, list, stops, destroyEvents, cancelled, injected,
                   swapped, history>>

\* A bug: the loop leaves the last event in the list.
RunReturnsEarly ==
    /\ pc = "loop" /\ (unscheduledEvents <= 1 \/ stop)
    /\ pc' = "user"
    /\ UNCHANGED <<now, list, stops, destroyEvents, cancelled, injected,
                   swapped, ret, running, history>>
RunReturns ==
    /\ pc = "loop" /\ (events = {} \/ stop)
    /\ pc' = "user"
    /\ UNCHANGED <<now, list, stops, destroyEvents, cancelled, injected,
                   swapped, ret, running, history>>
-----------------------------------------------------------------------------
(***************************************************************************)
(* Simulator::Destroy: the destroy events, then DoDispose.                 *)
(***************************************************************************)
Destroy ==
    /\ pc = "user"
    /\ pc' = "destroy"
    /\ UNCHANGED <<now, list, stops, destroyEvents, cancelled, injected,
                   swapped, ret, running, history>>

ProcessDestroyEvent ==
    /\ pc = "destroy" /\ destroyEvents # <<>>
    /\ LET e == Head(destroyEvents)
       IN /\ gone' = gone \cup {e}
          /\ IF e \in cancelled
               THEN UNCHANGED <<pc, running, ran>>
               ELSE pc' = "destroyEvent" /\ running' = e /\ ran' = ran \cup {e}
    /\ destroyEvents' = Tail(destroyEvents)
    /\ UNCHANGED <<now, list, stops, cancelled, injected, swapped, ret,
                   created, req, revoked, doomed>>

DestroyHandlerReturns ==
    /\ pc = "destroyEvent"
    /\ pc' = "destroy" /\ running' = NoEvent
    /\ UNCHANGED <<now, list, stops, destroyEvents, cancelled, injected,
                   swapped, ret, history>>

\* Bugs: Destroy does not wait for the last destroy event; DoDispose does not
\* drain.
BeginDisposeUndrained ==
    /\ pc = "destroy" /\ destroyEvents = <<>>
    /\ pc' = "dispose" /\ ret' = "dispose"
    /\ doomed' = 1..created
    /\ UNCHANGED <<now, list, stops, destroyEvents, cancelled, injected,
                   swapped, running, lives>>
BeginDisposeEarly ==
    /\ pc = "destroy"
    /\ pc' = "drain" /\ ret' = "dispose"
    /\ doomed' = 1..created
    /\ UNCHANGED <<now, list, stops, destroyEvents, cancelled, injected,
                   swapped, running, lives>>

\* Destroy returns; dropping the last reference calls DoDispose, which drains.
BeginDispose ==
    /\ pc = "destroy" /\ destroyEvents = <<>>
    /\ pc' = "drain" /\ ret' = "dispose"
    /\ doomed' = 1..created
    /\ UNCHANGED <<now, list, stops, destroyEvents, cancelled, injected,
                   swapped, running, lives>>

\* DoDispose drops the events that are left, without running them.
DisposeEvent(e) ==
    /\ pc = "dispose"
    /\ e \in events
    /\ \A f \in events : ~Less(key[f], key[e])
    /\ events' = events \ {e}
    /\ gone' = gone \cup {e}
    /\ UNCHANGED <<now, uid, unscheduledEvents, key, stops, destroyEvents,
                   cancelled, injected, control, created, req, ran, revoked,
                   doomed>>

Disposed ==
    /\ pc = "dispose" /\ events = {}
    /\ pc' = "disposed"
    /\ UNCHANGED <<now, list, stops, destroyEvents, cancelled, injected,
                   swapped, ret, running, history>>
-----------------------------------------------------------------------------
UserStep ==
    \/ \E d \in Delays : Schedule(d) \/ StopIn(d)
    \/ \E d \in Delays, c \in Nodes : ScheduleWithContext(c, d)
    \/ ScheduleNow \/ ScheduleDestroy \/ Stop
    \/ \E e \in Event : Cancel(e) \/ Remove(e)
    \/ Run \/ Destroy

ThreadStep == \E d \in Delays, c \in Nodes : InjectWithContext(c, d)

KernelStep ==
    \/ CheckFlag \/ SwapQueues \/ InsertSwapped \/ DrainDone
    \/ ClearStop \/ RunReturns
    \/ \E e \in Event : ProcessOneEvent(e) \/ DisposeEvent(e)
    \/ ProcessDestroyEvent \/ BeginDispose \/ Disposed

HandlerStep == HandlerReturns \/ DestroyHandlerReturns

Next == UserStep \/ ThreadStep \/ KernelStep \/ HandlerStep

\* Kernel code keeps running, and every handler returns.  Nothing obliges
\* another thread, or the script, to do anything.
Fairness == WF_vars(KernelStep) /\ WF_vars(HandlerStep)

Spec == Init /\ [][Next]_vars /\ Fairness
-----------------------------------------------------------------------------
(***************************************************************************)
(* Properties.                                                             *)
(***************************************************************************)
Key == [ts : Nat, context : Context, uid : Nat]
Req == [kind : Kind \cup {"none"}, at : Nat, delay : Nat, context : Context]
PC  == {"user", "drain", "swap", "insert", "run", "loop", "event",
        "destroy", "destroyEvent", "dispose", "disposed"}

\* Every variable has its type.
TypeOK ==
    /\ currentTs \in Nat /\ currentUid \in Nat /\ currentContext \in Context
    /\ uid \in 0..(UidSpace - 1)
    /\ unscheduledEvents \in Nat
    /\ stop \in BOOLEAN /\ halted \in BOOLEAN
    /\ events \in SUBSET Event
    /\ destroyEvents \in Seq(Event)
    /\ cancelled \in SUBSET Event
    /\ key \in [Event -> Key]
    /\ eventsWithContext \in Seq(Event) /\ swapped \in Seq(Event)
    /\ eventsWithContextEmpty \in BOOLEAN
    /\ pc \in PC /\ ret \in {"run", "loop", "dispose"}
    /\ running \in Event \cup {NoEvent}
    /\ created \in 0..MaxEvents
    /\ req \in [Event -> Req]
    /\ ran \in SUBSET Event /\ gone \in SUBSET Event
    /\ revoked \in SUBSET Event /\ doomed \in SUBSET Event

\* The five places an event can be in.
Places == <<events, Range(destroyEvents), Range(eventsWithContext),
            Range(swapped), gone>>

\* No event is lost or duplicated on its way from the caller, through the
\* queue of injected events and its swap, into the list and out of it: every
\* event the program created is in exactly one place, and in a queue once.
Conserved ==
    /\ \A e \in Event : e <= created <=>
                            \E i \in DOMAIN Places : e \in Places[i]
    /\ \A i, j \in DOMAIN Places : i # j => Places[i] \cap Places[j] = {}
    /\ \A s \in {destroyEvents, eventsWithContext, swapped} : IsInjective(s)

\* m_unscheduledEvents counts the list, so that the consistency test at the
\* end of Run (NS_ASSERT) holds; DoDispose no longer maintains the counter.
CountsEvents ==
    pc \notin {"dispose", "disposed"} =>
        unscheduledEvents = Cardinality(events)

\* IsExpired, computed from time stamps and uids, says exactly whether the
\* event of an id still waits: neither taken nor removed nor cancelled.
ExpiredIsSettled ==
    UserCode => \A e \in 1..created :
        Held(e) => (IsExpired(e) <=> e \in gone \cup cancelled)

\* An event cancelled or removed while it waited never runs, whatever its
\* time stamp and whoever asks, a handler of the same time included.
RevokedNeverRuns == revoked \cap ran = {}

Due(e) == req[e].at + req[e].delay

SameCaller(e, f) == req[e].kind = "thread" <=> req[f].kind = "thread"

\* e ought to run before f: it is earlier in the list, or due no later and
\* asked for first.  An injected event is due its delay after the drain that
\* takes it, so only the order of the injections relates it to another.
MustPrecede(e, f) ==
    \/ e \in events /\ key[e].ts < key[f].ts
    \/ /\ e < f
       /\ SameCaller(e, f)
       /\ IF req[e].kind = "thread" THEN req[e].delay <= req[f].delay
                                    ELSE Due(e) <= Due(f)

\* Events run in the order of their time stamps and, for the same time, in
\* the order they were scheduled, injected events included: no event is
\* still waiting that ought to have run before one that ran.
ExecutionOrder ==
    \A r \in ran, e \in events \cup Range(eventsWithContext) \cup Range(swapped) :
        req[r].kind # "destroy" => ~MustPrecede(e, r)

\* A handler runs in the context it was asked for and at the time it was
\* asked for; an injected event, which waits for a drain, never before.
RunsAsRequested ==
    pc = "event" =>
        /\ currentContext = req[running].context
        /\ IF req[running].kind = "thread" THEN currentTs >= Due(running)
                                           ELSE currentTs = Due(running)

\* GetDelayLeft is the time until the event is due as long as it waits.
DelayLeftExact ==
    UserCode => \A e \in events :
        req[e].kind = "schedule" /\ e \notin cancelled =>
            GetDelayLeft(e) = Due(e) - currentTs

\* The flag read without the mutex is right whenever it is read.
FlagTracksQueue == eventsWithContextEmpty <=> eventsWithContext = <<>>

\* Destroy runs every destroy event that was not cancelled or removed, those
\* that destroy events schedule included, before anything is dropped.
DestroyEventsRun ==
    pc \in {"dispose", "disposed"} => \A e \in 1..created :
        req[e].kind = "destroy" => (e \in ran <=> e \notin revoked)

\* After Stop, called by the script, by a handler or as the event of a
\* Stop (delay), no handler runs until Run is called again: nothing on the way
\* back to the loop clears m_stop.
StopHonoured ==
    [][halted => \A e \in ran' \ ran : req[e].kind = "destroy"]_vars

\* Only a Stop called since Run was called ends it while events wait: an
\* m_stop left from an earlier Run, or set before this one, does not.
RunsUntilStopped ==
    [][pc = "loop" /\ pc' = "user" => events = {} \/ halted]_vars

\* Disposal leaves nothing behind: every event that existed when it began is
\* gone when it ends, one that another thread had injected included.
DisposesAll == pc = "disposed" => doomed \subseteq gone

\* The kernel uses its event list as Scheduler allows, and takes events from
\* it in the order Scheduler promises.
EventList == INSTANCE Scheduler WITH
    queue <- {key[e] : e \in events},
    last  <- [ts |-> currentTs, uid |-> currentUid]

UsesScheduler == EventList!Spec

InRun == \/ pc \in {"run", "loop", "event"}
         \/ pc \in {"drain", "swap", "insert"} /\ ret # "dispose"

\* An event in the list is taken or removed unless Stop is called in this Run:
\* Run does not return and leave it, nor do others keep it waiting for ever.
PendingTaken ==
    \A e \in Event : (InRun /\ e \in events) ~> (e \in gone \/ halted)

\* An event injected while a handler runs is picked up by the next drain.
InjectedTaken ==
    \A e \in Event : (pc = "event" /\ e \in Range(eventsWithContext))
                        ~> e \notin Range(eventsWithContext)

(***************************************************************************)
(* What the documentation says and the code does not do.                   *)
(***************************************************************************)
\* "The simulation will run until [...] no events are present anymore": when
\* Run returns without a Stop, no injected event waits either.
RunDrainsQueue ==
    [][pc = "loop" /\ pc' = "user" /\ ~stop => eventsWithContext = <<>>]_vars

\* Run returns "when the expiration time of the next event to be processed is
\* greater than or equal to the stop time": while a Stop (delay) waits, only
\* events before its time run.
StopTimeHonoured ==
    [][\A r \in ran' \ ran, s \in events :
          req[s].kind = "stop" /\ r # s /\ req[r].kind # "destroy" =>
              key[r].ts < key[s].ts]_vars
=============================================================================
