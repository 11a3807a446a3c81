-------------------------- MODULE Visualizer_proofs --------------------------
(***************************************************************************)
(* Proofs about Visualizer, for every number of clicks and pauses, every   *)
(* set of sample periods and every depth of nested callbacks.              *)
(***************************************************************************)
EXTENDS Visualizer, SequenceTheorems, TLAPS

\* The simulation thread has the lock while it runs and until its results are
\* published.
LockExact == lock = "sim" <=> sim_pc \in {"run", "post"}

\* It runs only towards a target that lies ahead.
RunsToTarget == sim_pc = "run" => now < target_time

TypeInv == TypeOK /\ LockExact /\ RunsToTarget

LEMMA ClickIsTimer ==
    ASSUME TypeInv, clicks < MaxClicks
    PROVE  clicks + 2 \in Timer /\ clicks + 1 \in 0..MaxClicks
BY VisualizerAssumption DEF TypeInv, TypeOK, Timer

\* The new target lies within one period of now and within the bound.
LEMMA TargetType ==
    ASSUME TypeInv
    PROVE  NextTarget \in 0..MaxTime /\ NextTarget <= now + period
<1>1. now \in 0..MaxTime /\ period \in Nat \ {0} /\ MaxTime \in Nat
  BY VisualizerAssumption DEF TypeInv, TypeOK
<1> QED BY <1>1 DEF NextTarget, Earlier

LEMMA FramesShorter ==
    ASSUME TypeInv, frames # <<>>
    PROVE  /\ frames[Len(frames)] \in Timer
           /\ SubSeq(frames, 1, Len(frames) - 1) \in Seq(Timer)
<1>1. frames \in Seq(Timer) /\ Len(frames) \in Nat \ {0}
  BY EmptySeq DEF TypeInv, TypeOK
<1>2. \A i \in 1..(Len(frames) - 1) : frames[i] \in Timer
  BY <1>1
<1> QED BY <1>1, <1>2, SubSeqProperties

LEMMA InitTypes == Init => TypeInv
<1> SUFFICES ASSUME Init PROVE TypeInv
  OBVIOUS
<1> USE DEF Init
<1>1. /\ target_time \in 0..MaxTime /\ now \in 0..MaxTime
      /\ viewed \in 0..MaxTime /\ clicks \in 0..MaxClicks
      /\ halts \in 0..MaxStops /\ 1 \in Timer
      /\ raised \in 0..MaxPauses /\ idle \in Nat
  BY VisualizerAssumption DEF Timer
<1>2. /\ kernel_pauses \in Seq(Pause) /\ pause_messages \in Seq(Pause)
      /\ shown \in Seq(Pause) /\ frames \in Seq(Timer)
  OBVIOUS
<1>3. /\ lock \in {"free", "sim"} /\ go \in BOOLEAN /\ quit \in BOOLEAN
      /\ sim_pc \in {"top", "wait", "clear", "check", "acquire", "run", "post",
                     "ended"}
      /\ samples \in BOOLEAN /\ main \in {"loop", "model", "wake", "join", "ended"}
      /\ timers \subseteq Timer /\ timeout_id \in Timer \cup {NoTimer}
      /\ play \in BOOLEAN /\ period \in Periods /\ lead \in Periods
      /\ lost \in BOOLEAN
  BY <1>1, Zenon
<1>4. TypeOK
  BY <1>1, <1>2, <1>3, Zenon DEF TypeOK
<1>5. LockExact /\ RunsToTarget
  BY DEF LockExact, RunsToTarget
<1> QED BY <1>4, <1>5 DEF TypeInv

\* The steps of the simulation thread outside the lock.
LEMMA SimOutsideTypes ==
    ASSUME TypeInv, SimTop \/ SimWait \/ SimClear \/ SimCheck
    PROVE  TypeInv'
<1>1. /\ UNCHANGED <<lock, quit, target_time, now, kernel_pauses, raised, halts,
                     pause_messages, samples, idle, main, frames, timers,
                     timeout_id, play, period, clicks, shown, viewed, lead, lost>>
      /\ go' \in {go, FALSE}
      /\ sim_pc \notin {"run", "post"}
      /\ sim_pc' \in {"ended", "wait", "clear", "check", "acquire"}
  BY DEF SimTop, SimWait, SimClear, SimCheck, view
<1>2. go' \in BOOLEAN
  BY <1>1 DEF TypeInv, TypeOK
<1>3. TypeOK'
  BY <1>1, <1>2 DEF TypeInv, TypeOK
<1>4. LockExact' /\ RunsToTarget'
  BY <1>1 DEF TypeInv, LockExact, RunsToTarget
<1> QED BY <1>3, <1>4 DEF TypeInv

LEMMA SimRunUntilTypes == TypeInv /\ SimRunUntil => TypeInv'
<1> SUFFICES ASSUME TypeInv, SimRunUntil PROVE TypeInv'
  OBVIOUS
<1>1. /\ UNCHANGED <<go, quit, target_time, now, raised, halts, pause_messages, idle,
                     main, frames, timers, timeout_id, play, period, clicks,
                     shown, viewed, lead>>
      /\ lock' = "sim" /\ kernel_pauses' = <<>> /\ samples' = FALSE
      /\ sim_pc' = IF now >= target_time THEN "post" ELSE "run"
  BY DEF SimRunUntil, view
<1>2. lost' \in BOOLEAN
  <2>1. lost' = (lost \/ samples)
    BY DEF SimRunUntil
  <2> QED BY <2>1, Zenon
<1>3. kernel_pauses' \in Seq(Pause)
  BY <1>1
<1>4. TypeOK'
  BY <1>1, <1>2, <1>3 DEF TypeInv, TypeOK
<1>5. now \in Int /\ target_time \in Int
  BY DEF TypeInv, TypeOK
<1>6. LockExact' /\ RunsToTarget'
  BY <1>1, <1>5 DEF LockExact, RunsToTarget
<1> QED BY <1>4, <1>6 DEF TypeInv

LEMMA SimRunTypes == TypeInv /\ SimRun => TypeInv'
<1> SUFFICES ASSUME TypeInv, SimRun PROVE TypeInv'
  OBVIOUS
<1>1. /\ UNCHANGED <<lock, go, quit, target_time, pause_messages, idle, main,
                     frames, timers, timeout_id, play, period, clicks, shown,
                     viewed, lead, lost>>
      /\ sim_pc = "run"
  BY DEF SimRun, view
<1>2. /\ now \in 0..MaxTime /\ target_time \in 0..MaxTime /\ now < target_time
      /\ raised \in 0..MaxPauses /\ kernel_pauses \in Seq(Pause)
      /\ MaxTime \in Nat /\ MaxPauses \in Nat
  BY <1>1, VisualizerAssumption DEF TypeInv, TypeOK, RunsToTarget
<1>3. CASE /\ now' = now + 1 /\ samples' = TRUE
           /\ sim_pc' = IF now + 1 >= target_time THEN "post" ELSE "run"
           /\ UNCHANGED <<kernel_pauses, raised, halts>>
  <2>1. now' \in 0..MaxTime
    BY <1>2, <1>3
  <2>2. TypeOK'
    BY <1>1, <1>3, <2>1 DEF TypeInv, TypeOK
  <2>3. LockExact' /\ RunsToTarget'
    BY <1>1, <1>2, <1>3 DEF TypeInv, LockExact, RunsToTarget
  <2> QED BY <2>2, <2>3 DEF TypeInv
<1>4. CASE /\ raised < MaxPauses /\ raised' = raised + 1
           /\ kernel_pauses' = Append(kernel_pauses, raised + 1)
           /\ UNCHANGED <<now, samples, sim_pc, halts>>
  <2>1. raised' \in 0..MaxPauses /\ raised + 1 \in Pause
    BY <1>2, <1>4 DEF Pause
  <2>2. kernel_pauses' \in Seq(Pause)
    BY <1>2, <1>4, <2>1
  <2>3. TypeOK'
    BY <1>1, <1>4, <2>1, <2>2 DEF TypeInv, TypeOK
  <2>4. LockExact' /\ RunsToTarget'
    BY <1>1, <1>4 DEF TypeInv, LockExact, RunsToTarget
  <2> QED BY <2>3, <2>4 DEF TypeInv
<1>5. CASE /\ halts < MaxStops /\ halts' = halts + 1
           /\ sim_pc' = "post"
           /\ UNCHANGED <<now, samples, kernel_pauses, raised>>
  <2>1. halts' \in 0..MaxStops
    BY <1>5, VisualizerAssumption DEF TypeInv, TypeOK
  <2>2. TypeOK'
    BY <1>1, <1>5, <2>1 DEF TypeInv, TypeOK
  <2>3. LockExact' /\ RunsToTarget'
    BY <1>1, <1>5 DEF TypeInv, LockExact, RunsToTarget
  <2> QED BY <2>2, <2>3 DEF TypeInv
<1> QED BY <1>3, <1>4, <1>5 DEF SimRun

LEMMA SimPostTypes == TypeInv /\ SimPost => TypeInv'
<1> SUFFICES ASSUME TypeInv, SimPost PROVE TypeInv'
  OBVIOUS
<1>1. /\ UNCHANGED <<go, quit, target_time, now, kernel_pauses, raised, halts,
                     samples, main, frames, timers, timeout_id, play, period,
                     clicks, shown, viewed, lead, lost>>
      /\ pause_messages' = pause_messages \o kernel_pauses
      /\ idle' = idle + 1 /\ lock' = "free" /\ sim_pc' = "top"
  BY DEF SimPost, view
<1>2. pause_messages' \in Seq(Pause) /\ idle' \in Nat
  BY <1>1, ConcatProperties DEF TypeInv, TypeOK
<1>3. TypeOK'
  BY <1>1, <1>2 DEF TypeInv, TypeOK
<1>4. LockExact' /\ RunsToTarget'
  BY <1>1 DEF LockExact, RunsToTarget
<1> QED BY <1>3, <1>4 DEF TypeInv

LEMMA CallbackTypes ==
    ASSUME TypeInv,
           \/ BeginUpdateModel \/ UpdateModel \/ Joined \/ MainEnds
    PROVE  TypeInv'
<1>1. /\ UNCHANGED <<lock, go, quit, target_time, sim_pc, now, kernel_pauses,
                     raised, halts, pause_messages, frames, timers, timeout_id, play,
                     period, clicks, shown, viewed, lead, lost>>
      /\ samples' \in {samples, FALSE}
      /\ main' \in {"loop", "model", "wake", "join", "ended"}
      /\ idle' = idle \/ (idle > 0 /\ idle' = idle - 1)
  BY DEF BeginUpdateModel, UpdateModel, Joined, MainEnds, sim
<1>2. samples' \in BOOLEAN /\ idle' \in Nat
  <2>1. samples \in BOOLEAN /\ idle \in Nat
    BY DEF TypeInv, TypeOK
  <2>2. idle' \in Nat
    BY <1>1, <2>1
  <2>3. samples' \in BOOLEAN
    BY <1>1, <2>1, Zenon
  <2> QED BY <2>2, <2>3
<1> QED BY <1>1, <1>2 DEF TypeInv, TypeOK, LockExact, RunsToTarget

LEMMA TimerFiresTypes ==
    ASSUME TypeInv, NEW t \in Timer, TimerFires(t)
    PROVE  TypeInv'
<1>1. /\ UNCHANGED <<lock, go, quit, target_time, sim_pc, now, kernel_pauses,
                     raised, halts, pause_messages, samples, idle, main, timers,
                     timeout_id, play, period, clicks, shown, viewed, lead, lost>>
      /\ frames' = Append(frames, t)
  BY DEF TimerFires, sim
<1>2. frames' \in Seq(Timer)
  BY <1>1 DEF TypeInv, TypeOK
<1> QED BY <1>1, <1>2 DEF TypeInv, TypeOK, LockExact, RunsToTarget

LEMMA StartTimerTypes ==
    ASSUME TypeInv, clicks < MaxClicks, StartUpdateTimer
    PROVE  timers' \subseteq Timer /\ timeout_id' \in Timer \cup {NoTimer}
BY ClickIsTimer DEF StartUpdateTimer, TypeInv, TypeOK

LEMMA TogglePlayTypes == TypeInv /\ TogglePlay => TypeInv'
<1> SUFFICES ASSUME TypeInv, TogglePlay PROVE TypeInv'
  OBVIOUS
<1>1. /\ UNCHANGED <<lock, go, quit, target_time, sim_pc, now, kernel_pauses,
                     raised, halts, pause_messages, samples, idle, main, frames,
                     period, shown, viewed, lead, lost>>
      /\ clicks < MaxClicks /\ clicks' = clicks + 1
      /\ play' = ~play
  BY DEF TogglePlay, sim
<1>2. timers' \subseteq Timer /\ timeout_id' \in Timer \cup {NoTimer}
  <2>1. CASE StartUpdateTimer
    BY <1>1, <2>1, StartTimerTypes
  <2>2. CASE timers' = timers \ {timeout_id} /\ timeout_id' = timeout_id
    BY <2>2 DEF TypeInv, TypeOK
  <2> QED BY <2>1, <2>2 DEF TogglePlay
<1>3. clicks' \in 0..MaxClicks /\ play' \in BOOLEAN
  <2>1. clicks' \in 0..MaxClicks
    BY <1>1, ClickIsTimer
  <2>2. play' \in BOOLEAN
    BY <1>1, Zenon
  <2> QED BY <2>1, <2>2
<1> QED BY <1>1, <1>2, <1>3 DEF TypeInv, TypeOK, LockExact, RunsToTarget

LEMMA SpeedChangedTypes ==
    ASSUME TypeInv, NEW p \in Periods, SpeedChanged(p)
    PROVE  TypeInv'
<1>1. /\ UNCHANGED <<lock, go, quit, target_time, sim_pc, now, kernel_pauses,
                     raised, halts, pause_messages, samples, idle, main, frames,
                     play, shown, viewed, lead, lost>>
      /\ clicks < MaxClicks /\ clicks' = clicks + 1
      /\ period' = p /\ StartUpdateTimer
  BY DEF SpeedChanged, sim
<1>2. timers' \subseteq Timer /\ timeout_id' \in Timer \cup {NoTimer}
  BY <1>1, StartTimerTypes
<1>3. clicks' \in 0..MaxClicks
  BY <1>1, ClickIsTimer
<1> QED BY <1>1, <1>2, <1>3 DEF TypeInv, TypeOK, LockExact, RunsToTarget

LEMMA QuitTypes == TypeInv /\ Quit => TypeInv'
<1> SUFFICES ASSUME TypeInv, Quit PROVE TypeInv'
  OBVIOUS
<1>1. /\ UNCHANGED <<lock, target_time, sim_pc, now, kernel_pauses, raised,
                     halts, pause_messages, samples, idle, frames, play,
                     period, clicks, shown, viewed, lead, lost>>
      /\ timers' \in {timers, timers \ {timeout_id}}
      /\ timeout_id' \in {timeout_id, NoTimer}
      /\ quit' \in {quit, TRUE} /\ go' \in {go, TRUE}
      /\ main' \in {"wake", "join"}
  BY DEF Quit, sim
<1>2. timers' \subseteq Timer /\ timeout_id' \in Timer \cup {NoTimer}
  BY <1>1 DEF TypeInv, TypeOK
<1>3. quit' \in BOOLEAN /\ go' \in BOOLEAN
  BY <1>1 DEF TypeInv, TypeOK
<1> QED BY <1>1, <1>2, <1>3 DEF TypeInv, TypeOK, LockExact, RunsToTarget

LEMMA UpdateViewTypes == TypeInv /\ UpdateView => TypeInv'
<1> SUFFICES ASSUME TypeInv, UpdateView PROVE TypeInv'
  OBVIOUS
<1>1. /\ UNCHANGED <<lock, quit, sim_pc, now, kernel_pauses, raised, halts, samples,
                     idle, main, period, clicks, lost>>
      /\ frames # <<>> /\ lock = "free"
      /\ frames' = SubSeq(frames, 1, Len(frames) - 1)
      /\ shown' = shown \o pause_messages
      /\ pause_messages' = <<>>
      /\ viewed' = now /\ lead' = period
      /\ target_time' = NextTarget
      /\ timers' \subseteq timers
      /\ timeout_id' \in {NoTimer, timeout_id}
  BY DEF UpdateView, sim
<1>2. play' \in BOOLEAN /\ go' \in BOOLEAN
  <2>1. play' = ~Paused /\ go' = (go \/ ~Paused)
    BY DEF UpdateView
  <2> QED BY <2>1, Zenon
<1>3. frames' \in Seq(Timer)
  BY <1>1, FramesShorter
<1>4. shown' \in Seq(Pause) /\ pause_messages' \in Seq(Pause)
  BY <1>1, ConcatProperties DEF TypeInv, TypeOK
<1>5. target_time' \in 0..MaxTime /\ viewed' \in 0..MaxTime
  BY <1>1, TargetType DEF TypeInv, TypeOK
<1>6. timers' \subseteq Timer /\ timeout_id' \in Timer \cup {NoTimer}
  BY <1>1 DEF TypeInv, TypeOK
<1>7. TypeOK'
  BY <1>1, <1>2, <1>3, <1>4, <1>5, <1>6 DEF TypeInv, TypeOK
<1>8. LockExact' /\ RunsToTarget'
  BY <1>1 DEF TypeInv, LockExact, RunsToTarget
<1> QED BY <1>7, <1>8 DEF TypeInv

LEMMA NextTypes == TypeInv /\ [Next]_vars => TypeInv'
<1> SUFFICES ASSUME TypeInv, [Next]_vars PROVE TypeInv'
  OBVIOUS
<1>1. CASE SimStep
  BY <1>1, SimOutsideTypes, SimRunUntilTypes, SimRunTypes, SimPostTypes
     DEF SimStep
<1>2. CASE BeginUpdateModel \/ UpdateModel \/ Joined \/ MainEnds
  BY <1>2, CallbackTypes
<1>3. CASE TimerStep
  BY <1>3, TimerFiresTypes DEF TimerStep
<1>4. CASE \E p \in Periods : SpeedChanged(p)
  BY <1>4, SpeedChangedTypes
<1>5. CASE UNCHANGED vars
  BY <1>5 DEF vars, sim, view, TypeInv, TypeOK, LockExact, RunsToTarget
<1> QED BY <1>1, <1>2, <1>3, <1>4, <1>5, UpdateViewTypes, TogglePlayTypes,
           QuitTypes DEF Next

LEMMA Typed == Spec => []TypeInv
BY InitTypes, NextTypes, PTL DEF Spec

\* Every variable keeps its type; the simulation thread holds the lock exactly
\* while it runs, so that no callback of the main loop sees a moving kernel.
THEOREM TypeCorrect == Spec => []TypeOK
<1>1. TypeInv => TypeOK
  BY DEF TypeInv
<1> QED BY <1>1, Typed, PTL
-----------------------------------------------------------------------------
(* The messages of the simulation. *)

LEMMA PausesStep ==
    ASSUME TypeInv, PausesKept, SimRunUntil \/ SimRun \/ SimPost \/ UpdateView
    PROVE  PausesKept'
<1> DEFINE s == shown
           p == pause_messages
           k == kernel_pauses
           all == [i \in 1..raised |-> i]
<1>1. s \in Seq(Pause) /\ p \in Seq(Pause) /\ k \in Seq(Pause)
      /\ raised \in Nat
  BY VisualizerAssumption DEF TypeInv, TypeOK
<1>2. s \o p \in Seq(Pause)
  BY <1>1, ConcatProperties
<1>3. CASE SimRunUntil
  BY <1>3 DEF SimRunUntil, PausesKept
<1>4. CASE SimPost
  <2>1. lock = "sim" /\ lock' = "free" /\ shown' = s
        /\ pause_messages' = p \o k /\ raised' = raised
    BY <1>4 DEF SimPost, TypeInv, LockExact
  <2>2. s \o p \o k = all
    BY <2>1 DEF PausesKept
  <2>3. s \o (p \o k) \o <<>> = s \o p \o k
    <3>1. s \o (p \o k) = s \o p \o k
      BY <1>1, ConcatAssociative
    <3>2. s \o p \o k \in Seq(Pause)
      BY <1>1, <1>2, ConcatProperties
    <3> QED BY <3>1, <3>2, ConcatEmptySeq
  <2> HIDE DEF s, p, k
  <2>4. (shown \o pause_messages \o
           (IF lock = "sim" THEN kernel_pauses ELSE <<>>))'
          = s \o (p \o k) \o <<>>
    BY <2>1
  <2> QED BY <2>1, <2>2, <2>3, <2>4 DEF PausesKept
<1>5. CASE UpdateView
  <2>1. lock = "free" /\ lock' = "free" /\ shown' = s \o p
        /\ pause_messages' = <<>> /\ raised' = raised
    BY <1>5 DEF UpdateView, sim
  <2>2. s \o p \o <<>> = all
    BY <2>1 DEF PausesKept
  <2>3. s \o p \o <<>> = s \o p
    BY <1>2, ConcatEmptySeq
  <2> HIDE DEF s, p, k
  <2>4. (shown \o pause_messages \o
           (IF lock = "sim" THEN kernel_pauses ELSE <<>>))'
          = s \o p \o <<>> \o <<>>
    BY <2>1
  <2> QED BY <2>1, <2>2, <2>3, <2>4 DEF PausesKept
<1>6. CASE SimRun
  <2>1. lock = "sim" /\ lock' = "sim" /\ UNCHANGED <<shown, pause_messages>>
    BY <1>6 DEF SimRun, TypeInv, LockExact
  <2>2. CASE UNCHANGED <<kernel_pauses, raised>>
    BY <2>1, <2>2 DEF PausesKept
  <2>3. CASE /\ raised' = raised + 1
             /\ kernel_pauses' = Append(kernel_pauses, raised + 1)
             /\ raised < MaxPauses
    <3>1. s \o p \o k = all
      BY <2>1 DEF PausesKept
    <3>2. raised + 1 \in Pause
      BY <1>1, <2>3, VisualizerAssumption DEF Pause
    <3>3. s \o p \o Append(k, raised + 1) = Append(s \o p \o k, raised + 1)
      <4>1. <<raised + 1>> \in Seq(Pause)
        BY <3>2
      <4>2. s \o p \o k \in Seq(Pause)
        BY <1>1, <1>2, ConcatProperties
      <4>3. (s \o p) \o (k \o <<raised + 1>>) = ((s \o p) \o k) \o <<raised + 1>>
        BY <1>1, <1>2, <4>1, ConcatAssociative
      <4>4. Append(k, raised + 1) = k \o <<raised + 1>>
        BY <1>1, <3>2, AppendIsConcat
      <4>5. Append(s \o p \o k, raised + 1) = s \o p \o k \o <<raised + 1>>
        BY <3>2, <4>2, AppendIsConcat
      <4> QED BY <4>3, <4>4, <4>5
    <3>4. Append(all, raised + 1) = [i \in 1..(raised + 1) |-> i]
      BY <1>1
    <3> HIDE DEF s, p, k, all
    <3>5. (shown \o pause_messages \o
             (IF lock = "sim" THEN kernel_pauses ELSE <<>>))'
            = s \o p \o Append(k, raised + 1)
      BY <2>1, <2>3 DEF s, p, k
    <3> QED BY <2>3, <3>1, <3>3, <3>4, <3>5 DEF PausesKept
  <2> QED BY <1>6, <2>2, <2>3 DEF SimRun
<1> QED BY <1>3, <1>4, <1>5, <1>6

LEMMA NextPauses == TypeInv /\ PausesKept /\ [Next]_vars => PausesKept'
<1> SUFFICES ASSUME TypeInv, PausesKept, [Next]_vars PROVE PausesKept'
  OBVIOUS
<1>1. CASE SimRunUntil \/ SimRun \/ SimPost \/ UpdateView
  BY <1>1, PausesStep
<1>2. CASE UNCHANGED <<lock, shown, pause_messages, kernel_pauses, raised>>
  BY <1>2 DEF PausesKept
<1>3. CASE SimTop \/ SimWait \/ SimClear \/ SimCheck
  BY <1>2, <1>3 DEF SimTop, SimWait, SimClear, SimCheck
<1>4. CASE \/ BeginUpdateModel \/ UpdateModel \/ TimerStep \/ Joined \/ MainEnds
  BY <1>2, <1>4 DEF BeginUpdateModel, UpdateModel, TimerStep, TimerFires,
                    Joined, MainEnds, sim
<1>5. CASE TogglePlay \/ (\E p \in Periods : SpeedChanged(p)) \/ Quit
  BY <1>2, <1>5 DEF TogglePlay, SpeedChanged, Quit, sim
<1>6. CASE UNCHANGED vars
  BY <1>2, <1>6 DEF vars, sim
<1> QED BY <1>1, <1>3, <1>4, <1>5, <1>6 DEF Next, SimStep

\* No pause message is lost, doubled or put out of order between the thread
\* that raises it and the dialogs of nested callbacks that show it.
THEOREM PausesCorrect == Spec => []PausesKept
<1>1. Init => PausesKept
  <2> SUFFICES ASSUME Init PROVE PausesKept
    OBVIOUS
  <2>1. shown = <<>> /\ pause_messages = <<>> /\ lock = "free" /\ raised = 0
    BY DEF Init
  <2>2. <<>> \o <<>> \o <<>> = [i \in 1..0 |-> i]
    OBVIOUS
  <2> QED BY <2>1, <2>2 DEF PausesKept
<1> QED BY <1>1, Typed, NextPauses, PTL DEF Spec
-----------------------------------------------------------------------------
(* The simulation and the view. *)

\* The new target does not lie behind the simulation.
LEMMA TargetAhead ==
    ASSUME TypeInv
    PROVE  now <= NextTarget
<1>1. now \in 0..MaxTime /\ period \in Nat \ {0} /\ MaxTime \in Nat
  BY VisualizerAssumption DEF TypeInv, TypeOK
<1> QED BY <1>1 DEF NextTarget, Earlier

LEMMA NextView ==
    ASSUME TypeInv, StaysWithView, [Next]_vars
    PROVE  StaysWithView'
<1>1. now \in Nat /\ viewed \in Nat /\ target_time \in Nat /\ period \in Nat
  BY VisualizerAssumption DEF TypeInv, TypeOK
<1>2. CASE UNCHANGED <<now, viewed, lead, target_time>>
  BY <1>2 DEF StaysWithView
<1>3. CASE SimRun
  <2>1. /\ UNCHANGED <<viewed, lead, target_time>>
        /\ now' = now \/ now' = now + 1
        /\ now < target_time
    BY <1>3 DEF SimRun, TypeInv, RunsToTarget, view
  <2>2. now' <= target_time
    BY <1>1, <2>1
  <2> QED BY <2>1, <2>2 DEF StaysWithView
<1>4. CASE UpdateView
  <2>1. viewed' = now /\ lead' = period /\ now' = now /\ target_time' = NextTarget
    BY <1>4 DEF UpdateView, sim
  <2> QED BY <2>1, TargetType, TargetAhead DEF StaysWithView
<1>5. CASE SimTop \/ SimWait \/ SimClear \/ SimCheck \/ SimRunUntil \/ SimPost
  BY <1>2, <1>5 DEF SimTop, SimWait, SimClear, SimCheck, SimRunUntil, SimPost
<1>6. CASE \/ BeginUpdateModel \/ UpdateModel \/ TimerStep \/ Joined \/ MainEnds
  BY <1>2, <1>6 DEF BeginUpdateModel, UpdateModel, TimerStep, TimerFires,
                    Joined, MainEnds, sim
<1>7. CASE TogglePlay \/ (\E q \in Periods : SpeedChanged(q)) \/ Quit
  BY <1>2, <1>7 DEF TogglePlay, SpeedChanged, Quit, sim
<1>8. CASE UNCHANGED vars
  BY <1>2, <1>8 DEF vars, sim
<1> QED BY <1>3, <1>4, <1>5, <1>6, <1>7, <1>8 DEF Next, SimStep

\* However many timers, nested callbacks, stale go signals and changes of speed
\* there are, the simulation stays within its target, and that within one
\* period, the one in force when the view was updated, of what the view shows.
THEOREM ViewCorrect == Spec => []StaysWithView
<1>1. Init => StaysWithView
  <2> SUFFICES ASSUME Init PROVE StaysWithView
    OBVIOUS
  <2>1. now = 0 /\ viewed = 0 /\ target_time = 0 /\ lead \in Nat
    BY VisualizerAssumption DEF Init
  <2> QED BY <2>1 DEF StaysWithView
<1>2. TypeInv /\ StaysWithView /\ [Next]_vars => StaysWithView'
  BY NextView
<1> QED BY <1>1, <1>2, Typed, PTL DEF Spec
=============================================================================
