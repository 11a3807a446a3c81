----------------------------- MODULE Visualizer -----------------------------
(***************************************************************************)
(* The live visualizer, core.py: the simulation runs in a thread of its    *)
(* own, one period at a time, and the main thread runs the Gtk main loop   *)
(* and shows the state the simulation stopped in.  They share the lock of  *)
(* the simulation, an event "go" and the flag "quit".                      *)
(*                                                                         *)
(* A timer calls update_view_timeout.  While the simulation holds the lock *)
(* it runs the main loop inside itself, so that any other callback, the    *)
(* callback of another timer too, may run before it goes on: "frames" is   *)
(* the stack of such calls.                                                *)
(***************************************************************************)
EXTENDS Integers, Sequences, FiniteSets

CONSTANTS
    MaxTime,     \* bound on the simulation time
    Periods,     \* the values of sample_period
    MaxClicks,   \* bound on what the user does
    MaxPauses,   \* bound on the calls of PyViz::Pause
    MaxStops     \* bound on the calls of Simulator::Stop by the scenario

ASSUME VisualizerAssumption ==
    /\ MaxTime \in Nat /\ MaxClicks \in Nat /\ MaxPauses \in Nat
    /\ MaxStops \in Nat
    /\ Periods \subseteq Nat \ {0} /\ Periods # {}

\* Source ids: building the window starts a timer, a click at most one more.
Timer   == 1..(MaxClicks + 1)
NoTimer == 0                 \* None
Pause   == 1..MaxPauses

VARIABLES
    lock,           \* free or sim: the view never keeps it over a step
    go,             \* the event
    quit,
    target_time,
    sim_pc,         \* where the simulation thread is
    now,            \* the simulation time
    kernel_pauses,  \* PyViz::m_pauseMessages
    pause_messages, \* of the simulation thread
    samples,        \* the kernel holds samples that update_model did not read
    idle,           \* update_model callbacks that wait in the main loop
    main,           \* main thread: loop, model, wake, join or ended
    frames,         \* calls of update_view_timeout that wait for the lock
    timers,         \* timers of the main loop
    timeout_id,     \* _update_timeout_id
    play,           \* the play button is down
    period,         \* sample_period
    clicks,         \* what the user did
    \* History
    raised,         \* pause messages raised
    halts,          \* runs that the scenario's own Stop ended
    shown,          \* pause messages in a dialog, in order
    viewed,         \* simulation time when the view was last updated
    lead,           \* sample_period at that moment
    lost            \* samples were cleared before update_model read them

sim  == <<sim_pc, now, kernel_pauses, raised, halts>>
view == <<main, frames, timers, timeout_id, play, period, clicks>>
vars == <<lock, go, quit, target_time, sim, pause_messages, samples, idle,
          view, shown, viewed, lead, lost>>

Init ==
    /\ lock = "free" /\ go = FALSE /\ quit = FALSE /\ target_time = 0
    /\ sim_pc = "top" /\ now = 0
    /\ kernel_pauses = <<>> /\ pause_messages = <<>>
    /\ samples = FALSE /\ idle = 0
    /\ main = "loop" /\ frames = <<>>
    /\ timers = {1} /\ timeout_id = 1
    /\ play = FALSE /\ period \in Periods /\ clicks = 0
    /\ raised = 0 /\ halts = 0 /\ shown = <<>>
    /\ viewed = 0 /\ lead = period /\ lost = FALSE
-----------------------------------------------------------------------------
(* SimulationThread.run. *)

\* while not self.quit
SimTop ==
    /\ sim_pc = "top"
    /\ sim_pc' = IF quit THEN "ended" ELSE "wait"
    /\ UNCHANGED <<lock, go, quit, target_time, now, kernel_pauses, raised,
                   halts, pause_messages, samples, idle, view, shown, viewed,
                   lead, lost>>

\* self.go.wait ()
SimWait ==
    /\ sim_pc = "wait"
    /\ go
    /\ sim_pc' = "clear"
    /\ UNCHANGED <<lock, go, quit, target_time, now, kernel_pauses, raised,
                   halts, pause_messages, samples, idle, view, shown, viewed,
                   lead, lost>>

\* self.go.clear ()
SimClear ==
    /\ sim_pc = "clear"
    /\ go' = FALSE
    /\ sim_pc' = "check"
    /\ UNCHANGED <<lock, quit, target_time, now, kernel_pauses, raised,
                   halts, pause_messages, samples, idle, view, shown, viewed,
                   lead, lost>>

SimCheck ==
    /\ sim_pc = "check"
    /\ sim_pc' = IF quit THEN "ended" ELSE "acquire"
    /\ UNCHANGED <<lock, go, quit, target_time, now, kernel_pauses, raised,
                   halts, pause_messages, samples, idle, view, shown, viewed,
                   lead, lost>>

\* A bug: it runs even if the time has come.
SimRunUntilAlways ==
    /\ sim_pc = "acquire"
    /\ lock = "free"
    /\ lock' = "sim"
    /\ kernel_pauses' = <<>>
    /\ samples' = FALSE
    /\ lost' = (lost \/ samples)
    /\ sim_pc' = "run"
    /\ UNCHANGED <<go, quit, target_time, now, raised, halts, pause_messages,
                   idle, view, shown, viewed, lead>>

\* The lock, and SimulatorRunUntil up to the run: the messages and samples of
\* the last run are cleared, and there is no run if the time has come.
SimRunUntil ==
    /\ sim_pc = "acquire"
    /\ lock = "free"
    /\ lock' = "sim"
    /\ kernel_pauses' = <<>>
    /\ samples' = FALSE
    /\ lost' = (lost \/ samples)
    /\ sim_pc' = IF now >= target_time THEN "post" ELSE "run"
    /\ UNCHANGED <<go, quit, target_time, now, raised, halts, pause_messages,
                   idle, view, shown, viewed, lead>>

\* The simulation goes on, and may ask for a pause on the way.  It does not
\* stop for that: CallbackStopSimulation at the target time stops it, or a
\* Simulator::Stop of the scenario before.
SimRun ==
    /\ sim_pc = "run"
    /\ \/ /\ now' = now + 1
          /\ samples' = TRUE
          /\ sim_pc' = IF now + 1 >= target_time THEN "post" ELSE "run"
          /\ UNCHANGED <<kernel_pauses, raised, halts>>
       \/ /\ raised < MaxPauses
          /\ raised' = raised + 1
          /\ kernel_pauses' = Append(kernel_pauses, raised + 1)
          /\ UNCHANGED <<now, samples, sim_pc, halts>>
       \/ /\ halts < MaxStops
          /\ halts' = halts + 1
          /\ sim_pc' = "post"
          /\ UNCHANGED <<now, samples, kernel_pauses, raised>>
    /\ UNCHANGED <<lock, go, quit, target_time, pause_messages, idle, view,
                   shown, viewed, lead, lost>>

\* A bug: the messages of the last run take the place of those not yet shown.
SimPostReplace ==
    /\ sim_pc = "post"
    /\ pause_messages' = kernel_pauses
    /\ idle' = idle + 1
    /\ lock' = "free"
    /\ sim_pc' = "top"
    /\ UNCHANGED <<go, quit, target_time, now, kernel_pauses, raised, halts,
                   samples, view, shown, viewed, lead, lost>>

\* After the run, and the lock is released.
SimPost ==
    /\ sim_pc = "post"
    /\ pause_messages' = pause_messages \o kernel_pauses
    /\ idle' = idle + 1
    /\ lock' = "free"
    /\ sim_pc' = "top"
    /\ UNCHANGED <<go, quit, target_time, now, kernel_pauses, raised, halts,
                   samples, view, shown, viewed, lead, lost>>

SimStep == \/ SimTop \/ SimWait \/ SimClear \/ SimCheck \/ SimRunUntil
           \/ SimRun \/ SimPost
-----------------------------------------------------------------------------
(* The main loop and its callbacks. *)

\* The main loop takes callbacks: no other callback is in the way.  Once the
\* window is closed only a callback that still waits runs the main loop.
InLoop == main = "loop" /\ (~quit \/ frames # <<>>)

\* update_model has priority over the user's events and the timers.
Quiet == InLoop /\ idle = 0

\* update_model, called when idle: it waits for the lock without a loop.
BeginUpdateModel ==
    /\ InLoop
    /\ idle > 0
    /\ idle' = idle - 1
    /\ main' = "model"
    /\ UNCHANGED <<lock, go, quit, target_time, sim, pause_messages, samples,
                   frames, timers, timeout_id, play, period, clicks, shown,
                   viewed, lead, lost>>

UpdateModel ==
    /\ main = "model"
    /\ lock = "free"
    /\ samples' = FALSE
    /\ main' = "loop"
    /\ UNCHANGED <<lock, go, quit, target_time, sim, pause_messages, idle,
                   frames, timers, timeout_id, play, period, clicks, shown,
                   viewed, lead, lost>>

\* A timer that is not being served is due: update_view_timeout.
TimerFires(t) ==
    /\ Quiet
    /\ t \in timers
    /\ \A i \in DOMAIN frames : frames[i] # t
    /\ frames' = Append(frames, t)
    /\ UNCHANGED <<lock, go, quit, target_time, sim, pause_messages, samples,
                   idle, main, timers, timeout_id, play, period, clicks,
                   shown, viewed, lead, lost>>

Earlier(t, u) == IF t < u THEN t ELSE u

\* A bug: the next period starts where the last should have ended.
TargetByPeriod == Earlier(target_time + period, MaxTime)

\* Now () + sample_period; MaxTime is the bound of the model.
NextTarget == Earlier(now + period, MaxTime)

\* The state of the play button after the dialog: a message turns it off.
Paused == ~play \/ pause_messages # <<>>

\* The rest of the innermost update_view_timeout, once it gets the lock: the
\* view is updated and a new target set; the messages are shown and turn the
\* play button off, whose handler removes the timer; when paused, this timer
\* ends, else the simulation gets its go.
UpdateView ==
    /\ InLoop
    /\ frames # <<>>
    /\ lock = "free"
    /\ LET this == frames[Len(frames)]
           stop == play /\ pause_messages # <<>>
       IN /\ frames' = SubSeq(frames, 1, Len(frames) - 1)
          /\ shown' = shown \o pause_messages
          /\ pause_messages' = <<>>
          /\ viewed' = now /\ lead' = period
          /\ target_time' = NextTarget
          /\ play' = ~Paused
          /\ timers' = timers \ ((IF Paused THEN {this} ELSE {})
                                   \cup (IF stop THEN {timeout_id} ELSE {}))
          /\ timeout_id' = IF Paused THEN NoTimer ELSE timeout_id
          /\ go' = (go \/ ~Paused)
    /\ UNCHANGED <<lock, quit, sim, samples, idle, main, period, clicks, lost>>

\* _start_update_timer: the timer known, if any, is replaced.
StartUpdateTimer ==
    /\ timers' = (timers \ {timeout_id}) \cup {clicks + 2}
    /\ timeout_id' = clicks + 2

\* A bug: it counts on the timer that was started with the window.
TogglePlayUntimed ==
    /\ Quiet /\ ~quit
    /\ clicks < MaxClicks
    /\ clicks' = clicks + 1
    /\ play' = ~play
    /\ timers' = IF play THEN timers \ {timeout_id} ELSE timers
    /\ UNCHANGED timeout_id
    /\ UNCHANGED <<lock, go, quit, target_time, sim, pause_messages, samples,
                   idle, main, frames, period, shown, viewed, lead, lost>>

\* _on_play_button_toggled.
TogglePlay ==
    /\ Quiet /\ ~quit
    /\ clicks < MaxClicks
    /\ clicks' = clicks + 1
    /\ play' = ~play
    /\ \/ ~play /\ StartUpdateTimer
       \/ /\ play
          /\ timers' = timers \ {timeout_id}
          /\ UNCHANGED timeout_id
    /\ UNCHANGED <<lock, go, quit, target_time, sim, pause_messages, samples,
                   idle, main, frames, period, shown, viewed, lead, lost>>

\* _speed_changed.
SpeedChanged(p) ==
    /\ Quiet /\ ~quit
    /\ clicks < MaxClicks
    /\ clicks' = clicks + 1
    /\ period' = p
    /\ StartUpdateTimer
    /\ UNCHANGED <<lock, go, quit, target_time, sim, pause_messages, samples,
                   idle, main, frames, play, shown, viewed, lead, lost>>

\* A bug: the thread is woken before it is told to end.
QuitGoFirst ==
    /\ \/ /\ Quiet /\ ~quit
          /\ timers' = timers \ {timeout_id}
          /\ timeout_id' = NoTimer
          /\ go' = TRUE
          /\ main' = "wake"
          /\ UNCHANGED quit
       \/ /\ main = "wake"
          /\ quit' = TRUE
          /\ main' = "join"
          /\ UNCHANGED <<go, timers, timeout_id>>
    /\ UNCHANGED <<lock, target_time, sim, pause_messages, samples, idle,
                   frames, play, period, clicks, shown, viewed, lead, lost>>

\* _quit, when the window is closed, up to the join: the simulation thread is
\* told to end, then woken.
Quit ==
    /\ \/ /\ Quiet /\ ~quit
          /\ timers' = timers \ {timeout_id}
          /\ timeout_id' = NoTimer
          /\ quit' = TRUE
          /\ main' = "wake"
          /\ UNCHANGED go
       \/ /\ main = "wake"
          /\ go' = TRUE
          /\ main' = "join"
          /\ UNCHANGED <<quit, timers, timeout_id>>
    /\ UNCHANGED <<lock, target_time, sim, pause_messages, samples, idle,
                   frames, play, period, clicks, shown, viewed, lead, lost>>

\* The thread is joined; the main loop ends once the callbacks it is inside
\* of have returned.
Joined ==
    /\ main = "join"
    /\ sim_pc = "ended"
    /\ main' = "loop"
    /\ UNCHANGED <<lock, go, quit, target_time, sim, pause_messages, samples,
                   idle, frames, timers, timeout_id, play, period, clicks,
                   shown, viewed, lead, lost>>

MainEnds ==
    /\ main = "loop" /\ quit
    /\ frames = <<>>
    /\ main' = "ended"
    /\ UNCHANGED <<lock, go, quit, target_time, sim, pause_messages, samples,
                   idle, frames, timers, timeout_id, play, period, clicks,
                   shown, viewed, lead, lost>>

TimerStep == \E t \in Timer : TimerFires(t)

Next == \/ SimStep
        \/ BeginUpdateModel \/ UpdateModel
        \/ TimerStep \/ UpdateView
        \/ TogglePlay \/ (\E p \in Periods : SpeedChanged(p))
        \/ Quit \/ Joined \/ MainEnds

\* Both threads are scheduled, a run of the simulation reaches its target, the
\* main loop serves every callback that is due, and a callback that polls the
\* lock gets it if it is free time and again; what the user does is not
\* assumed.
Fairness ==
    /\ WF_vars(SimStep)
    /\ WF_vars(BeginUpdateModel) /\ WF_vars(UpdateModel)
    /\ WF_vars(main = "wake" /\ Quit) /\ WF_vars(Joined) /\ WF_vars(MainEnds)
    /\ \A t \in Timer : WF_vars(TimerFires(t))
    /\ \A n \in Timer : SF_vars(Len(frames) = n /\ UpdateView)

Spec == Init /\ [][Next]_vars /\ Fairness
-----------------------------------------------------------------------------
(* Properties. *)

TypeOK ==
    /\ lock \in {"free", "sim"}
    /\ go \in BOOLEAN /\ quit \in BOOLEAN
    /\ target_time \in 0..MaxTime /\ now \in 0..MaxTime
    /\ sim_pc \in {"top", "wait", "clear", "check", "acquire", "run", "post",
                   "ended"}
    /\ kernel_pauses \in Seq(Pause) /\ pause_messages \in Seq(Pause)
    /\ samples \in BOOLEAN /\ idle \in Nat
    /\ main \in {"loop", "model", "wake", "join", "ended"}
    /\ frames \in Seq(Timer)
    /\ timers \subseteq Timer /\ timeout_id \in Timer \cup {NoTimer}
    /\ play \in BOOLEAN /\ period \in Periods /\ clicks \in 0..MaxClicks
    /\ raised \in 0..MaxPauses /\ halts \in 0..MaxStops /\ shown \in Seq(Pause)
    /\ viewed \in 0..MaxTime /\ lead \in Periods /\ lost \in BOOLEAN

\* Every pause message the simulation raised reaches the user once and in
\* order: it was shown, or waits to be shown, or is held by the run under way.
PausesKept ==
    shown \o pause_messages \o (IF lock = "sim" THEN kernel_pauses ELSE <<>>)
        = [i \in 1..raised |-> i]

\* The simulation never runs past its target, and the target is never further
\* ahead of what the view shows than the period in force when the view was
\* updated, however many timers, go signals and changes of speed there were.
StaysWithView == now <= target_time /\ target_time <= viewed + lead

\* Closing the window ends both threads, whatever they were doing and however
\* deep the main loop was nested.
QuitEnds == quit ~> (main = "ended" /\ sim_pc = "ended")

\* While the play button stays down the simulation reaches any time.
PlayAdvances == (play /\ now < MaxTime) ~> (now = MaxTime \/ ~play \/ quit)

\* The comment at the signal: it is emitted after every period, so that each
\* period's samples are read.
EveryPeriodSampled == ~lost
=============================================================================
