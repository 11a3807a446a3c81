# Formal models of the ns-3 IoT simulator

This directory holds TLA+ models of the simulator in this repository (a fork of
ns-3.29 with IoT scenarios), configurations that check them with TLC, and proofs
that TLAPS checks. The first subject is the **simulation kernel**: the object every
model in the repository runs on, a place where threads meet, and the source of the
one promise everything else takes for granted, that events happen once, in order, and
not after they were cancelled. Around it stand the parts of the system with the most
state of their own: the **link** with its queues and flow control, **DHCP** server and
client, the **test runner** and the **live visualizer**, the last two being the
threaded programs of the repository's Python.

Contents: [inventory](#inventory), [plan](#plan), [the kernel](#the-kernel),
[the event lists](#the-event-lists), [the link](#the-link), [DHCP](#dhcp),
[the test runner](#the-test-runner), [the visualizer](#the-visualizer),
[what the runs show](#what-the-runs-show),
[bounds and fairness](#bounds-and-fairness), [proofs](#proofs),
[not modelled](#what-is-not-modelled), [how to run](#how-to-run).

## Inventory

Paths are relative to the repository root.

| Component | State | Operations | Interacts with |
|---|---|---|---|
| **Kernel**, `src/core/model/default-simulator-impl.cc` | clock (`m_currentTs`, `m_currentUid`, `m_currentContext`), `m_uid`, `m_stop`, `m_unscheduledEvents`, the event list `m_events`, `m_destroyEvents`, the queue `m_eventsWithContext` with its flag and mutex | `Schedule`, `ScheduleNow`, `ScheduleWithContext`, `ScheduleDestroy`, `Stop`, `Cancel`, `Remove`, `Run`, `Destroy`, `DoDispose`, `SetScheduler`, queries `IsExpired`, `GetDelayLeft`, `IsFinished` | calls handlers, which call it back; other threads push into the queue |
| **Events and ids**, `event-impl.cc`, `event-id.h` | `m_cancel`; an id holds copies of time stamp, context and uid | `Invoke`, `Cancel`, `IsCancelled`, `==` | kernel |
| **Front end**, `simulator.cc` | the pointer to the one kernel | forwards; creates the kernel on first use, drops it in `Destroy` | kernel |
| **Event lists**, `scheduler.h`, `map-`, `list-`, `heap-`, `calendar-scheduler.cc` | a set of keyed events in a tree, a list, a binary heap, a calendar queue | `Insert`, `PeekNext`, `RemoveNext`, `Remove`, `IsEmpty` | kernel |
| **DHCP**, `src/internet-apps/model/dhcp-server.cc`, `dhcp-client.cc` | leases with their remaining time, expired addresses, available addresses; client state, offers, four timers | offer, acknowledge, refuse, ageing timer; boot, offer, select, request, accept, rebind | network, kernel timers |
| **Application life cycle**, `src/network/model/application.cc`, and echo client and server, `src/applications/model/tcp-echo-*.cc` | start and stop events; sockets, send event, counters | start, stop, send, receive, dispose | kernel, sockets |
| **Point-to-point link**, `src/point-to-point/model/`, `src/network/utils/net-device-queue-interface.*`, `src/traffic-control/model/` | transmitter READY or BUSY, current packet, device queue with its byte count, the stop flag of its flow control; the bands of the queue disc, quota and running flag | send through the disc or past it, run the disc, wake, transmit complete, receive | kernel events, upper layers |
| **Test runner**, `test.py` | interrupt flag, input and output queue, jobs with their results, counters, results file | take, check, run, return a job; dispatch, collect, join; interrupt | worker threads, processes, operating system |
| **Live visualizer**, `src/visualizer/visualizer/core.py`, `src/visualizer/model/pyviz.cc` | lock, go event, quit flag, target time, pause messages, timers, play button and period | one period of simulation; view update, model update, play, speed, quit | simulation thread, Gtk main loop, kernel |
| **NAT**, `src/internet/model/ipv4-nat.cc` | static and dynamic rules, port pool | add and remove rules, next port | the netfilter hooks that would call it are commented out |
| **ARP cache**, `src/internet/model/arp-cache.cc` | entries in four states with pending packets and a retry timer | lookup, add, mark, time out, flush | ARP protocol, kernel |
| **CSMA**, `src/csma/model/` | channel IDLE, TRANSMITTING, PROPAGATING; backoff; device queue | sense, transmit, back off, propagate | kernel, queue |
| **IoT module**, `src/internet-of-things/` | an echo client's | as the echo client | not in the build |
| **Scenarios**, `scratch/*.cc` | none | set-up, `Run`, `Stop`, `Destroy` | everything |

Further parts (TCP, routing, Wi-Fi, LTE, WiMAX, mesh, realtime and distributed
simulators, bindings, DASH, vendored code) are listed in `PROJECT.json`
with the reason they are left out.

**What is hard here.** *Kernel.* It is single-threaded by contract but for one door:
any thread may call `ScheduleWithContext`. The door is guarded by a mutex, except for
one read of a flag. Handlers call back into the kernel in the middle of its loops:
they schedule at the current time, cancel the event that runs or one of the same
time stamp, stop the run, append to the list of destroy events while `Destroy`
iterates over it. Whether an event still waits is never stored; `IsExpired` infers it
from a stale copy of its key and the clock. The length of the event list is counted
apart from the list, in five places. The event lists keep derived state of their own
(heap order, day of the last event, size) that a removal from the middle or a resize
can break. *Link:* three components stop and wake each other through one flag and a
scheduled callback, while packet sockets fill the same queue without looking at the
flag, and each part counts on another to start it again. *DHCP:* the server ages
leases by a timer of its own, the client by four others, and they agree only because
of how the periods relate; messages get lost, old timers fire late. *Test runner:* a
flag that a signal sets at any moment decides about jobs that are between two queues;
processes end in every way there is. *Visualizer:* callbacks of the main loop run
inside one another while one of them polls for the lock of the simulation.
`PROJECT.json` lists these hazards line by line with the properties that
cover each.

**What makes each part correct.** *Kernel:* every event asked for is run exactly once
or revoked exactly once, at its time, in its context, in the order of times and calls;
`IsExpired` and `GetDelayLeft` tell the truth; a pending or injected event is not
forgotten. *Event lists:* a list loses nothing and hands out the earliest event,
whatever the mix of operations. *DHCP:* an address is held by one client at a time; a
client ends up bound if the network lets it. *Life cycle:* nothing of an application
runs after its stop. *Link:* packets of a band are delivered once, in order; flow
control loses none; neither transmitter nor disc is stuck with packets queued. *Test
runner:* no job is lost, success is claimed only when true, the run ends. *Visualizer:*
the view keeps up with the simulation, no pause message is lost, closing the window
ends both threads. *NAT:* ports in use are distinct and in range.

## Plan

The order is by how much of the system rests on a part.

1. **Kernel and event lists** (done). `EventKey`, `Scheduler` (abstract),
   `DefaultSimulator`, `DefaultSimulator_proofs`, `RequestProofs`; `SortedList`, `BinaryHeap`,
   `HeapScheduler`, `Calendar`, `CalendarScheduler`, `EventLists`. `DefaultSimulator` and
   `EventLists` both implement `Scheduler`: the kernel uses the list within its contract, and
   each list keeps it.
   Beside them `OrderedLists`, `HeapSteps` and `CalendarSteps` with `EventLists_proofs`: the list
   and the map, which need no recursive operator, and the heap and the calendar with their
   loops taken in steps.
2. **DHCP** (done). `DhcpServer`, `DhcpClient` (the handlers of each side), `Dhcp`
   (both over a network, with the clock).
3. **Link** (done). `FifoLink` (abstract), `PointToPoint`, which implements it for every
   band, `PointToPoint_proofs`.
4. **The Python programs** (done). `TestRunner`, `Visualizer`, each with its proofs.
5. **Application life cycle and echo** (left). `Application` (start and stop events,
   dispose) composed with the echo client and server; it needs a model of the TCP socket.
6. **CSMA, ARP cache, NAT port pool** (left). `Csma` would share the queue and the disc
   of `PointToPoint` and add the channel and the backoff.
7. **More proofs**. Done: `OneHolder`, `PoolConserved` and `KeepsAddress` of DHCP,
   `OneEntryEach` of the test runner, the refinement of `FifoLink` by the link, that every
   packet sent is accounted for, the refinement of `Scheduler` by the heap and the calendar.

## The kernel

`DefaultSimulator.tla` models `DefaultSimulatorImpl` with `EventImpl`, `EventId` and the
forwarding part of `Simulator`.

The **main thread** is a program counter `pc`. In `"user"` the script runs, in
`"event"` the handler of event `running`, in `"destroyEvent"` that of a destroy event;
there, and only there, user code may make any call, any number of times. All other
values are kernel code: `"loop"` is the head of `Run`'s loop, `"drain"`, `"swap"` and
`"insert"` are the three parts of `ProcessEventsWithContext` (the read of the flag,
the critical section, the loop over the local queue `swapped`), `ret` is where it
returns to. `"destroy"` and `"dispose"` are the loops of `Destroy` and `DoDispose`.
**Other threads** have no state but what they push: `InjectWithContext` is enabled at
every `pc`, so between any two steps of the drain.

| Code | Model |
|---|---|
| `m_currentTs`, `m_currentUid`, `m_currentContext` | `currentTs`, `currentUid`, `currentContext` |
| `m_uid`, `m_stop`, `m_unscheduledEvents` | `uid`, `stop`, `unscheduledEvents` |
| `m_events` | `events`, a set of event numbers; `key` gives their keys |
| `m_destroyEvents`, `m_eventsWithContext` | sequences of event numbers |
| `EventImpl::m_cancel` | membership in `cancelled` |
| an `EventId` | the number of the event (its fields are those of `key`) |
| `ProcessOneEvent` | `InvokeHandler`, `InvokeStop` or `SkipCancelled`, which share `TakeNext`; then `HandlerReturns` and the drain |
| `Remove` | `RemoveDestroyEvent`, `RemoveEvent` or `RemoveExpired`, one for each return |

History variables (`created`, `req`, `ran`, `gone`, `revoked`, `halted`, `doomed`) record
what was asked of the kernel and what it did: `halted` says that Stop was called since `Run`
was called last, unlike `stop`, which `Run` clears only after its first drain; `doomed` is
what existed when disposal began. No guard of a code step reads them except `req`, which holds
the arguments of a call until the kernel uses them (the delay and context of an
injected event, whether the handler is that of `Stop (delay)`), and `created`, which
numbers the events and bounds them.

Abstractions. The critical section is one step: within the mutex no other push can
intervene, and the only unprotected access is the read of the flag, which sees it before
or after. On hardware that could delay that read (it is a data race by the letter of
the standard) the outcome is that of reading it a little earlier, which the model
contains as an earlier `CheckFlag` followed by the push. The handler of
`Stop (delay)`, which only sets `m_stop`, runs within its step. `SetScheduler` leaves
the set of pending events as it is, so it is no step here; `EventLists` is about it.
Out of scope: a nested `Run` or `Destroy` from a handler, which nothing in the
repository does, and a second kernel after `Destroy`.

`Scheduler.tla` states what an event list promises and what its client owes it: the
client inserts events that sort after the last one taken and have a uid of their own;
the list hands out the earliest. `DefaultSimulator` implements it under the mapping
`queue <- {key[e] : e \in events}`, `last <- [ts |-> currentTs, uid |-> currentUid]`.

## The event lists

`EventLists.tla` drives the four classes through the interface, as the kernel does, and
lets the program change from any kind to any kind at any moment with every pending
event in it (`SetScheduler`). The map is the set of its keys with its least element, the
list a sequence kept in order, the heap the vector of the code with its sift
operations, the calendar a record of the members of the class with the code's search,
insertion, doubling and halving and its estimate of the width. These are pure functions
on the representation; their properties say that the derived state (heap order, sorted
buckets, day of the last event, size counter) is right after every sequence of
operations; that the list holds exactly the events inserted and not yet taken or
removed (`HoldsPending`, against the history variable `pending`); and that the event taken
is always the earliest of those (`ImplementsScheduler`, with `queue <- pending`).

`CalculateNewWidth` takes samples out and puts them back; `CalendarScheduler` computes the
same samples and leaves the calendar as it was, which the theorem `SamplesRestored` justifies. `PeekNext` and `DoRemoveNext` repeat one
search in the code; in the model the second uses the first, step counts included.

`OrderedLists` is the list and the map once more, side by side and under the same
calls, in a module without recursive operators: there the two are proved to hold the
same events, to hand out the same one, and to keep the contract of `Scheduler`, for any
number of events (see [proofs](#proofs)). `HeapSteps` is the heap once more, over the tree
of `BinaryHeap` that `HeapScheduler` uses as well, with each turn of the loops of `BottomUp`
(`Rise`) and `TopDown` (`Sink`) an action instead of a recursive call; no call begins
before the loop of the one before has ended (`sifting = "none"`). `CalendarSteps` is the
calendar of `Calendar` in the same manner: after an insertion or a removal `CalResize`
decides whether to resize, then `CalculateNewWidth` takes samples one by one (`TakeSample`)
and puts them back (`PutBack`), and `DoResize` sets the buckets aside (`SetAside`) and deals
their events (`Deal`). The width is any positive number there, as the estimate is at
least one and the order must not depend on it; `CalendarScheduler` computes it.

## The link

`PointToPoint.tla` models one direction of a link that is up, with its sending stack.

| Code | Model |
|---|---|
| `TrafficControlLayer::Send` (enqueue, then run) | `TcSend(b)`, which begins a run |
| `PacketSocket` to the device, past the disc | `DirectSend` |
| `QueueDisc::Run`, `Restart`, `DequeuePacket`, `Transmit` | `RunSend`, `RunEnd`, one packet a step; no other step comes between (`m_running`) |
| `PfifoFastQueueDisc` | `bands`, `FirstBand`, `DiscSize` |
| `NetDeviceQueue::PacketEnqueued`, `PacketDequeued`, `PacketDiscarded`, `Wake` | `StoppedAfterEnqueue`, `Dequeue`, `SendNoRoom`; the scheduled callback is the event `Wake` |
| `PointToPointNetDevice::Send`, `TransmitStart`, `TransmitComplete`, `Receive` | `SendReady`, `SendBusy`, `SendNoRoom`; `TransmitStart`; the events `TransmitComplete` and `Receive` |
| channel | the event `Receive`, `Delay` after the transmission |

The part of the event list that belongs to the link is in the model, with the order of
`EventKey`: a wake, an arrival and the end of a transmission of one moment come in the
order of their uids, and packets from above come before or after any of them. `Unit`
tells how the device queue counts: in packets (the default) or in bytes.

`FifoLink.tla` is what one band sees: a packet is accepted, then delivered in order or
lost. The mapping puts together the packets of a band on the wire, in the device queue
and in the disc, in this order.

## DHCP

`DhcpServer.tla` has the three tables of the server and its three handlers;
`SendOffer` in its four cases, `SendAck`, `TimerHandler`, which walks the map in an
order the model leaves open. `DhcpClient.tla` has a record per client and each
handler as an operator from record to record. The timers are a sequence of scheduled
calls; whether the client still has the `EventId` is part of it, because
`Simulator::Remove` reaches only those (`Select` is scheduled without keeping the id,
and a second `Schedule` into one id forgets the first). `Dhcp.tla` puts both on a
network of negligible delay: within a second messages, client timers and the server's
timer come in any order, which covers all phases the two may have (the server's timer is
first due in the second after its start); messages get lost, clients are stopped. The
server's own address is not among the addresses of the model: the server keeps it leased
to itself for ever and never puts it into the pool (`dhcp-server.cc:149`, `166`), so no
client is offered it. Clients of another server are there too: what they broadcast
reaches this server, which makes records for them; their request follows their last
discovery within the time a client collects offers. Removing from a list what fits a
condition (an expired client, the pending calls of a handler) is `Within` and `Kept`
of `Subsequences.tla`, which need no recursion and so can be proved about.

## The test runner

`TestRunner.tla` models `run_tests` of `test.py`: the main thread dispatches the jobs
(`Dispatch`), then a break job per worker (`DispatchBreak`), collects as many results as
there are jobs (`Collect`, `CollectBroken`), joins the workers and computes the exit code
(`Join`). A worker takes a job (`WorkerGet`), looks at the interrupt flag and at
`is_skip` (`WorkerCheck`), runs the process (`WorkerRun`) and returns the job. Each read of
the flag is a step of its own, so the interrupt comes before or after it. A process exits
with any code, leaves its results file absent, cut off or complete, writes output that
does not decode (which the runner turns into return code 1), or cannot be started at
all, which ends the worker (`WorkerDies`).

## The visualizer

`Visualizer.tla` models the simulation thread (`SimTop` to `SimPost`, one step for each
access to the lock, the event and the flag) and the Gtk main loop. `update_view_timeout`
polls for the lock and runs the main loop meanwhile, so that a second timer may enter
it before the first has gone on; `frames` is the stack of such calls, and only its
innermost may proceed (`UpdateView`). `update_model` is an idle callback that waits
for the lock without a loop. `PyViz::Pause` during a run appends a message; the run
goes on to its target, unless a `Simulator::Stop` of the scenario ends it before (at
most `MaxStops` times). Building the window sets the speed (`core.py:1041`), which starts the
first timer, so the view is updated once before the play button is pressed. Play and
speed are the user's, at most `MaxClicks` times, and quitting: `Quit` sets the flag and
then the event, in two steps, as the thread may test one in between.

## What the runs show

| Run | Configuration | Checks |
|---|---|---|
| `default_sim` | 3 events, delays 0 and 1, one node | nine invariants, three action properties and two liveness properties of the kernel |
| `event_lists` | 6 insertions, delays 0, 1 and 5, all four kinds; `HeapScheduler::Remove` not called | types, contents and size, the calendar's and the heap's consistency, refinement of `Scheduler` |
| `lost_injection` | 2 events | violates `RunDrainsQueue` |
| `stop_time` | 2 events | violates `StopTimeHonoured` |
| `heap_remove` | heap only, 7 insertions, `Remove` called | violates `RemovesEarliest` |
| `p2p` | 5 packets of sizes 1 and 2, two bands, one packet past the disc, device queue of 1, disc of 2, quota 1 | the link: types, transmitter, flow control, order per band (refinement of `FifoLink`), every packet settled |
| `dhcp` | 2 clients, 1 address, lease of 5 s, 7 s, one message lost, one client stopped, two messages of another server's client | one holder, conserved pool, address kept |
| `test_runner` | 3 jobs (a suite, one skipped, an example), 2 workers | jobs conserved, success is true, interrupt, results file, termination |
| `visualizer` | time up to 4, periods 1 and 2, the timer of the window, 2 clicks, 1 pause, 1 Stop of the scenario | pauses, distance of view and simulation, quitting, playing |
| `static_lease` | as `dhcp`, one static entry, no faults | violates `StaticReserved` |
| `valgrind_result` | as `test_runner` | violates `ValgrindReported` |
| `lost_samples` | as `visualizer`, time up to 3, 1 click | violates `EveryPeriodSampled` |

*Kernel properties.* `Conserved`: every event created is in exactly one place, and in
each queue once, across the swap and the drain. `ExecutionOrder`: nothing that ought to
have run before an event that ran is still waiting, injected events and events of one
time stamp included. `RunsAsRequested`: at its time and in its context; an injected
event not before its time. `ExpiredIsSettled`: the inference of `IsExpired` from time
stamp and uid agrees with the history for every id the user holds, at every moment it
can ask. `RevokedNeverRuns`: a `Cancel` or `Remove` made in time is final, whatever
follows. `CountsEvents`: the counter equals the length of the list (which is the
assertion at the end of `Run`, and more). `DestroyEventsRun`: those scheduled by destroy
events too. `UsesScheduler`: refinement.
`StopHonoured` and `RunsUntilStopped` are about where `m_stop` is set and cleared, and
compare it with the history: once Stop was called, by the script, a handler or the event
of a `Stop (delay)`, no event of the list runs until `Run` is called again, through all
that is drained meanwhile; and only such a call ends a `Run` while events wait, not an
`m_stop` left from before. `DisposesAll`: what existed when disposal began is gone at its
end, the events of other threads in the queue or in mid-drain too; without the drain of
`DoDispose` these would remain. An event injected during disposal is not covered, as the
code does nothing about it. Liveness: `PendingTaken`, an event in the list is taken or
removed unless Stop is called in this `Run`, so `Run` neither returns nor is kept busy for
ever with the event left behind; `InjectedTaken`, an event injected while a handler runs is
picked up.

*Link properties.* `TransmitterExact`: the transmitter is BUSY exactly while one
`TransmitComplete` for the packet it holds is to come, and nothing waits behind a READY
one (both assertions of the device, and more). `NeverDiscards`: the disc never hands the
device a packet it has no room for, even when a packet socket fills the queue in
between. `NeverStalls`: packets in the disc always have a run, a wake or, with the queue
stopped, the end of a transmission to come; a run that used up its quota schedules none
(`Run` in ns-3 has no softirq), so this is not plain. `FifoPerBand`: refinement of
`FifoLink` by every band. `EventuallySettled`: every packet is in the end refused,
discarded, lost on the wire or delivered.

*DHCP properties.* `OneHolder`: no address on the interfaces of two clients, whatever was
lost or stopped: a client's lease ends before the server gives its address away.
`PoolConserved`: every address is available or in exactly one record, a lease that ran
out is on the expired list, and of the server's own clients the list names no other,
and none twice. (A client of another server may be listed twice, or with a lease that
runs; see [proofs](#proofs).) `KeepsAddress`: on a network that
loses nothing a client has an address once it has collected offers, and keeps it over
every renewal.

*Test runner properties.* `JobsConserved`: a job is in one queue, with one worker or with
the main thread, once. `SuccessMeansPassed`: exit code 0 only if every job not skipped on
request had a process that exited with 0. `StopsStarting`: no process for a job taken
after the interrupt. `OneEntryEach`: the results file has the jobs collected and not
broken off, in order. `Terminates`: everything ends unless a worker dies (then `test.py`
hangs: the main thread waits for the result of a job nobody has any more).

*Visualizer properties.* `PausesKept`: every pause message is shown, or waits, once and
in order, although two threads write the list. `StaysWithView`: the simulation never
runs past its target, nor is the target further ahead of the view than the period in
force when the view was updated (`lead`), however many timers run and however the speed
changes. `QuitEnds`: closing
the window ends both threads, from any depth of nested loops. `PlayAdvances`: while the
play button is down, the simulation reaches any time.

*Disagreements with the documentation.*

- `heap_remove`. `HeapScheduler::Remove` (`heap-scheduler.cc:239`) only sifts down the
  element it moves into the gap. If that element comes from another branch it may have
  to rise; it does not, the heap order is broken, and `RemoveNext` returns an event that
  is not the earliest, against `scheduler.h:123`. In the kernel this trips the assertion
  `next.key.m_ts >= m_currentTs`, or, in an optimized build, moves the clock backward.
  With the delays of the run it takes seven insertions; six do not show it. The run
  `event_lists` leaves this one call out (`HeapRemoves = FALSE`), so that it says what
  holds of a heap from which events are only cancelled, not removed.
- `lost_injection`. `Run` returns when the list is empty even if another thread
  injected an event since the last drain (`default-simulator-impl.cc:200`);
  `simulator.h:138-140` says it runs until no events are present. The event is not lost
  (`Conserved` holds): the next `Run` takes it, or `DoDispose` drops it.
- `stop_time`. `Stop (delay)` is an ordinary event: events of the stop time scheduled
  before it still run (`default-simulator-impl.cc:221`), against `simulator.h:142-144`.

- `static_lease`. A static entry added before the start (as the test of the module does,
  `dhcp-test.cc:112`) takes its address out of a list that is filled only at the start
  (`dhcp-server.cc:415`, `163-171`): the address is leased to anyone, against
  `dhcp-server.h:61-64`. The assertion at 412 is reversed as well.
- `valgrind_result`. A suite with valgrind errors gets no VALGR entry in the results
  file (`test.py:1767`), against the comment at `test.py:1753-1755`. Summary and exit
  code do tell.
- `lost_samples`. The view can give the next go before the periodic callback of the
  last period ran; the next run then clears the samples (`core.py:1449`,
  `pyviz.cc:289-290`), against `core.py:706`. It takes a simulation slower than the timer.

Also met, without a run: `simulator.h:1229-1240` says that cancelling or testing a
destroy event crashes; the code handles both, and the model includes both calls.
`scratch/multiple-iot.cc:340-341` and `scratch/ddos.cc:267-268` call `Stop (10 s)` after
`Run` has returned, where it only adds an event that `Destroy` drops.

## Bounds and fairness

`MaxEvents = 3` lets two events of one time stamp surround a third that cancels,
removes, stops or injects; every hazard above needs at most three. Delays 0 and 1 give
equal and different times. One node and `NoContext` tell contexts apart. `UidSpace = 16`
is larger than any uid of the run (`NoWrap`), as 2^32 is in practice. The two violation
runs of the kernel need two events. In `event_lists` six insertions grow the calendar
from 2 to 4 buckets and shrink it to 1, with delays that stay within a day, cross to the
next, and skip a whole round of buckets; they fill three levels of the heap.
Deadlock is checked in the runs of the event lists; in the others
`CHECK_DEADLOCK FALSE`, because the system may really stop: a disposed kernel, a link
with all packets settled, a test run that ended or whose worker died, a closed
visualizer, and in DHCP the bound on time. That nothing stops too early is what the
liveness properties and `NeverStalls` say.

*Link:* a device queue of one and a quota of one make every packet pass a stop, a wake or
a used-up quota; five packets fill device, queue, disc and one more (refused); two
sizes make transmissions overlap arrivals; one packet past the disc finds the queue
free, full and stopped. *DHCP:* one address for two clients makes each new lease a reuse of an old one. The
times are the least that keep the margins of the proofs (see there): a lease of 5 s,
renewal at 1, rebinding at 2, two seconds to collect offers, one to wait for an
acknowledgement. Seven seconds hold a lease that is not renewed, because its client was
stopped, its end, and its reuse. The client of another server takes an address and asks for it or
for another one. Two more of its messages and two more seconds, which is too much for
two clients of this server, would have its ended lease revived and ended again and so
list it twice; what the server then does with the second entry (`OfferOld`) is in the
model and in the proofs, not in the run. The order of the
times is an assumption of the client (`Renew < Rebind < Lease`). *Test runner:* three jobs give
each kind one (suite, skipped, example) and let one worker hold a job while the other
takes the last; the workers are threads of one program, so two suffice for every race on
the queues. *Visualizer:* two clicks are play and speed, or play and pause; with the
timer of the window they make up to three timers, of which two may nest, and quitting takes
no click; time 4 with periods 1 and 2 gives runs of different length, and a bound that
is not the first target.

Fairness of the kernel is `WF_vars(KernelStep) /\ WF_vars(HandlerStep)`: the main thread keeps
executing kernel code, and handlers return. The first is the processor's; the second
is what every handler of a discrete-event simulation does, and `Run` could promise
nothing without it. Nothing is assumed of the script (it need not call `Run`) nor of
other threads (they need not inject). `PendingTaken` holds with this although handlers
may schedule for ever, because `MaxEvents` bounds them: with unboundedly many events at
one time stamp a later event would wait for ever, and the code offers no protection
against that.

*Link:* `WF_vars(Run) /\ WF_vars(Execute) /\ WF_vars(Advance)`: the kernel runs its events
(which `PendingTaken` shows) and time goes on; nobody has to send. *Test runner:* weak
fairness of the main thread and of each worker: the operating system schedules them
and processes end (`test.py` has no timeout); the interrupt is not assumed. *Visualizer:*
weak fairness of the simulation thread, of `update_model` and of every timer that is
due, as Gtk serves its sources; strong fairness of the callback that polls the lock
(at each depth of nesting), because it gets the lock only if it asks while the
simulation is waiting: the code tries the lock again and again without queueing for it,
so this is an assumption about time, not about the lock. The user is not assumed
to do anything. *DHCP* has no liveness property: in seconds, `KeepsAddress` says when.

## Proofs

`DefaultSimulator_proofs.tla` and `RequestProofs.tla` prove, for every number of events,
every set of delays and nodes, and every `UidSpace` under which `m_uid` does not wrap (`NoWrap`, the only
assumption beside the types of the constants), what the kernel promises:

| Theorem | States |
|---|---|
| `Invariance` | `Spec => []IInv`, the inductive invariant |
| `TypeCorrect`, `CounterExact`, `FlagCorrect` | types; the counter; the flag |
| `RevocationHolds`, `ExpiryExact`, `DelayLeftCorrect` | what `Cancel`, `Remove`, `IsExpired`, `GetDelayLeft` promise |
| `OrderCorrect` | order of execution |
| `EventsConserved` | no event lost or duplicated |
| `StopCorrect`, `RunCorrect` | `StopHonoured`, `RunsUntilStopped`: a Stop holds until the next `Run`, and no other ends one |
| `ImplementsScheduler` | the kernel refines `Scheduler` |
| `RequestsHonoured`, `DestroyComplete`, `DisposalComplete` (in `RequestProofs`) | the time and context of every handler; destroy events; nothing left by disposal |

Every safety property of the run `default_sim` is thereby proved, and two more that are not in
the run: `FlagTracksQueue`, which the invariant needs and whose consequences for injected
events `Conserved` and `InjectedTaken` check, and `DelayLeftExact`, the result of one query. The other modules of
proofs, for all values of the constants their modules allow:

| Module | Theorem | States |
|---|---|---|
| `EventLists_proofs` | `ImplementScheduler`, `SameOrder`, `ListsAgree` | list and map refine `Scheduler` and hand out the same event |
| | `HeapConserves` | the heap holds what was inserted and not taken or removed, each event once |
| | `HeapStaysOne`, `HeapImplementsScheduler` | between calls it is a heap, and it refines `Scheduler`, but for the flaw of `Remove` |
| | `CalendarRests` | between calls each event is in its bucket, in order; size and start of the search are right |
| | `SamplesRestored` | `Restored`: taking the samples and putting them back leaves the calendar as it was |
| | `CalendarImplementsScheduler` | the calendar refines `Scheduler`, through every resize and for every width |
| `PointToPoint_proofs` | `TypeCorrect`, `TransmitterCorrect` | `TypeOK`, `TransmitterExact` |
| | `FlowControlled`, `NoStall` | `NeverDiscards`, `NeverStalls`, for a device queue that counts packets |
| | `FifoCorrect` | `FifoPerBand`: the link refines `FifoLink` for every band, for such a queue |
| | `NothingLost` | each packet sent is in one place, once: on its way, received, or dropped for a reason; for any queue |
| `TestRunner_proofs` | `TypeCorrect`, `JobsConservedCorrect`, `StopsStartingCorrect`, `SuccessCorrect`, `EntriesCorrect` | `TypeOK`, `JobsConserved`, `StopsStarting`, `SuccessMeansPassed`, `OneEntryEach` |
| `Dhcp_proofs` | `TypeCorrect` | `TypeOK` |
| | `HoldersCorrect`, `PoolCorrect` | `OneHolder`, `PoolConserved`, for times that fit together and without static entries |
| | `AnswersInTime` | under the same assumptions, no request is late, and what a client takes is what the server keeps for it |
| | `KeepsCorrect` | `KeepsAddress`, for all times the client allows and any static entries |
| `Visualizer_proofs` | `TypeCorrect`, `PausesCorrect`, `ViewCorrect` | `TypeOK`, `PausesKept`, `StaysWithView` |

*Kernel.* The properties are far from inductive. `IInv` adds to them what the code relies on
silently: `Keys` (uids are distinct and below `m_uid`, and enough of them are left for
the injected events still in the queues), `Queues` (what is in the three queues, in the
order of the injections across the swap), `Placed` (an event with a uid is in the list
or gone, one without is in the queue its kind belongs to), `Timely` (all that waits sorts
after the event last taken, all that ran does not), `Ordered` (keys follow the order of
the calls; an injected event's time stamp lags by what the clock moved) and `Revoked`.
The proof first describes each step by what it does to the data (`WasScheduled`,
`WasTaken`, `WasDrained`, ...), shows that every action is one of these (`StepCases`),
and then takes each part of `IInv` through the cases. `IsExpired` is exact because of
`Timely` and `Keys`: a waiting event is after the clock, a settled one is not, and no two
share a uid. `StopExact` relates `m_stop` to the history: from the head of the loop on, the drain
after an event included, `stop` is `halted`; between the call of `Run` and `ClearStop` no user
code runs, so `halted` is false there and the old `stop` harmless. `RequestProofs` adds three
invariants on top of `IInv`: `Answered` (keys carry what was asked for, the current event is the one
whose handler runs), `DestroyDone` (a destroy event leaves its list only by running or by
the user's will, and the list is empty from the end of `Destroy` on) and `DisposalDrained`
(from the swap of the last drain on, none of the doomed events is in the shared queue, and
the list is empty at the end).

*Event lists.* `Agree` is inductive: the list is in order, has no uid twice, and its entries
are the map. What an insertion, the loss of the front and a removal do to an ordered
list are lemmas on sequences (`InsertKeepsOrder`, `TailKeepsOrder`, `RemoveKeepsOrder`);
that the place of insertion exists, the least index of a set, comes from the
well-foundedness of inclusion on finite sets.

*Heap.* In the middle of a loop the vector is `Dented`: a heap but for the element at
`index`, whose children are in order with its parent. An insertion dents it at the end, a
`RemoveNext` at the root; a turn of the loop moves the dent to the parent or to the
smaller child, and the loop ends where there is none (`RiseKeeps`, `SinkKeeps`). That the root
of a heap is the earliest is proved by least counterexample: an element before the root
would have its parent, at a smaller index, before the root as well (`RootEarliest`). No
induction over the depth is needed. `Remove` puts the last element in the middle, and the
dent is right for `TopDown` only if that element is not before its new parent. This is
all `HeapStaysOne` and `HeapImplementsScheduler` assume of it, as `[][NoneMustRise]_hvars`;
that it may happen is what the run `heap_remove` shows, so the proof says that the missing
`BottomUp` in `Remove` is the only fault of the class. `HeapConserves` does not assume it: out
of order or not, no event is lost.

*Calendar.* The heart is `SearchFinds`: a search that starts at the day of the last event taken
and goes once around the buckets finds the earliest event. `NotBefore` is the arithmetic
behind it: an event in the bucket reached after k steps, not before the first day, is k
days away, or k days and whole rounds. So the front of a bucket is before `bucketTop`
exactly if it is due on that bucket's day of this round; an event of a bucket passed over
is at least a round later, and one of a bucket not reached yet is of a later day. If
nothing is due in this round, the earliest of the fronts is the earliest of all. `CalInv` says
where the events are in each phase of a resize: all in the buckets (`Whole`), some among the
samples (`Sampled`, with `Sampling` for the state the search moves meanwhile), some still in
the old buckets (`Dealing`); that the samples never run out needs the cardinalities (`EnoughSamples`).
What happens to one bucket is by the lemmas on ordered lists, which `DealtInsert`, `DealtTail`
and `DealtRemove` carry over to the calendar. The samples were taken from different buckets
and at different days of the search, and are put back in another state of it; that the buckets
are the same again (`SamplesRestored`) is because their number, the width and the
events determine them: an ordered list is made out by its entries (`SameList`, again by the
least index at which two lists differ).

*Link.* That `m_nBytes` never falls below zero needs `BytesExact`: it is the last of the
partial sums of the sizes in the queue. `TransmitterExact` is inductive with the types.
For the flow control `FlagExact` says that the stop flag is set exactly while the device
queue is full, and `WakeFirst` that a pending wake is due at once, before the transmission
under way ends; `DiscardedDirect` follows, since a run looks at the flag before each
packet. `NoStall` rests on `AboutToSend`: a disc that may send holds only the packet its
run was begun for, or is about to fill the last place in the queue of a busy device, so
the quota never ends a run early. `FifoCorrect` is about `Flight`, the packets on the wire
in the order of their arrivals followed by the device queue: a packet the device takes
goes to its end, the end of a transmission moves one from the queue to the wire and
leaves it as it is, an arrival is its head. That the next packet arrives after all
others is `InTurn`, which has to relate the arrivals to the end of the transmission under
way, one gap and one delay apart; the wire is a set of events sorted by their keys,
so adding the last and taking the first of a sorted set are lemmas of their own
(`WireAppend`, `WireTail`). `InSent` says that what is in flight, waits or arrived was sent,
and that a band holds its own packets; by it a new packet changes nothing of what the
filters by band keep. A band then sees one step of `FifoLink` or none (`LinkStep`), in the
disc as well: a packet leaves its band and enters the flight in one step, and none is
lost on the way because the flag is exact. `Unit = "packets"` is an assumption of `FlowControlled`, `NoStall` and `FifoCorrect`; for a queue limited in bytes `NeverDiscards` and `NeverStalls` are false
of the code (the room for one more packet is judged by the MTU without the header of the
link, `net-device-queue-interface.h:373`), and a packet of a band may be lost between the
disc and the queue, in the middle of its channel. `NothingLost` needs no such assumption.
Its invariant gives every packet sent one fate out of six (`Located`): it waits in its
band, is in `Flight`, arrived, or was refused by the disc, discarded by the device or
corrupted on the wire; the sets and queues hold these packets and no others, each
once. A step sends one packet or moves one from one place to another (`NewPacket`,
`Relocated`), so that the fate of one packet changes and the rest stay (`Unmoved`).

What a sequence that is sorted, filtered, extended or shortened contains is the subject of
the lemmas of `Subsequences_proofs`, on which the proofs of the link, the test runner and
DHCP rest.

*Test runner.* `PlacedOnce` says where each job is, with the break jobs told apart.
`SuccessCorrect` needs `TallyExact` (each counter is the number of collected jobs of that
status), `ZeroReturned` and a count: passed and skipped jobs can only add up to the
total if every job is one of them. `EntriesCorrect` is by `WithinAppend`: the collected jobs
and the file grow by the same job, or the job is one the filter leaves out.

*DHCP.* What keeps two clients from one address is time: the server counts down a lease
once a second and hands its address out when it ends; the client takes the address off
its interface by a call it scheduled itself; nothing in the code compares the two. `Safe`
is the inductive invariant, on top of the types and of `Pooled` (each address is available or
in one record, and what ran out is listed):

- `Sound`, for each client: an address on its interface has its `Timeout` scheduled, and
  the server's record for that address lasts at least as long (`Lasting`); an address it
  has chosen from the offers, or is waiting an acknowledgement for, is its own for as long
  as it may still ask for it (`Selecting`, `Waiting`). All terms count the seconds left on
  both sides, with `Pending` for the tick the server's timer has still to make.
- `Messages`, for each client: an offer, a request or an acknowledgement on its way speaks
  of the address the server keeps for that client, with time left. `AnswersInTime` follows.
  `SendAck` relies on it: it acknowledges, and revives, a lease that ran out as well
  (`dhcp-server.cc:351`; the comment at 371 takes such a lease for refused), with the client
  still on the expired list. A client of another server, which collected offers and
  whose second `Discover` was lost, can get there, and is then listed twice or with a
  running lease; a client of this server cannot.
- `Apart`, for each pair: there is one second in which the server may already have given
  the address away while the `Timeout` of the old client is due; the new client has then
  only been offered it, and does not ask for it before the old one is done (`Patient`).
- `Listed` and `OneHolder`.

The proof describes what each handler of the server leaves of the leases (`Stays`,
`Grants`, `Answers`), what each of the client does to its calls (`Steps`), and what a tick
does to both (`Ticked`), and takes the parts of `Safe` through these. The assumptions:

- `Margins`: `Collect >= 2`, `Rebind + 2 <= Lease`, `NextOffer + Collect + 2 <= Lease`,
  `NextOffer + 2 <= Lease - Renew`, and `NextOffer + 2 <= Lease - Rebind` or
  `NextOffer > Lease - Rebind`. They say that every timer by which a client asks ends two
  seconds before the lease the request is about: one for the tick of either side. The
  defaults of the code (lease 30, renewal 15, rebinding 25, collection 5, waiting 10)
  satisfy them; the attributes can be set so that they do not, and the code does not check.
  They are not idle: with lease 4, `Rtrs` 8, collection 1, waiting 1, renewal 1, rebinding 2
  and nine lost messages TLC finds two holders after eleven seconds. The server ends the
  lease in the second before the `Timeout`, and the next client, which collects offers for
  only one second, has the address acknowledged in the second in which the old one lets go.
  That each margin is needed by itself is not claimed.
- `NoStatic`: no static entry was added before the start. With one, the address it
  reserves is leased to others as well (`static_lease`).

`KeepsCorrect` needs neither of them. Its inductive invariant, beside the types, is
`Undisturbed => Smooth`: as long as nothing was lost, no other client spoke and no more
clients were started than there are addresses,

- only clients that were started, and those with a static entry, have a record, and
  every address is available or in one of the others (`Supplied`): the server always
  has a fresh address, so it never turns to the expired leases, and no record changes hands;
- each client that runs is `OnCourse`, in one of four stages: `Asking` (its discover or
  the offer is on its way), `Collecting` (one offer, one choice scheduled), `Awaiting` (its
  request or the acknowledgement is on its way) or `Bound` (the address is on the interface,
  and the renewal comes before every other call it has).

In `Asking` and `Awaiting` a message is on its way, so the network is not quiet; in
`Collecting` the choice would be due. What is left is `Bound`, which is the property. That
the renewal is first rests on `Renew < Rebind < Lease`, which the model assumes of every
client.

*Visualizer.* `LockExact` (the lock is held exactly from `SimRunUntil` to `SimPost`) gives
exclusive access to the messages, hence `PausesKept`; `RunsToTarget` bounds the run
by the target, which was set from the time the view was last updated, hence
`StaysWithView`.

Model-checked only: liveness (`PendingTaken`, `InjectedTaken`, `EventuallySettled`,
`Terminates`, `QuitEnds`, `PlayAdvances`), as the prover has no `ENABLED`. `EventLists`
itself, with the operations in one, the estimate of the width and `SetScheduler` in mid-run,
is recursive: its properties stay with the run `event_lists`, and what is proved is about
`OrderedLists`, `HeapSteps` and `CalendarSteps`, whose steps add up to these operations.

## What is not modelled

See `PROJECT.json` for the list with reasons. In the parts that are modelled: logging
and attributes; reference counts of events; `SystemThread` checks in assertions; overflow
of the 64-bit time and wrap of the 32-bit uid (the hazards list says what they would
break); the log printers and lazy creation in `simulator.cc`. *Link:* going down and up,
byte queue limits (off by default), devices with several queues, other queue discs,
the requeue path, which one queue never takes. *DHCP:* `StopApplication` of the server, the
client's reaction to link changes (no scenario takes a link down; the hazards list has
what a second start would do), a static entry added after the start, routes and masks.
*Test runner:* the search for tests, the options, the translation of the results to
other formats. *Visualizer:* drawing, the autoscaling of the view, plugins, the IPython
shell.

Components without a module: the application base class schedules two calls and is
modelled in the DHCP client; the echo applications rest on the TCP socket; CSMA and ARP
are unchanged from ns-3.29 and next in the plan; NAT is called by nothing; the IoT
module is not built and has no state beyond an echo client's. The larger network models
(TCP, routing, Wi-Fi, LTE, WiMAX, mesh, energy) are each a project of their own. By
lines, nearly all of the Python in the repository is generated: `bindings/modulegen__*.py`
registers the declarations of the C++ headers, one call per line, with no state and no
decision to model. That is why the mapped share of the lines is very small, and why it
would stay so: the Python that does something is `test.py` and the visualizer.

## How to run

In this directory, `tlc -config DefaultSimulator.cfg MCDefaultSimulator`, likewise for
the other configurations with the module of their component (`runs` in `PROJECT.json`
has the pairs): `MCDefaultSimulator`, `MCEventLists`, `MCPointToPoint`, `MCDhcp`,
`MCTestRunner`, `MCVisualizer`. The longest, `dhcp` and `default_sim`, take a few minutes.
`tlapm` checks the modules whose name ends in `_proofs`, and `RequestProofs`.

Operators whose comment starts with "A bug" are mutants of the definition that follows
them: with the definition replaced by the mutant, the property `PROJECT.json` names
fails.
