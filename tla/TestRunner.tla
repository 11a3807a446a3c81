----------------------------- MODULE TestRunner -----------------------------
(***************************************************************************)
(* test.py: the main thread puts the test suites and examples on a queue,  *)
(* one worker thread per processor takes them from it, runs each as a      *)
(* process of its own and puts it on a second queue, from which the main   *)
(* thread collects the results.  A break job per worker ends the workers.  *)
(* An interrupt only sets a flag.                                          *)
(*                                                                         *)
(* A process is what the operating system makes of it: it may exit with    *)
(* any code, write output that does not decode, and leave its results file *)
(* unwritten or cut off; it may also fail to start, and the exception ends *)
(* the worker.                                                             *)
(***************************************************************************)
EXTENDS Subsequences

CONSTANTS
    NJobs,     \* number of jobs
    Worker,    \* the worker threads, one per processor
    Skipped,   \* jobs whose is_skip is set
    Examples   \* jobs that are examples; the others are test suites

ASSUME RunnerAssumption ==
    /\ NJobs \in Nat
    /\ IsFiniteSet(Worker)
    /\ Skipped \subseteq 1..NJobs
    /\ Examples \subseteq 1..NJobs

Job   == 1..NJobs
Break == 0        \* a job made for its is_break alone

\* Return codes: passed, failed, valgrind error, any other; NotRun is the
\* value a job is made with.
Code   == 0..3
NotRun == 4
Status == {"PASS", "FAIL", "VALGR", "CRASH", "SKIP"}
File   == {"none", "partial", "complete"}

VARIABLES
    thread_exit,   \* set by sigint_hook
    input_queue,
    output_queue,
    is_break,      \* per job
    returncode,    \* per job
    pc,            \* per worker: get, check, run, put, exited or died
    job,           \* per worker: the job it holds
    main,          \* main thread: dispatch, collect, join, exited or raised
    jobs,          \* jobs dispatched
    breaks,        \* break jobs dispatched
    collected,     \* jobs the main thread collected, in order
    tally,         \* its counters: passed_tests, failed_tests, ...
    results,       \* what it wrote to the results file
    exitcode,      \* what run_tests returns
    \* The processes
    file,          \* per job: its temporary results file
    exited,        \* per job: the code its process exited with
    \* History
    late           \* jobs taken from the queue after the interrupt

queues  == <<input_queue, output_queue>>
process == <<file, exited>>
mainVars == <<main, jobs, breaks, collected, tally, results, exitcode>>
vars    == <<thread_exit, queues, is_break, returncode, pc, job, mainVars,
             process, late>>

Init ==
    /\ thread_exit = FALSE
    /\ input_queue = <<>> /\ output_queue = <<>>
    /\ is_break = [j \in Job |-> FALSE]
    /\ returncode = [j \in Job |-> NotRun]
    /\ pc = [w \in Worker |-> "get"]
    /\ job = [w \in Worker |-> Break]
    /\ main = "dispatch" /\ jobs = 0 /\ breaks = 0
    /\ collected = <<>>
    /\ tally = [s \in Status |-> 0]
    /\ results = <<>>
    /\ exitcode = NotRun
    /\ file = [j \in Job |-> "none"]
    /\ exited = [j \in Job |-> NotRun]
    /\ late = {}

\* sigint_hook.
Interrupt ==
    /\ ~thread_exit
    /\ thread_exit' = TRUE
    /\ UNCHANGED <<queues, is_break, returncode, pc, job, mainVars, process,
                   late>>
-----------------------------------------------------------------------------
(* worker_thread.run. *)

\* A bug: the break job is handed back like any other.
WorkerGetEcho(w) ==
    /\ pc[w] = "get"
    /\ input_queue # <<>>
    /\ LET j == Head(input_queue) IN
         /\ input_queue' = Tail(input_queue)
         /\ job' = [job EXCEPT ![w] = j]
         /\ pc' = [pc EXCEPT ![w] = IF j = Break THEN "exited" ELSE "check"]
         /\ output_queue' = IF j = Break THEN Append(output_queue, j)
                                         ELSE output_queue
         /\ late' = IF thread_exit /\ j # Break THEN late \cup {j} ELSE late
    /\ UNCHANGED <<thread_exit, is_break, returncode, mainVars, process>>

\* A break job ends the worker at once, whatever the flag says.
WorkerGet(w) ==
    /\ pc[w] = "get"
    /\ input_queue # <<>>
    /\ LET j == Head(input_queue) IN
         /\ input_queue' = Tail(input_queue)
         /\ job' = [job EXCEPT ![w] = j]
         /\ pc' = [pc EXCEPT ![w] = IF j = Break THEN "exited" ELSE "check"]
         /\ late' = IF thread_exit /\ j # Break THEN late \cup {j} ELSE late
    /\ UNCHANGED <<thread_exit, output_queue, is_break, returncode, mainVars,
                   process>>

\* Put the job on the output queue and ask for the next.
Return(w) ==
    /\ output_queue' = Append(output_queue, job[w])
    /\ job' = [job EXCEPT ![w] = Break]
    /\ pc' = [pc EXCEPT ![w] = "get"]

\* A bug: the job is marked and forgotten.
WorkerCheckDrop(w) ==
    /\ pc[w] = "check"
    /\ \/ /\ thread_exit
          /\ is_break' = [is_break EXCEPT ![job[w]] = TRUE]
          /\ job' = [job EXCEPT ![w] = Break]
          /\ pc' = [pc EXCEPT ![w] = "get"]
          /\ UNCHANGED output_queue
       \/ /\ ~thread_exit /\ job[w] \in Skipped
          /\ Return(w)
          /\ UNCHANGED is_break
       \/ /\ ~thread_exit /\ job[w] \notin Skipped
          /\ pc' = [pc EXCEPT ![w] = "run"]
          /\ UNCHANGED <<output_queue, is_break, job>>
    /\ UNCHANGED <<thread_exit, input_queue, returncode, mainVars, process,
                   late>>

\* A bug: only jobs that would be skipped look at the flag.
WorkerCheckSkipFirst(w) ==
    /\ pc[w] = "check"
    /\ \/ /\ job[w] \in Skipped
          /\ is_break' = [is_break EXCEPT ![job[w]] = thread_exit]
          /\ Return(w)
       \/ /\ job[w] \notin Skipped
          /\ pc' = [pc EXCEPT ![w] = "run"]
          /\ UNCHANGED <<output_queue, is_break, job>>
    /\ UNCHANGED <<thread_exit, input_queue, returncode, mainVars, process,
                   late>>

\* Interrupted: mark the job and hand it back.  Skipped: hand it back.
\* Otherwise run it.
WorkerCheck(w) ==
    /\ pc[w] = "check"
    /\ \/ /\ thread_exit
          /\ is_break' = [is_break EXCEPT ![job[w]] = TRUE]
          /\ Return(w)
       \/ /\ ~thread_exit /\ job[w] \in Skipped
          /\ Return(w)
          /\ UNCHANGED is_break
       \/ /\ ~thread_exit /\ job[w] \notin Skipped
          /\ pc' = [pc EXCEPT ![w] = "run"]
          /\ UNCHANGED <<output_queue, is_break, job>>
    /\ UNCHANGED <<thread_exit, input_queue, returncode, mainVars, process,
                   late>>

\* What a process leaves behind.  A test suite opens its file before the first
\* test and does not look whether it could; a crash cuts the file off.
Leaves(j, code, f) ==
    CASE j \in Examples -> f = "none"
      [] code \in 0..2  -> f \in {"none", "complete"}
      [] OTHER          -> f \in {"none", "partial"}

\* run_job_synchronously: output that does not decode counts as a failure.
Returned(code, decodes) == IF decodes THEN code ELSE 1

\* run_job_synchronously, then put.
WorkerRun(w) ==
    /\ pc[w] = "run"
    /\ \E code \in Code, f \in File, decodes \in BOOLEAN :
         /\ Leaves(job[w], code, f)
         /\ file' = [file EXCEPT ![job[w]] = f]
         /\ exited' = [exited EXCEPT ![job[w]] = code]
         /\ returncode' = [returncode EXCEPT ![job[w]] =
                             Returned(code, decodes)]
    /\ Return(w)
    /\ UNCHANGED <<thread_exit, input_queue, is_break, mainVars, late>>

\* The process cannot be started: the exception ends the thread.
WorkerDies(w) ==
    /\ pc[w] = "run"
    /\ pc' = [pc EXCEPT ![w] = "died"]
    /\ UNCHANGED <<thread_exit, queues, is_break, returncode, job, mainVars,
                   process, late>>
-----------------------------------------------------------------------------
(* run_tests in the main thread. *)

Dispatch ==
    /\ main = "dispatch"
    /\ jobs < NJobs
    /\ jobs' = jobs + 1
    /\ input_queue' = Append(input_queue, jobs + 1)
    /\ UNCHANGED <<thread_exit, output_queue, is_break, returncode, pc, job,
                   main, breaks, collected, tally, results, exitcode, process,
                   late>>

\* A bug: one break job for all the workers.
OneBreak == 1

Processors == Cardinality(Worker)

DispatchBreak ==
    /\ main = "dispatch"
    /\ jobs = NJobs
    /\ breaks < Processors
    /\ breaks' = breaks + 1
    /\ input_queue' = Append(input_queue, Break)
    /\ UNCHANGED <<thread_exit, output_queue, is_break, returncode, pc, job,
                   main, jobs, collected, tally, results, exitcode, process,
                   late>>

Dispatched ==
    /\ main = "dispatch"
    /\ jobs = NJobs /\ breaks = Processors
    /\ main' = "collect"
    /\ UNCHANGED <<thread_exit, queues, is_break, returncode, pc, job, jobs,
                   breaks, collected, tally, results, exitcode, process, late>>

StatusOf(j) == IF j \in Skipped THEN "SKIP"
               ELSE CASE returncode[j] = 0 -> "PASS"
                      [] returncode[j] = 1 -> "FAIL"
                      [] returncode[j] = 2 -> "VALGR"
                      [] OTHER             -> "CRASH"

\* The results of a test suite that ran to its end are those in its file.
FromFile(j) == j \notin Examples \cup Skipped /\ returncode[j] \in 0..2

Entry(j) == [job |-> j,
             result |-> IF FromFile(j) THEN file[j] ELSE StatusOf(j)]

\* A bug: a job that was broken off is counted like any other.
CollectBroken ==
    /\ main = "collect"
    /\ Len(collected) < jobs
    /\ output_queue # <<>>
    /\ LET j == Head(output_queue) IN
         /\ output_queue' = Tail(output_queue)
         /\ collected' = Append(collected, j)
         /\ tally' = [tally EXCEPT ![StatusOf(j)] = @ + 1]
         /\ results' = Append(results, Entry(j))
         /\ main' = main
    /\ UNCHANGED <<thread_exit, input_queue, is_break, returncode, pc, job,
                   jobs, breaks, exitcode, process, late>>

\* Once around the collection loop.  The file is opened without looking
\* whether it is there: if not, the exception ends the main thread.
Collect ==
    /\ main = "collect"
    /\ Len(collected) < jobs
    /\ output_queue # <<>>
    /\ LET j == Head(output_queue) IN
         /\ output_queue' = Tail(output_queue)
         /\ collected' = Append(collected, j)
         /\ \/ /\ is_break[j]
               /\ UNCHANGED <<main, tally, results>>
            \/ /\ ~is_break[j]
               /\ tally' = [tally EXCEPT ![StatusOf(j)] = @ + 1]
               /\ \/ /\ FromFile(j) /\ file[j] = "none"
                     /\ main' = "raised"
                     /\ UNCHANGED results
                  \/ /\ ~(FromFile(j) /\ file[j] = "none")
                     /\ results' = Append(results, Entry(j))
                     /\ UNCHANGED main
    /\ UNCHANGED <<thread_exit, input_queue, is_break, returncode, pc, job,
                   jobs, breaks, exitcode, process, late>>

Collected ==
    /\ main = "collect"
    /\ Len(collected) = jobs
    /\ main' = "join"
    /\ UNCHANGED <<thread_exit, queues, is_break, returncode, pc, job, jobs,
                   breaks, collected, tally, results, exitcode, process, late>>

AllEnded == \A w \in Worker : pc[w] \in {"exited", "died"}

\* A bug: success is that nothing failed.
NothingFailed == tally["FAIL"] + tally["VALGR"] + tally["CRASH"] = 0

\* passed_tests + skipped_tests == total_tests
Success == tally["PASS"] + tally["SKIP"] = NJobs

\* Every thread joined, the exit code.
Join ==
    /\ main = "join"
    /\ AllEnded
    /\ main' = "exited"
    /\ exitcode' = IF Success THEN 0 ELSE 1
    /\ UNCHANGED <<thread_exit, queues, is_break, returncode, pc, job, jobs,
                   breaks, collected, tally, results, process, late>>

WorkerStep(w) == \/ WorkerGet(w) \/ WorkerCheck(w) \/ WorkerRun(w)
                 \/ WorkerDies(w)

MainStep == \/ Dispatch \/ DispatchBreak \/ Dispatched
            \/ Collect \/ Collected \/ Join

Next == \/ Interrupt
        \/ \E w \in Worker : WorkerStep(w)
        \/ MainStep

\* The operating system schedules every thread, and every process ends.
Fairness == /\ WF_vars(MainStep)
            /\ \A w \in Worker : WF_vars(WorkerStep(w))

Spec == Init /\ [][Next]_vars /\ Fairness
-----------------------------------------------------------------------------
(* Properties. *)

In(seq) == {seq[i] : i \in DOMAIN seq}

TypeOK ==
    /\ thread_exit \in BOOLEAN
    /\ input_queue \in Seq(Job \cup {Break})
    /\ output_queue \in Seq(Job) /\ collected \in Seq(Job)
    /\ is_break \in [Job -> BOOLEAN]
    /\ returncode \in [Job -> Code \cup {NotRun}]
    /\ pc \in [Worker -> {"get", "check", "run", "exited", "died"}]
    /\ job \in [Worker -> Job \cup {Break}]
    /\ main \in {"dispatch", "collect", "join", "exited", "raised"}
    /\ jobs \in 0..NJobs /\ breaks \in 0..Processors
    /\ tally \in [Status -> Nat]
    /\ results \in Seq([job : Job, result : Status \cup File])
    /\ exitcode \in {0, 1, NotRun}
    /\ file \in [Job -> File]
    /\ exited \in [Job -> Code \cup {NotRun}]
    /\ late \subseteq Job

Holds(w, j) == job[w] = j

Held == {job[w] : w \in Worker} \ {Break}

\* No job twice in a sequence; break jobs have no identity.
Once(seq) == \A i, k \in DOMAIN seq : seq[i] = seq[k] /\ seq[i] # Break => i = k

\* A job that was dispatched is at exactly one place: in one of the queues,
\* in the hands of one worker (the one that died with it, if so), or with the
\* main thread; before it is dispatched it is nowhere.
JobsConserved ==
    /\ In(input_queue) \cup Held \cup In(output_queue) \cup In(collected)
          = (1..jobs) \cup (IF Break \in In(input_queue) THEN {Break} ELSE {})
    /\ Once(input_queue) /\ Once(output_queue) /\ Once(collected)
    /\ \A w, v \in Worker : Holds(w, job[v]) /\ job[v] # Break => w = v
    /\ In(input_queue) \cap (Held \cup In(output_queue) \cup In(collected)) = {}
    /\ In(output_queue) \cap (Held \cup In(collected)) = {}
    /\ Held \cap In(collected) = {}

\* test.py reports success only if every job that was not skipped on request
\* had a process, which exited with 0: never when a job was broken off, never
\* when one is missing, whatever the interrupt hit.
SuccessMeansPassed ==
    exitcode = 0 => \A j \in Job : j \in Skipped \/ exited[j] = 0

\* No process is started for a job taken from the queue after the interrupt.
StopsStarting ==
    \A j \in late : /\ exited[j] = NotRun
                    /\ \A w \in Worker : Holds(w, j) => pc[w] # "run"

\* The results file has one entry for every job collected and not broken off,
\* in the order of collection, and none for any other; only a job whose file
\* was missing has none, and ends the main thread.
OneEntryEach ==
    LET due == Within(collected, {j \in Job : ~is_break[j]})
        written == [i \in DOMAIN results |-> results[i].job]
    IN IF main = "raised" THEN written = SubSeq(due, 1, Len(due) - 1)
                          ELSE written = due

\* Unless a worker dies, the main thread and all the workers end: every thread
\* gets a break job and every result is collected, interrupt or not.
Terminates ==
    \/ <>(\E w \in Worker : pc[w] = "died")
    \/ <>(AllEnded /\ main \in {"exited", "raised"})

\* The comment over the collection of the results: a job with a valgrind
\* error has an entry with a VALGR result.
ValgrindReported ==
    main = "exited" =>
        \A i \in DOMAIN collected :
            ~is_break[collected[i]] /\ StatusOf(collected[i]) = "VALGR" =>
                [job |-> collected[i], result |-> "VALGR"] \in In(results)
=============================================================================
