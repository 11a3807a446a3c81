-------------------------- MODULE TestRunner_proofs --------------------------
(***************************************************************************)
(* Proofs about TestRunner, for every number of jobs and workers and every *)
(* choice of skipped jobs and examples.                                    *)
(***************************************************************************)
EXTENDS TestRunner, Subsequences_proofs

\* A worker holds a job from the time it takes it until it hands it back, or
\* for good if it dies.
HoldsExact ==
    \A w \in Worker : IF pc[w] \in {"check", "run", "died"} THEN job[w] \in Job
                                                            ELSE job[w] = Break

TypeInv == TypeOK /\ HoldsExact
-----------------------------------------------------------------------------
(* Sequences and the sets of their elements. *)

LEMMA BreakIsNoJob == Break \notin Job /\ Break \in Int
BY RunnerAssumption DEF Break, Job

LEMMA WorkersCounted == Processors \in Nat
BY RunnerAssumption, FS_CardinalityType DEF Processors

LEMMA InAppend ==
    ASSUME NEW S, NEW seq \in Seq(S), NEW x \in S
    PROVE  /\ Append(seq, x) \in Seq(S)
           /\ In(Append(seq, x)) = In(seq) \cup {x}
<1>1. /\ Append(seq, x) \in Seq(S) /\ Len(seq) \in Nat
      /\ DOMAIN seq = 1..Len(seq)
      /\ DOMAIN Append(seq, x) = 1..(Len(seq) + 1)
      /\ Append(seq, x)[Len(seq) + 1] = x
      /\ \A i \in 1..Len(seq) : Append(seq, x)[i] = seq[i]
  OBVIOUS
<1>2. In(Append(seq, x)) \subseteq In(seq) \cup {x}
  BY <1>1 DEF In
<1>3. In(seq) \subseteq In(Append(seq, x))
  <2> SUFFICES ASSUME NEW i \in DOMAIN seq PROVE seq[i] \in In(Append(seq, x))
    BY DEF In
  <2> QED BY <1>1 DEF In
<1>4. x \in In(Append(seq, x))
  BY <1>1 DEF In
<1> QED BY <1>1, <1>2, <1>3, <1>4

LEMMA InTail ==
    ASSUME NEW S, NEW seq \in Seq(S), seq # <<>>
    PROVE  /\ Head(seq) \in S /\ Tail(seq) \in Seq(S)
           /\ In(seq) = {Head(seq)} \cup In(Tail(seq))
<1>1. /\ Head(seq) \in S /\ Tail(seq) \in Seq(S) /\ Len(seq) \in Nat \ {0}
      /\ Len(Tail(seq)) = Len(seq) - 1
      /\ Head(seq) = seq[1]
      /\ \A i \in 1..(Len(seq) - 1) : Tail(seq)[i] = seq[i + 1]
  BY HeadTailProperties, EmptySeq
<1>2. DOMAIN seq = 1..Len(seq) /\ DOMAIN Tail(seq) = 1..(Len(seq) - 1)
  BY <1>1
<1>3. In(seq) \subseteq {Head(seq)} \cup In(Tail(seq))
  <2> SUFFICES ASSUME NEW i \in 1..Len(seq), i # 1
               PROVE  seq[i] \in In(Tail(seq))
    BY <1>1, <1>2 DEF In
  <2>1. i - 1 \in 1..(Len(seq) - 1) /\ Tail(seq)[i - 1] = seq[i]
    BY <1>1
  <2> QED BY <2>1, <1>2 DEF In
<1>4. Head(seq) \in In(seq)
  BY <1>1, <1>2 DEF In
<1>5. In(Tail(seq)) \subseteq In(seq)
  <2> SUFFICES ASSUME NEW i \in 1..(Len(seq) - 1)
               PROVE  Tail(seq)[i] \in In(seq)
    BY <1>2 DEF In
  <2>1. Tail(seq)[i] = seq[i + 1] /\ i + 1 \in 1..Len(seq)
    BY <1>1
  <2> QED BY <2>1, <1>2 DEF In
<1> QED BY <1>1, <1>3, <1>4, <1>5

LEMMA OnceAppend ==
    ASSUME NEW S, NEW seq \in Seq(S), NEW x \in S, Once(seq),
           x = Break \/ x \notin In(seq)
    PROVE  Once(Append(seq, x))
<1>1. /\ Len(seq) \in Nat /\ DOMAIN seq = 1..Len(seq)
      /\ DOMAIN Append(seq, x) = 1..(Len(seq) + 1)
      /\ Append(seq, x)[Len(seq) + 1] = x
      /\ \A i \in 1..Len(seq) : Append(seq, x)[i] = seq[i]
  OBVIOUS
<1> SUFFICES ASSUME NEW i \in 1..(Len(seq) + 1), NEW k \in 1..(Len(seq) + 1),
                    Append(seq, x)[i] = Append(seq, x)[k],
                    Append(seq, x)[i] # Break
             PROVE  i = k
  BY <1>1 DEF Once
<1>2. CASE i \in 1..Len(seq) /\ k \in 1..Len(seq)
  BY <1>1, <1>2 DEF Once
<1>3. CASE i = Len(seq) + 1 /\ k \in 1..Len(seq)
  BY <1>1, <1>3 DEF In
<1>4. CASE k = Len(seq) + 1 /\ i \in 1..Len(seq)
  BY <1>1, <1>4 DEF In
<1> QED BY <1>1, <1>2, <1>3, <1>4

LEMMA OnceTail ==
    ASSUME NEW S, NEW seq \in Seq(S), seq # <<>>, Once(seq)
    PROVE  /\ Once(Tail(seq))
           /\ Head(seq) # Break => Head(seq) \notin In(Tail(seq))
<1>1. /\ Len(seq) \in Nat \ {0}
      /\ Len(Tail(seq)) = Len(seq) - 1
      /\ Head(seq) = seq[1]
      /\ \A i \in 1..(Len(seq) - 1) : Tail(seq)[i] = seq[i + 1]
  BY HeadTailProperties, EmptySeq
<1>2. Tail(seq) \in Seq(S)
  BY HeadTailProperties
<1>3. DOMAIN seq = 1..Len(seq) /\ DOMAIN Tail(seq) = 1..(Len(seq) - 1)
  BY <1>1, <1>2
<1>4. Once(Tail(seq))
  <2> SUFFICES ASSUME NEW i \in 1..(Len(seq) - 1), NEW k \in 1..(Len(seq) - 1),
                      Tail(seq)[i] = Tail(seq)[k], Tail(seq)[i] # Break
               PROVE  i = k
    BY <1>3 DEF Once
  <2>1. i + 1 \in DOMAIN seq /\ k + 1 \in DOMAIN seq
        /\ seq[i + 1] = seq[k + 1] /\ seq[i + 1] # Break
    BY <1>1, <1>3
  <2>2. i + 1 = k + 1
    BY <2>1 DEF Once
  <2> QED BY <2>2
<1>5. ASSUME Head(seq) # Break, Head(seq) \in In(Tail(seq)) PROVE FALSE
  <2>1. PICK i \in 1..(Len(seq) - 1) : Head(seq) = Tail(seq)[i]
    BY <1>3, <1>5 DEF In
  <2>2. i + 1 \in DOMAIN seq /\ 1 \in DOMAIN seq /\ seq[i + 1] = seq[1]
        /\ seq[1] # Break
    BY <2>1, <1>1, <1>3, <1>5
  <2>3. i + 1 = 1
    BY <2>2 DEF Once
  <2> QED BY <2>3
<1> QED BY <1>4, <1>5
-----------------------------------------------------------------------------
(* Types. *)

LEMMA InitTypes == Init => TypeInv
<1> SUFFICES ASSUME Init PROVE TypeInv
  OBVIOUS
<1> USE DEF Init
<1>1. HoldsExact
  BY DEF HoldsExact
<1>2. jobs \in 0..NJobs /\ breaks \in 0..Processors
  BY RunnerAssumption, WorkersCounted
<1>3. tally \in [Status -> Nat]
  OBVIOUS
<1>4. /\ thread_exit \in BOOLEAN
      /\ input_queue \in Seq(Job \cup {Break})
      /\ output_queue \in Seq(Job) /\ collected \in Seq(Job)
      /\ results \in Seq([job : Job, result : Status \cup File])
      /\ late \subseteq Job
  <2>1. /\ input_queue \in Seq(Job \cup {Break})
        /\ output_queue \in Seq(Job) /\ collected \in Seq(Job)
    OBVIOUS
  <2>2. results \in Seq([job : Job, result : Status \cup File])
    OBVIOUS
  <2>3. thread_exit \in BOOLEAN /\ late \subseteq Job
    BY Zenon
  <2> QED BY <2>1, <2>2, <2>3
<1>5. /\ is_break \in [Job -> BOOLEAN]
      /\ returncode \in [Job -> Code \cup {NotRun}]
      /\ file \in [Job -> File]
      /\ exited \in [Job -> Code \cup {NotRun}]
  <2>1. is_break \in [Job -> BOOLEAN]
    OBVIOUS
  <2>2. file \in [Job -> File]
    BY DEF File
  <2>3. /\ returncode \in [Job -> Code \cup {NotRun}]
        /\ exited \in [Job -> Code \cup {NotRun}]
    OBVIOUS
  <2> QED BY <2>1, <2>2, <2>3
<1>6. /\ pc \in [Worker -> {"get", "check", "run", "exited", "died"}]
      /\ job \in [Worker -> Job \cup {Break}]
      /\ main \in {"dispatch", "collect", "join", "exited", "raised"}
      /\ exitcode \in {0, 1, NotRun}
  OBVIOUS
<1>7. TypeOK
  BY <1>2, <1>3, <1>4, <1>5, <1>6 DEF TypeOK
<1> QED BY <1>1, <1>7 DEF TypeInv

LEMMA InterruptTypes == TypeInv /\ Interrupt => TypeInv'
BY DEF Interrupt, queues, mainVars, process, TypeInv, TypeOK, HoldsExact

LEMMA WorkerGetTypes ==
    ASSUME TypeInv, NEW w \in Worker, WorkerGet(w)
    PROVE  TypeInv'
<1> DEFINE j == Head(input_queue)
<1>1. /\ pc[w] = "get" /\ input_queue # <<>>
      /\ input_queue' = Tail(input_queue)
      /\ job' = [job EXCEPT ![w] = j]
      /\ pc' = [pc EXCEPT ![w] = IF j = Break THEN "exited" ELSE "check"]
      /\ late' = IF thread_exit /\ j # Break THEN late \cup {j} ELSE late
      /\ UNCHANGED <<thread_exit, output_queue, is_break, returncode, main,
                     jobs, breaks, collected, tally, results, exitcode, file,
                     exited>>
  BY DEF WorkerGet, mainVars, process
<1>2. j \in Job \cup {Break} /\ input_queue' \in Seq(Job \cup {Break})
  BY <1>1, InTail DEF TypeInv, TypeOK
<1>3. /\ pc \in [Worker -> {"get", "check", "run", "exited", "died"}]
      /\ job \in [Worker -> Job \cup {Break}] /\ late \subseteq Job
  BY DEF TypeInv, TypeOK
<1> HIDE DEF j
<1>4. /\ job' \in [Worker -> Job \cup {Break}]
      /\ pc' \in [Worker -> {"get", "check", "run", "exited", "died"}]
      /\ late' \subseteq Job
  BY <1>1, <1>2, <1>3
<1>5. HoldsExact'
  BY <1>1, <1>2, <1>3 DEF TypeInv, HoldsExact
<1>6. TypeOK'
  BY <1>1, <1>2, <1>4 DEF TypeInv, TypeOK
<1> QED BY <1>5, <1>6 DEF TypeInv

\* What a worker leaves that hands its job back.
LEMMA ReturnTypes ==
    ASSUME TypeInv, NEW w \in Worker, job[w] \in Job, Return(w)
    PROVE  /\ output_queue' \in Seq(Job)
           /\ job' \in [Worker -> Job \cup {Break}]
           /\ pc' \in [Worker -> {"get", "check", "run", "exited", "died"}]
           /\ HoldsExact'
<1>1. /\ output_queue' = Append(output_queue, job[w])
      /\ job' = [job EXCEPT ![w] = Break]
      /\ pc' = [pc EXCEPT ![w] = "get"]
  BY DEF Return
<1>2. /\ output_queue \in Seq(Job)
      /\ pc \in [Worker -> {"get", "check", "run", "exited", "died"}]
      /\ job \in [Worker -> Job \cup {Break}]
  BY DEF TypeInv, TypeOK
<1>3. output_queue' \in Seq(Job)
  BY <1>1, <1>2, InAppend
<1>4. HoldsExact'
  BY <1>1, <1>2 DEF TypeInv, HoldsExact
<1> QED BY <1>1, <1>2, <1>3, <1>4

LEMMA WorkerCheckTypes ==
    ASSUME TypeInv, NEW w \in Worker, WorkerCheck(w)
    PROVE  TypeInv'
<1>1. /\ pc[w] = "check"
      /\ UNCHANGED <<thread_exit, input_queue, returncode, main, jobs, breaks,
                     collected, tally, results, exitcode, file, exited, late>>
  BY DEF WorkerCheck, mainVars, process
<1>2. job[w] \in Job
  BY <1>1 DEF TypeInv, HoldsExact
<1>3. CASE Return(w) /\ (\/ is_break' = is_break
                         \/ is_break' = [is_break EXCEPT ![job[w]] = TRUE])
  <2>1. /\ output_queue' \in Seq(Job)
        /\ job' \in [Worker -> Job \cup {Break}]
        /\ pc' \in [Worker -> {"get", "check", "run", "exited", "died"}]
        /\ HoldsExact'
    BY <1>2, <1>3, ReturnTypes
  <2>2. is_break' \in [Job -> BOOLEAN]
    BY <1>2, <1>3 DEF TypeInv, TypeOK
  <2>3. TypeOK'
    BY <1>1, <2>1, <2>2 DEF TypeInv, TypeOK
  <2> QED BY <2>1, <2>3 DEF TypeInv
<1>4. CASE pc' = [pc EXCEPT ![w] = "run"]
           /\ UNCHANGED <<output_queue, is_break, job>>
  <2>1. /\ pc \in [Worker -> {"get", "check", "run", "exited", "died"}]
        /\ pc' \in [Worker -> {"get", "check", "run", "exited", "died"}]
    BY <1>4 DEF TypeInv, TypeOK
  <2>2. HoldsExact'
    BY <1>2, <1>4, <2>1 DEF TypeInv, HoldsExact
  <2>3. TypeOK'
    BY <1>1, <1>4, <2>1 DEF TypeInv, TypeOK
  <2> QED BY <2>2, <2>3 DEF TypeInv
<1> QED BY <1>3, <1>4 DEF WorkerCheck

LEMMA WorkerRunTypes ==
    ASSUME TypeInv, NEW w \in Worker, WorkerRun(w)
    PROVE  TypeInv'
<1>1. PICK code \in Code, f \in File, decodes \in BOOLEAN :
         /\ file' = [file EXCEPT ![job[w]] = f]
         /\ exited' = [exited EXCEPT ![job[w]] = code]
         /\ returncode' = [returncode EXCEPT ![job[w]] =
                             Returned(code, decodes)]
  BY DEF WorkerRun
<1>2. /\ pc[w] = "run" /\ Return(w)
      /\ UNCHANGED <<thread_exit, input_queue, is_break, main, jobs, breaks,
                     collected, tally, results, exitcode, late>>
  BY DEF WorkerRun, mainVars
<1>3. job[w] \in Job
  BY <1>2 DEF TypeInv, HoldsExact
<1>4. /\ output_queue' \in Seq(Job)
      /\ job' \in [Worker -> Job \cup {Break}]
      /\ pc' \in [Worker -> {"get", "check", "run", "exited", "died"}]
      /\ HoldsExact'
  BY <1>2, <1>3, ReturnTypes
<1>5. Returned(code, decodes) \in Code
  BY DEF Returned, Code
<1>6. /\ file' \in [Job -> File]
      /\ exited' \in [Job -> Code \cup {NotRun}]
      /\ returncode' \in [Job -> Code \cup {NotRun}]
  BY <1>1, <1>3, <1>5 DEF TypeInv, TypeOK
<1>7. TypeOK'
  BY <1>2, <1>4, <1>6 DEF TypeInv, TypeOK
<1> QED BY <1>4, <1>7 DEF TypeInv

LEMMA WorkerDiesTypes ==
    ASSUME TypeInv, NEW w \in Worker, WorkerDies(w)
    PROVE  TypeInv'
<1>1. /\ pc[w] = "run" /\ pc' = [pc EXCEPT ![w] = "died"]
      /\ UNCHANGED <<thread_exit, input_queue, output_queue, is_break,
                     returncode, job, main, jobs, breaks, collected, tally,
                     results, exitcode, file, exited, late>>
  BY DEF WorkerDies, queues, mainVars, process
<1>2. pc \in [Worker -> {"get", "check", "run", "exited", "died"}]
      /\ pc' \in [Worker -> {"get", "check", "run", "exited", "died"}]
  BY <1>1 DEF TypeInv, TypeOK
<1>3. HoldsExact'
  BY <1>1, <1>2 DEF TypeInv, HoldsExact
<1>4. TypeOK'
  BY <1>1, <1>2 DEF TypeInv, TypeOK
<1> QED BY <1>3, <1>4 DEF TypeInv

LEMMA DispatchTypes == TypeInv /\ Dispatch => TypeInv'
<1> SUFFICES ASSUME TypeInv, Dispatch PROVE TypeInv'
  OBVIOUS
<1>1. /\ jobs < NJobs /\ jobs' = jobs + 1
      /\ input_queue' = Append(input_queue, jobs + 1)
      /\ UNCHANGED <<thread_exit, output_queue, is_break, returncode, pc, job,
                     main, breaks, collected, tally, results, exitcode, file,
                     exited, late>>
  BY DEF Dispatch, process
<1>2. jobs' \in 0..NJobs /\ jobs + 1 \in Job
  BY <1>1, RunnerAssumption DEF TypeInv, TypeOK, Job
<1>3. input_queue' \in Seq(Job \cup {Break})
  BY <1>1, <1>2, InAppend DEF TypeInv, TypeOK
<1>4. TypeOK' /\ HoldsExact'
  BY <1>1, <1>2, <1>3 DEF TypeInv, TypeOK, HoldsExact
<1> QED BY <1>4 DEF TypeInv

LEMMA DispatchBreakTypes == TypeInv /\ DispatchBreak => TypeInv'
<1> SUFFICES ASSUME TypeInv, DispatchBreak PROVE TypeInv'
  OBVIOUS
<1>1. /\ breaks < Processors /\ breaks' = breaks + 1
      /\ input_queue' = Append(input_queue, Break)
      /\ UNCHANGED <<thread_exit, output_queue, is_break, returncode, pc, job,
                     main, jobs, collected, tally, results, exitcode, file,
                     exited, late>>
  BY DEF DispatchBreak, process
<1>2. breaks' \in 0..Processors
  BY <1>1, WorkersCounted DEF TypeInv, TypeOK
<1>3. input_queue' \in Seq(Job \cup {Break})
  BY <1>1, InAppend DEF TypeInv, TypeOK
<1>4. TypeOK' /\ HoldsExact'
  BY <1>1, <1>2, <1>3 DEF TypeInv, TypeOK, HoldsExact
<1> QED BY <1>4 DEF TypeInv

LEMMA StatusType ==
    ASSUME NEW j PROVE StatusOf(j) \in Status
BY DEF StatusOf, Status

LEMMA CollectTypes == TypeInv /\ Collect => TypeInv'
<1> SUFFICES ASSUME TypeInv, Collect PROVE TypeInv'
  OBVIOUS
<1> DEFINE j == Head(output_queue)
<1>1. /\ output_queue # <<>> /\ output_queue' = Tail(output_queue)
      /\ collected' = Append(collected, j)
      /\ UNCHANGED <<thread_exit, input_queue, is_break, returncode, pc, job,
                     jobs, breaks, exitcode, file, exited, late>>
  BY DEF Collect, process
<1>2. \/ UNCHANGED <<main, tally, results>>
      \/ /\ tally' = [tally EXCEPT ![StatusOf(j)] = @ + 1]
         /\ \/ main' = "raised" /\ results' = results
            \/ main' = main /\ results' = Append(results, Entry(j))
  BY DEF Collect
<1>3. j \in Job /\ output_queue' \in Seq(Job)
  BY <1>1, InTail DEF TypeInv, TypeOK
<1>4. collected' \in Seq(Job)
  BY <1>1, <1>3, InAppend DEF TypeInv, TypeOK
<1> HIDE DEF j
<1>5. tally' \in [Status -> Nat]
  <2>1. tally \in [Status -> Nat] /\ StatusOf(j) \in Status
    BY StatusType DEF TypeInv, TypeOK
  <2> QED BY <1>2, <2>1
<1>6. results' \in Seq([job : Job, result : Status \cup File])
      /\ main' \in {"dispatch", "collect", "join", "exited", "raised"}
  <2>1. results \in Seq([job : Job, result : Status \cup File])
        /\ main \in {"dispatch", "collect", "join", "exited", "raised"}
    BY DEF TypeInv, TypeOK
  <2>2. Entry(j) \in [job : Job, result : Status \cup File]
    <3>1. file[j] \in File /\ StatusOf(j) \in Status
      BY <1>3, StatusType DEF TypeInv, TypeOK
    <3>2. (IF FromFile(j) THEN file[j] ELSE StatusOf(j)) \in Status \cup File
      BY <3>1
    <3> QED BY <1>3, <3>2 DEF Entry
  <2>3. Append(results, Entry(j)) \in Seq([job : Job, result : Status \cup File])
    BY <2>1, <2>2, InAppend
  <2> QED BY <1>2, <2>1, <2>3
<1>7. TypeOK' /\ HoldsExact'
  BY <1>1, <1>3, <1>4, <1>5, <1>6 DEF TypeInv, TypeOK, HoldsExact
<1> QED BY <1>7 DEF TypeInv

LEMMA MainPhaseTypes == TypeInv /\ (Dispatched \/ Collected \/ Join) => TypeInv'
<1> SUFFICES ASSUME TypeInv, Dispatched \/ Collected \/ Join PROVE TypeInv'
  OBVIOUS
<1>1. /\ UNCHANGED <<thread_exit, input_queue, output_queue, is_break,
                     returncode, pc, job, jobs, breaks, collected, tally,
                     results, file, exited, late>>
      /\ main' \in {"dispatch", "collect", "join", "exited", "raised"}
      /\ exitcode' \in {0, 1, exitcode}
  BY DEF Dispatched, Collected, Join, queues, process
<1> QED BY <1>1 DEF TypeInv, TypeOK, HoldsExact

LEMMA NextTypes == TypeInv /\ [Next]_vars => TypeInv'
<1> SUFFICES ASSUME TypeInv, [Next]_vars PROVE TypeInv'
  OBVIOUS
<1>1. CASE Interrupt
  BY <1>1, InterruptTypes
<1>2. CASE \E w \in Worker : WorkerStep(w)
  BY <1>2, WorkerGetTypes, WorkerCheckTypes, WorkerRunTypes, WorkerDiesTypes
     DEF WorkerStep
<1>3. CASE MainStep
  BY <1>3, DispatchTypes, DispatchBreakTypes, CollectTypes, MainPhaseTypes
     DEF MainStep
<1>4. CASE UNCHANGED vars
  BY <1>4 DEF vars, queues, mainVars, process, TypeInv, TypeOK, HoldsExact
<1> QED BY <1>1, <1>2, <1>3, <1>4 DEF Next

LEMMA Typed == Spec => []TypeInv
BY InitTypes, NextTypes, PTL DEF Spec

\* Every variable keeps its type, whatever the workers, the processes and the
\* interrupt do; only jobs, and no break job, reach the main thread.
THEOREM TypeCorrect == Spec => []TypeOK
<1>1. TypeInv => TypeOK
  BY DEF TypeInv
<1> QED BY <1>1, Typed, PTL
-----------------------------------------------------------------------------
(* Every job is at one place. *)

HeldByOne == \A w, v \in Worker : job[w] = job[v] /\ job[v] # Break => w = v

PlacedOnce ==
    /\ (In(input_queue) \ {Break}) \cup Held \cup In(output_queue)
         \cup In(collected) = 1..jobs
    /\ Once(input_queue) /\ Once(output_queue) /\ Once(collected)
    /\ HeldByOne
    /\ In(input_queue) \cap (Held \cup In(output_queue) \cup In(collected)) = {}
    /\ In(output_queue) \cap (Held \cup In(collected)) = {}
    /\ Held \cap In(collected) = {}

LEMMA PlacedIsConserved == PlacedOnce => JobsConserved
BY DEF PlacedOnce, HeldByOne, JobsConserved, Holds

LEMMA HeldTake ==
    ASSUME TypeInv, HeldByOne, NEW w \in Worker, job[w] = Break,
           NEW j \in Job \cup {Break}, j \notin Held,
           job' = [job EXCEPT ![w] = j]
    PROVE  Held' = Held \cup ({j} \ {Break}) /\ HeldByOne'
<1>1. job \in [Worker -> Job \cup {Break}]
  BY DEF TypeInv, TypeOK
<1>2. \A v \in Worker : job'[v] = IF v = w THEN j ELSE job[v]
  BY <1>1
<1>3. Held' \subseteq Held \cup ({j} \ {Break})
  BY <1>2 DEF Held
<1>4. Held \cup ({j} \ {Break}) \subseteq Held'
  <2>1. ASSUME NEW v \in Worker, job[v] # Break PROVE job[v] \in Held'
    <3>1. job'[v] = job[v]
      BY <1>2, <2>1
    <3> QED BY <2>1, <3>1 DEF Held
  <2>2. ASSUME j # Break PROVE j \in Held'
    BY <1>2, <2>2 DEF Held
  <2> QED BY <2>1, <2>2 DEF Held
<1>5. HeldByOne'
  BY <1>2 DEF HeldByOne, Held
<1> QED BY <1>3, <1>4, <1>5

LEMMA HeldReturn ==
    ASSUME TypeInv, HeldByOne, NEW w \in Worker, job[w] \in Job,
           job' = [job EXCEPT ![w] = Break]
    PROVE  Held' = Held \ {job[w]} /\ HeldByOne' /\ job[w] \in Held
<1>1. job \in [Worker -> Job \cup {Break}] /\ job[w] # Break
  BY BreakIsNoJob DEF TypeInv, TypeOK
<1>2. \A v \in Worker : job'[v] = IF v = w THEN Break ELSE job[v]
  BY <1>1
<1>3. Held' \subseteq Held \ {job[w]}
  BY <1>1, <1>2 DEF Held, HeldByOne
<1>4. Held \ {job[w]} \subseteq Held'
  <2> SUFFICES ASSUME NEW v \in Worker, job[v] # Break, job[v] # job[w]
               PROVE  job[v] \in Held'
    BY DEF Held
  <2>1. job'[v] = job[v]
    BY <1>2
  <2> QED BY <2>1 DEF Held
<1>5. HeldByOne'
  BY <1>2 DEF HeldByOne
<1> QED BY <1>1, <1>3, <1>4, <1>5 DEF Held

LEMMA WorkerGetPlaced ==
    ASSUME TypeInv, PlacedOnce, NEW w \in Worker, WorkerGet(w)
    PROVE  PlacedOnce'
<1> DEFINE j == Head(input_queue)
<1>1. /\ pc[w] = "get" /\ input_queue # <<>>
      /\ input_queue' = Tail(input_queue)
      /\ job' = [job EXCEPT ![w] = j]
      /\ UNCHANGED <<output_queue, collected, jobs>>
  BY DEF WorkerGet, mainVars
<1>2. job[w] = Break
  BY <1>1 DEF TypeInv, HoldsExact
<1>3. input_queue \in Seq(Job \cup {Break}) /\ Once(input_queue)
  BY DEF TypeInv, TypeOK, PlacedOnce
<1>4. /\ j \in Job \cup {Break}
      /\ In(input_queue) = {j} \cup In(input_queue')
  BY <1>1, <1>3, InTail
<1>5. /\ Once(input_queue')
      /\ j # Break => j \notin In(input_queue')
  BY <1>1, <1>3, OnceTail
<1> HIDE DEF j
<1>6. j \notin Held
  BY <1>4 DEF PlacedOnce
<1>7. Held' = Held \cup ({j} \ {Break}) /\ HeldByOne'
  BY <1>1, <1>2, <1>4, <1>6, HeldTake DEF PlacedOnce
<1>8. /\ In(input_queue') = In(input_queue)'
      /\ In(output_queue)' = In(output_queue)
      /\ In(collected)' = In(collected)
      /\ Once(output_queue)' /\ Once(collected)'
  BY <1>1 DEF PlacedOnce, In, Once
<1>9. Break \notin Held
  BY DEF Held
<1>10. Break \notin In(output_queue) /\ Break \notin In(collected)
  BY BreakIsNoJob DEF TypeInv, TypeOK, In
<1> QED BY <1>1, <1>4, <1>5, <1>7, <1>8, <1>9, <1>10 DEF PlacedOnce

LEMMA ReturnPlaced ==
    ASSUME TypeInv, PlacedOnce, NEW w \in Worker, job[w] \in Job, Return(w),
           UNCHANGED <<input_queue, collected, jobs>>
    PROVE  PlacedOnce'
<1>1. /\ output_queue' = Append(output_queue, job[w])
      /\ job' = [job EXCEPT ![w] = Break]
  BY DEF Return
<1>2. Held' = Held \ {job[w]} /\ HeldByOne' /\ job[w] \in Held
  BY <1>1, HeldReturn DEF PlacedOnce
<1>3. output_queue \in Seq(Job) /\ Once(output_queue)
      /\ job[w] \notin In(output_queue)
  BY <1>2 DEF TypeInv, TypeOK, PlacedOnce
<1>4. Once(output_queue)' /\ In(output_queue)' = In(output_queue) \cup {job[w]}
  <2>1. In(output_queue') = In(output_queue) \cup {job[w]}
    BY <1>1, <1>3, InAppend
  <2>2. Once(output_queue')
    BY <1>1, <1>3, OnceAppend
  <2> QED BY <2>1, <2>2 DEF In, Once
<1>5. /\ In(input_queue)' = In(input_queue)
      /\ In(collected)' = In(collected)
      /\ Once(input_queue)' /\ Once(collected)'
  BY DEF PlacedOnce, In, Once
<1> QED BY <1>2, <1>4, <1>5 DEF PlacedOnce

LEMMA DispatchPlaced == TypeInv /\ PlacedOnce /\ Dispatch => PlacedOnce'
<1> SUFFICES ASSUME TypeInv, PlacedOnce, Dispatch PROVE PlacedOnce'
  OBVIOUS
<1>1. /\ jobs < NJobs /\ jobs' = jobs + 1
      /\ input_queue' = Append(input_queue, jobs + 1)
      /\ UNCHANGED <<output_queue, job, collected>>
  BY DEF Dispatch
<1>2. jobs \in Nat /\ jobs + 1 \in Job /\ jobs + 1 # Break
      /\ input_queue \in Seq(Job \cup {Break})
  BY <1>1, RunnerAssumption DEF TypeInv, TypeOK, Job, Break
<1>3. jobs + 1 \notin In(input_queue) \cup Held \cup In(output_queue)
                        \cup In(collected)
  BY <1>2 DEF PlacedOnce
<1>4. In(input_queue)' = In(input_queue) \cup {jobs + 1} /\ Once(input_queue)'
  <2>1. In(input_queue') = In(input_queue) \cup {jobs + 1}
    BY <1>1, <1>2, InAppend
  <2>2. Once(input_queue')
    BY <1>1, <1>2, <1>3, OnceAppend DEF PlacedOnce
  <2> QED BY <2>1, <2>2 DEF In, Once
<1>5. /\ In(output_queue)' = In(output_queue) /\ Held' = Held
      /\ In(collected)' = In(collected) /\ HeldByOne'
      /\ Once(output_queue)' /\ Once(collected)'
  BY <1>1 DEF PlacedOnce, In, Once, Held, HeldByOne
<1>6. 1..(jobs + 1) = (1..jobs) \cup {jobs + 1}
  BY <1>2
<1> QED BY <1>1, <1>2, <1>3, <1>4, <1>5, <1>6 DEF PlacedOnce

LEMMA DispatchBreakPlaced == TypeInv /\ PlacedOnce /\ DispatchBreak => PlacedOnce'
<1> SUFFICES ASSUME TypeInv, PlacedOnce, DispatchBreak PROVE PlacedOnce'
  OBVIOUS
<1>1. /\ input_queue' = Append(input_queue, Break)
      /\ UNCHANGED <<output_queue, job, jobs, collected>>
  BY DEF DispatchBreak
<1>2. input_queue \in Seq(Job \cup {Break})
  BY DEF TypeInv, TypeOK
<1>3. In(input_queue)' = In(input_queue) \cup {Break} /\ Once(input_queue)'
  <2>1. In(input_queue') = In(input_queue) \cup {Break}
    BY <1>1, <1>2, InAppend
  <2>2. Once(input_queue')
    BY <1>1, <1>2, OnceAppend DEF PlacedOnce
  <2> QED BY <2>1, <2>2 DEF In, Once
<1>4. /\ In(output_queue)' = In(output_queue) /\ Held' = Held
      /\ In(collected)' = In(collected) /\ HeldByOne'
      /\ Once(output_queue)' /\ Once(collected)'
  BY <1>1 DEF PlacedOnce, In, Once, Held, HeldByOne
<1>5. Break \notin Held /\ Break \notin In(output_queue) \cup In(collected)
  BY BreakIsNoJob DEF TypeInv, TypeOK, In, Held
<1> QED BY <1>1, <1>3, <1>4, <1>5 DEF PlacedOnce

LEMMA CollectPlaced == TypeInv /\ PlacedOnce /\ Collect => PlacedOnce'
<1> SUFFICES ASSUME TypeInv, PlacedOnce, Collect PROVE PlacedOnce'
  OBVIOUS
<1> DEFINE j == Head(output_queue)
<1>1. /\ output_queue # <<>> /\ output_queue' = Tail(output_queue)
      /\ collected' = Append(collected, j)
      /\ UNCHANGED <<input_queue, job, jobs>>
  BY DEF Collect
<1>2. output_queue \in Seq(Job) /\ collected \in Seq(Job)
      /\ Once(output_queue) /\ Once(collected)
  BY DEF TypeInv, TypeOK, PlacedOnce
<1>3. j \in Job /\ In(output_queue) = {j} \cup In(output_queue')
  BY <1>1, <1>2, InTail
<1>4. Once(output_queue') /\ j \notin In(output_queue')
  BY <1>1, <1>2, <1>3, OnceTail, BreakIsNoJob
<1> HIDE DEF j
<1>5. j \notin In(collected)
  BY <1>3 DEF PlacedOnce
<1>6. Once(collected') /\ In(collected') = In(collected) \cup {j}
  BY <1>1, <1>2, <1>3, <1>5, InAppend, OnceAppend
<1>7. /\ In(output_queue)' = In(output_queue')
      /\ In(collected)' = In(collected')
      /\ In(input_queue)' = In(input_queue) /\ Held' = Held /\ HeldByOne'
      /\ Once(input_queue)'
  BY <1>1 DEF PlacedOnce, In, Once, Held, HeldByOne
<1>8. Once(output_queue)' /\ Once(collected)'
  BY <1>4, <1>6 DEF Once
<1> QED BY <1>1, <1>3, <1>4, <1>6, <1>7, <1>8 DEF PlacedOnce

\* A step that moves no job.
LEMMA PlacedKept ==
    ASSUME PlacedOnce, UNCHANGED <<input_queue, output_queue, job, collected, jobs>>
    PROVE  PlacedOnce'
BY DEF PlacedOnce, In, Once, Held, HeldByOne

LEMMA NextPlaced == TypeInv /\ PlacedOnce /\ [Next]_vars => PlacedOnce'
<1> SUFFICES ASSUME TypeInv, PlacedOnce, [Next]_vars PROVE PlacedOnce'
  OBVIOUS
<1>1. CASE Interrupt
  BY <1>1, PlacedKept DEF Interrupt, queues, mainVars
<1>2. ASSUME NEW w \in Worker, WorkerStep(w) PROVE PlacedOnce'
  <2>1. CASE WorkerGet(w)
    BY <2>1, WorkerGetPlaced
  <2>2. CASE WorkerCheck(w)
    <3>1. job[w] \in Job /\ UNCHANGED <<input_queue, collected, jobs>>
      BY <2>2 DEF WorkerCheck, mainVars, TypeInv, HoldsExact
    <3>2. Return(w) \/ UNCHANGED <<output_queue, job>>
      BY <2>2 DEF WorkerCheck
    <3> QED BY <3>1, <3>2, ReturnPlaced, PlacedKept
  <2>3. CASE WorkerRun(w)
    <3>1. job[w] \in Job /\ Return(w)
          /\ UNCHANGED <<input_queue, collected, jobs>>
      BY <2>3 DEF WorkerRun, mainVars, TypeInv, HoldsExact
    <3> QED BY <3>1, ReturnPlaced
  <2>4. CASE WorkerDies(w)
    BY <2>4, PlacedKept DEF WorkerDies, queues, mainVars
  <2> QED BY <1>2, <2>1, <2>2, <2>3, <2>4 DEF WorkerStep
<1>3. CASE MainStep
  <2>1. CASE Dispatched \/ Collected \/ Join
    BY <2>1, PlacedKept DEF Dispatched, Collected, Join, queues
  <2> QED BY <1>3, <2>1, DispatchPlaced, DispatchBreakPlaced, CollectPlaced
          DEF MainStep
<1>4. CASE UNCHANGED vars
  BY <1>4, PlacedKept DEF vars, queues, mainVars
<1> QED BY <1>1, <1>2, <1>3, <1>4 DEF Next

LEMMA Placed == Spec => []PlacedOnce
<1>1. Init => PlacedOnce
  <2> SUFFICES ASSUME Init PROVE PlacedOnce
    OBVIOUS
  <2>1. /\ In(input_queue) = {} /\ In(output_queue) = {} /\ In(collected) = {}
        /\ Once(input_queue) /\ Once(output_queue) /\ Once(collected)
    BY DEF Init, In, Once
  <2>2. Held = {} /\ HeldByOne
    BY DEF Init, Held, HeldByOne
  <2>3. 1..jobs = {}
    BY DEF Init
  <2> QED BY <2>1, <2>2, <2>3 DEF PlacedOnce
<1> QED BY <1>1, Typed, NextPlaced, PTL DEF Spec

\* No job is lost, doubled or collected twice between the two queues, the
\* workers, those that died included, and the main thread.
THEOREM JobsConservedCorrect == Spec => []JobsConserved
BY Placed, PlacedIsConserved, PTL
-----------------------------------------------------------------------------
(* After the interrupt. *)

NotStarted == \A j \in Job : j > jobs \/ j \in In(input_queue)
                                => exited[j] = NotRun

LateNotRun == \A j \in late : /\ thread_exit /\ exited[j] = NotRun
                              /\ \A w \in Worker : Holds(w, j) => pc[w] # "run"

LEMMA GetLate ==
    ASSUME TypeInv, PlacedOnce, NotStarted, LateNotRun,
           NEW w \in Worker, WorkerGet(w)
    PROVE  NotStarted' /\ LateNotRun'
<1> DEFINE j == Head(input_queue)
<1>1. /\ input_queue # <<>>
      /\ input_queue' = Tail(input_queue)
      /\ job' = [job EXCEPT ![w] = j]
      /\ pc' = [pc EXCEPT ![w] = IF j = Break THEN "exited" ELSE "check"]
      /\ late' = IF thread_exit /\ j # Break THEN late \cup {j} ELSE late
      /\ UNCHANGED <<thread_exit, jobs, exited>>
  BY DEF WorkerGet, mainVars, process
<1>2. input_queue \in Seq(Job \cup {Break}) /\ j \in Job \cup {Break}
      /\ In(input_queue) = {j} \cup In(input_queue')
  BY <1>1, InTail DEF TypeInv, TypeOK
<1> HIDE DEF j
<1>3. NotStarted'
  <2>1. In(input_queue)' \subseteq In(input_queue)
    BY <1>2 DEF In
  <2> QED BY <2>1, <1>1 DEF NotStarted
<1>4. \A v \in Worker : /\ v # w => job'[v] = job[v] /\ pc'[v] = pc[v]
                        /\ pc'[w] # "run"
  BY <1>1 DEF TypeInv, TypeOK
<1>5. ASSUME NEW i \in late'
      PROVE  /\ thread_exit /\ exited[i] = NotRun
             /\ \A v \in Worker : job'[v] = i => pc'[v] # "run"
  <2>1. CASE i \in late
    BY <2>1, <1>4 DEF LateNotRun, Holds
  <2>2. CASE i = j /\ j # Break /\ thread_exit
    <3>1. exited[i] = NotRun
      BY <2>2, <1>2 DEF NotStarted
    <3>2. i \notin Held
      BY <2>2, <1>2 DEF PlacedOnce
    <3>3. \A v \in Worker : job[v] # i
      BY <3>2, <2>2 DEF Held
    <3> QED BY <3>1, <3>3, <2>2, <1>4
  <2> QED BY <1>1, <1>5, <2>1, <2>2
<1>6. LateNotRun'
  BY <1>1, <1>5 DEF LateNotRun, Holds
<1> QED BY <1>3, <1>6

\* A worker that hands its job back runs nothing.
LEMMA ReturnLate ==
    ASSUME TypeInv, PlacedOnce, NotStarted, LateNotRun, NEW w \in Worker,
           job[w] \in Job, Return(w),
           UNCHANGED <<thread_exit, input_queue, jobs, late>>,
           \/ exited' = exited
           \/ /\ pc[w] = "run"
              /\ \E code \in Code : exited' = [exited EXCEPT ![job[w]] = code]
    PROVE  NotStarted' /\ LateNotRun'
<1>1. job[w] \in Held
  BY BreakIsNoJob DEF Held
<1>2. \A j \in Job : j # job[w] => exited'[j] = exited[j]
  BY DEF TypeInv, TypeOK
<1>3. NotStarted'
  <2>1. job[w] \notin In(input_queue) /\ job[w] \in 1..jobs
    BY <1>1 DEF PlacedOnce
  <2>2. jobs \in Nat
    BY RunnerAssumption DEF TypeInv, TypeOK
  <2>3. In(input_queue)' = In(input_queue)
    BY DEF In
  <2> QED BY <2>1, <2>2, <2>3, <1>2 DEF NotStarted
<1>4. \A v \in Worker : /\ v # w => job'[v] = job[v] /\ pc'[v] = pc[v]
                        /\ pc'[w] # "run"
  BY DEF Return, TypeInv, TypeOK
<1>5. ASSUME NEW j \in late
      PROVE  exited'[j] = NotRun
  <2>1. j \in Job
    BY DEF TypeInv, TypeOK
  <2>2. pc[w] = "run" => j # job[w]
    BY DEF LateNotRun, Holds
  <2> QED BY <2>1, <2>2, <1>2 DEF LateNotRun
<1>6. LateNotRun'
  BY <1>4, <1>5 DEF LateNotRun, Holds
<1> QED BY <1>3, <1>6

LEMMA LateKept ==
    ASSUME NotStarted, LateNotRun, thread_exit => thread_exit',
           UNCHANGED <<input_queue, jobs, late, exited, job>>,
           pc' = pc \/ \E w \in Worker : pc' = [pc EXCEPT ![w] = "died"],
           TypeInv
    PROVE  NotStarted' /\ LateNotRun'
<1>1. \A v \in Worker : pc'[v] = "run" => pc[v] = "run"
  BY DEF TypeInv, TypeOK
<1> QED BY <1>1 DEF NotStarted, LateNotRun, In, Holds

LEMMA DispatchLate ==
    ASSUME TypeInv, NotStarted, LateNotRun, Dispatch \/ DispatchBreak
    PROVE  NotStarted' /\ LateNotRun'
<1>1. UNCHANGED <<thread_exit, pc, job, late, exited>>
  BY DEF Dispatch, DispatchBreak, process
<1>2. input_queue \in Seq(Job \cup {Break}) /\ jobs \in Nat
  BY RunnerAssumption DEF TypeInv, TypeOK
<1>3. NotStarted'
  <2>1. CASE Dispatch
    <3>1. /\ jobs' = jobs + 1 /\ jobs + 1 \in Job
          /\ input_queue' = Append(input_queue, jobs + 1)
      BY <2>1, <1>2, RunnerAssumption DEF Dispatch, TypeInv, TypeOK, Job
    <3>2. In(input_queue)' = In(input_queue) \cup {jobs + 1}
      BY <3>1, <1>2, InAppend DEF In
    <3>3. \A j \in Job : j \in Int
      BY DEF Job
    <3> QED BY <3>1, <3>2, <3>3, <1>1, <1>2 DEF NotStarted
  <2>2. CASE DispatchBreak
    <3>1. /\ jobs' = jobs
          /\ input_queue' = Append(input_queue, Break)
      BY <2>2 DEF DispatchBreak
    <3>2. In(input_queue)' = In(input_queue) \cup {Break}
      BY <3>1, <1>2, InAppend DEF In
    <3> QED BY <3>1, <3>2, <1>1, BreakIsNoJob DEF NotStarted
  <2> QED BY <2>1, <2>2
<1>4. LateNotRun'
  BY <1>1 DEF LateNotRun, Holds
<1> QED BY <1>3, <1>4

LEMMA NextLate ==
    ASSUME TypeInv, PlacedOnce, NotStarted, LateNotRun, [Next]_vars
    PROVE  NotStarted' /\ LateNotRun'
<1>1. CASE Interrupt
  BY <1>1, LateKept DEF Interrupt, queues, mainVars, process
<1>2. ASSUME NEW w \in Worker, WorkerStep(w) PROVE NotStarted' /\ LateNotRun'
  <2>1. CASE WorkerGet(w)
    BY <2>1, GetLate
  <2>2. CASE WorkerCheck(w)
    <3>1. job[w] \in Job
          /\ UNCHANGED <<thread_exit, input_queue, jobs, late, exited>>
      BY <2>2 DEF WorkerCheck, mainVars, process, TypeInv, HoldsExact
    <3>2. CASE Return(w)
      BY <3>1, <3>2, ReturnLate
    <3>3. CASE /\ ~thread_exit /\ job' = job
               /\ pc' = [pc EXCEPT ![w] = "run"]
      BY <3>1, <3>3 DEF NotStarted, LateNotRun, In, Holds
    <3> QED BY <2>2, <3>2, <3>3 DEF WorkerCheck
  <2>3. CASE WorkerRun(w)
    <3>1. /\ job[w] \in Job /\ Return(w) /\ pc[w] = "run"
          /\ UNCHANGED <<thread_exit, input_queue, jobs, late>>
      BY <2>3 DEF WorkerRun, mainVars, TypeInv, HoldsExact
    <3>2. \E code \in Code : exited' = [exited EXCEPT ![job[w]] = code]
      BY <2>3 DEF WorkerRun
    <3> QED BY <3>1, <3>2, ReturnLate
  <2>4. CASE WorkerDies(w)
    BY <2>4, LateKept DEF WorkerDies, queues, mainVars, process
  <2> QED BY <1>2, <2>1, <2>2, <2>3, <2>4 DEF WorkerStep
<1>3. CASE MainStep
  <2>1. CASE Dispatched \/ Collected \/ Join \/ Collect
    BY <2>1, LateKept DEF Dispatched, Collected, Join, Collect, queues, process
  <2> QED BY <1>3, <2>1, DispatchLate DEF MainStep
<1>4. CASE UNCHANGED vars
  BY <1>4, LateKept DEF vars, queues, mainVars, process
<1> QED BY <1>1, <1>2, <1>3, <1>4 DEF Next

\* Once the interrupt is in, a worker that takes a job never starts a process
\* for it, however the interrupt falls between its reads of the flag.
THEOREM StopsStartingCorrect == Spec => []StopsStarting
<1>1. Init => NotStarted /\ LateNotRun
  BY DEF Init, NotStarted, LateNotRun
<1>2. TypeInv /\ PlacedOnce /\ NotStarted /\ LateNotRun /\ [Next]_vars
        => NotStarted' /\ LateNotRun'
  BY NextLate
<1>3. LateNotRun => StopsStarting
  BY DEF LateNotRun, StopsStarting
<1> QED BY <1>1, <1>2, <1>3, Typed, Placed, PTL DEF Spec
-----------------------------------------------------------------------------
(* The exit code. *)

Counted(s) == {j \in In(collected) : ~is_break[j] /\ StatusOf(j) = s}

TallyExact == \A s \in Status : tally[s] = Cardinality(Counted(s))

ZeroReturned == \A j \in Job : returncode[j] = 0 => exited[j] = 0

ZeroExit == exitcode = 0 =>
              /\ Job \subseteq In(collected)
              /\ \A j \in Job : j \in Skipped \/ exited[j] = 0

Exit == TallyExact /\ ZeroReturned /\ ZeroExit

LEMMA CollectedJobs ==
    ASSUME TypeInv
    PROVE  /\ In(collected) \subseteq Job
           /\ IsFiniteSet(Job) /\ Cardinality(Job) = NJobs
           /\ \A s : IsFiniteSet(Counted(s)) /\ Counted(s) \subseteq Job
<1>1. In(collected) \subseteq Job
  BY DEF TypeInv, TypeOK, In
<1>2. IsFiniteSet(Job) /\ Cardinality(Job) = NJobs
  BY RunnerAssumption, FS_Interval DEF Job
<1>3. ASSUME NEW s PROVE IsFiniteSet(Counted(s)) /\ Counted(s) \subseteq Job
  <2>1. Counted(s) \in SUBSET Job
    BY <1>1 DEF Counted
  <2> QED BY <2>1, <1>2, FS_Subset
<1> QED BY <1>1, <1>2, <1>3

\* A job in the hands of a worker is not among those collected, so that what
\* the worker notes on it changes no count.
LEMMA WorkerExit ==
    ASSUME TypeInv, PlacedOnce, Exit, NEW w \in Worker, job[w] \in Job,
           UNCHANGED <<collected, tally, exitcode>>,
           \A j \in Job : j # job[w] => /\ is_break'[j] = is_break[j]
                                        /\ returncode'[j] = returncode[j]
                                        /\ exited'[j] = exited[j],
           returncode'[job[w]] = 0 => exited'[job[w]] = 0
    PROVE  Exit'
<1>1. job[w] \notin In(collected)
  BY BreakIsNoJob DEF PlacedOnce, Held
<1>2. \A j \in In(collected) : /\ is_break'[j] = is_break[j]
                               /\ StatusOf(j)' = StatusOf(j)
  BY <1>1, CollectedJobs DEF StatusOf
<1>3. \A s : Counted(s)' = Counted(s)
  BY <1>2 DEF Counted, In
<1>4. TallyExact'
  BY <1>3 DEF Exit, TallyExact
<1>5. ZeroReturned'
  BY DEF Exit, ZeroReturned
<1>6. ZeroExit'
  BY <1>1 DEF Exit, ZeroExit, In
<1> QED BY <1>4, <1>5, <1>6 DEF Exit

LEMMA CollectExit ==
    ASSUME TypeInv, PlacedOnce, Exit, Collect
    PROVE  Exit'
<1> DEFINE j == Head(output_queue)
<1>1. /\ output_queue # <<>>
      /\ collected' = Append(collected, j)
      /\ UNCHANGED <<is_break, returncode, exitcode, exited>>
  BY DEF Collect, process
<1>2. \/ is_break[j] /\ tally' = tally
      \/ ~is_break[j] /\ tally' = [tally EXCEPT ![StatusOf(j)] = @ + 1]
  BY DEF Collect
<1>3. j \in Job /\ j \in In(output_queue)
  BY <1>1, InTail DEF TypeInv, TypeOK
<1>4. j \notin In(collected)
  BY <1>3 DEF PlacedOnce
<1>5. In(collected)' = In(collected) \cup {j}
  <2>1. In(collected') = In(collected) \cup {j}
    BY <1>1, <1>3, InAppend DEF TypeInv, TypeOK
  <2> QED BY <2>1 DEF In
<1>6. \A i : StatusOf(i)' = StatusOf(i)
  BY <1>1 DEF StatusOf
<1> HIDE DEF j
<1>7. TallyExact'
  <2> SUFFICES ASSUME NEW s \in Status
               PROVE  tally'[s] = Cardinality(Counted(s)')
    BY DEF TallyExact
  <2>1. tally[s] = Cardinality(Counted(s)) /\ tally \in [Status -> Nat]
    BY DEF Exit, TallyExact, TypeInv, TypeOK
  <2>2. CASE is_break[j] \/ StatusOf(j) # s
    <3>1. Counted(s)' = Counted(s)
      BY <2>2, <1>1, <1>5, <1>6 DEF Counted
    <3>2. tally'[s] = tally[s]
      BY <2>1, <2>2, <1>2
    <3> QED BY <2>1, <3>1, <3>2
  <2>3. CASE ~is_break[j] /\ StatusOf(j) = s
    <3>1. Counted(s)' = Counted(s) \cup {j} /\ j \notin Counted(s)
      BY <2>3, <1>1, <1>4, <1>5, <1>6 DEF Counted
    <3>2. tally'[s] = tally[s] + 1
      BY <2>1, <2>3, <1>2
    <3>3. IsFiniteSet(Counted(s))
      BY CollectedJobs
    <3>4. Cardinality(Counted(s)') = Cardinality(Counted(s)) + 1
      BY <3>1, <3>3, FS_AddElement
    <3> QED BY <2>1, <3>2, <3>4
  <2> QED BY <2>2, <2>3
<1>8. ZeroReturned' /\ ZeroExit'
  BY <1>1, <1>5 DEF Exit, ZeroReturned, ZeroExit
<1> QED BY <1>7, <1>8 DEF Exit

\* If the passed and the skipped jobs together are as many as there are jobs,
\* they are all the jobs.
LEMMA AllPassed ==
    ASSUME TypeInv, Exit, Success
    PROVE  /\ Job \subseteq In(collected)
           /\ \A j \in Job : j \in Skipped \/ exited[j] = 0
<1> DEFINE P == Counted("PASS")
           S == Counted("SKIP")
<1>1. /\ IsFiniteSet(P) /\ P \subseteq Job /\ IsFiniteSet(S) /\ S \subseteq Job
      /\ IsFiniteSet(Job) /\ Cardinality(Job) = NJobs
  BY CollectedJobs
<1>2. tally["PASS"] = Cardinality(P) /\ tally["SKIP"] = Cardinality(S)
  BY DEF Exit, TallyExact, Status
<1>3. P \cap S = {}
  BY DEF Counted
<1> HIDE DEF P, S
<1>4. Cardinality(P \cup S) = NJobs
  <2>1. Cardinality(P \cap S) = 0
    BY <1>3, FS_EmptySet
  <2>2. /\ Cardinality(P) \in Nat /\ Cardinality(S) \in Nat
        /\ Cardinality(P \cup S)
             = Cardinality(P) + Cardinality(S) - Cardinality(P \cap S)
    BY <1>1, FS_Union, FS_CardinalityType
  <2> QED BY <2>1, <2>2, <1>2 DEF Success
<1>5. P \cup S = Job
  BY <1>1, <1>4, FS_Subset
<1>6. ASSUME NEW j \in Job
      PROVE  j \in In(collected) /\ (j \in Skipped \/ exited[j] = 0)
  <2>1. CASE j \in P
    <3>1. j \in In(collected) /\ StatusOf(j) = "PASS"
      BY <2>1 DEF P, Counted
    <3>2. j \in Skipped \/ returncode[j] = 0
      BY <3>1 DEF StatusOf
    <3> QED BY <3>1, <3>2 DEF Exit, ZeroReturned
  <2>2. CASE j \in S
    <3>1. j \in In(collected) /\ StatusOf(j) = "SKIP"
      BY <2>2 DEF S, Counted
    <3>2. j \in Skipped
      BY <3>1 DEF StatusOf
    <3> QED BY <3>1, <3>2
  <2> QED BY <1>5, <2>1, <2>2
<1> QED BY <1>6

\* A step that collects nothing and ends nothing.
LEMMA ExitKept ==
    ASSUME Exit, UNCHANGED <<collected, tally, is_break, returncode, exited>>,
           exitcode' = exitcode
    PROVE  Exit'
BY DEF Exit, TallyExact, Counted, StatusOf, In, ZeroReturned, ZeroExit

LEMMA JoinExit ==
    ASSUME TypeInv, Exit, Join
    PROVE  Exit'
<1>1. /\ UNCHANGED <<collected, tally, is_break, returncode, exited>>
      /\ exitcode' = IF Success THEN 0 ELSE 1
  BY DEF Join, process
<1>2. TallyExact' /\ ZeroReturned'
  BY <1>1 DEF Exit, TallyExact, Counted, StatusOf, In, ZeroReturned
<1>3. ZeroExit'
  <2> SUFFICES ASSUME exitcode' = 0
               PROVE  /\ Job \subseteq In(collected)'
                      /\ \A j \in Job : j \in Skipped \/ exited'[j] = 0
    BY DEF ZeroExit
  <2>1. Success
    BY <1>1
  <2>2. In(collected)' = In(collected)
    BY <1>1 DEF In
  <2> QED BY <2>1, <2>2, <1>1, AllPassed
<1> QED BY <1>2, <1>3 DEF Exit

LEMMA NextExit ==
    ASSUME TypeInv, PlacedOnce, Exit, [Next]_vars
    PROVE  Exit'
<1>1. CASE Interrupt
  BY <1>1, ExitKept DEF Interrupt, mainVars, process
<1>2. ASSUME NEW w \in Worker, WorkerStep(w) PROVE Exit'
  <2>1. CASE WorkerGet(w)
    BY <2>1, ExitKept DEF WorkerGet, mainVars, process
  <2>2. CASE WorkerCheck(w)
    <3>1. job[w] \in Job
          /\ UNCHANGED <<collected, tally, exitcode, returncode, exited>>
      BY <2>2 DEF WorkerCheck, mainVars, process, TypeInv, HoldsExact
    <3>2. \A j \in Job : j # job[w] => is_break'[j] = is_break[j]
      BY <2>2 DEF WorkerCheck, TypeInv, TypeOK
    <3>3. returncode[job[w]] = 0 => exited[job[w]] = 0
      BY <3>1 DEF Exit, ZeroReturned
    <3> QED BY <3>1, <3>2, <3>3, WorkerExit
  <2>3. CASE WorkerRun(w)
    <3>1. PICK code \in Code, f \in File, decodes \in BOOLEAN :
             /\ exited' = [exited EXCEPT ![job[w]] = code]
             /\ returncode' = [returncode EXCEPT ![job[w]] =
                                 Returned(code, decodes)]
      BY <2>3 DEF WorkerRun
    <3>2. job[w] \in Job /\ UNCHANGED <<collected, tally, exitcode, is_break>>
      BY <2>3 DEF WorkerRun, mainVars, TypeInv, HoldsExact
    <3>3. Returned(code, decodes) = 0 => code = 0
      BY DEF Returned
    <3>4. /\ exited'[job[w]] = code
          /\ returncode'[job[w]] = Returned(code, decodes)
          /\ \A j \in Job : j # job[w] => /\ returncode'[j] = returncode[j]
                                          /\ exited'[j] = exited[j]
      BY <3>1, <3>2 DEF TypeInv, TypeOK
    <3> QED BY <3>2, <3>3, <3>4, WorkerExit
  <2>4. CASE WorkerDies(w)
    BY <2>4, ExitKept DEF WorkerDies, mainVars, process
  <2> QED BY <1>2, <2>1, <2>2, <2>3, <2>4 DEF WorkerStep
<1>3. CASE MainStep
  <2>1. CASE Dispatch \/ DispatchBreak \/ Dispatched \/ Collected
    BY <2>1, ExitKept DEF Dispatch, DispatchBreak, Dispatched, Collected, process
  <2> QED BY <1>3, <2>1, CollectExit, JoinExit DEF MainStep
<1>4. CASE UNCHANGED vars
  BY <1>4, ExitKept DEF vars, mainVars, process
<1> QED BY <1>1, <1>2, <1>3, <1>4 DEF Next

\* test.py says that everything passed only if it did: the counters are those
\* of the jobs collected, and counters that add up to the number of jobs leave
\* room for no job that failed, was broken off or went missing with a worker.
THEOREM SuccessCorrect == Spec => []SuccessMeansPassed
<1>1. Init => Exit
  <2> SUFFICES ASSUME Init PROVE Exit
    OBVIOUS
  <2>1. \A s : Counted(s) = {}
    BY DEF Init, Counted, In
  <2>2. TallyExact
    BY <2>1, FS_EmptySet DEF Init, TallyExact
  <2>3. ZeroReturned /\ ZeroExit
    BY DEF Init, ZeroReturned, ZeroExit, NotRun
  <2> QED BY <2>2, <2>3 DEF Exit
<1>2. TypeInv /\ PlacedOnce /\ Exit /\ [Next]_vars => Exit'
  BY NextExit
<1>3. Exit => SuccessMeansPassed
  BY DEF Exit, ZeroExit, SuccessMeansPassed
<1> QED BY <1>1, <1>2, <1>3, Typed, Placed, PTL DEF Spec
-----------------------------------------------------------------------------
(* The results file. *)

Unbroken == {j \in Job : ~is_break[j]}

Written == [i \in DOMAIN results |-> results[i].job]

\* A worker marks a job only while it holds it, before it is collected.
LEMMA DueKept ==
    ASSUME TypeInv, UNCHANGED <<collected, main, results>>,
           \A j \in In(collected) : is_break'[j] = is_break[j],
           OneEntryEach
    PROVE  OneEntryEach'
<1>1. collected \in Seq(Job)
  BY DEF TypeInv, TypeOK
<1>2. \A i \in 1..Len(collected) : collected[i] \in Unbroken
                                   <=> collected[i] \in Unbroken'
  BY <1>1 DEF Unbroken, In
<1>3. Within(collected, Unbroken') = Within(collected, Unbroken)
  BY <1>1, <1>2, WithinSame
<1> QED BY <1>3 DEF OneEntryEach, Unbroken

LEMMA CollectEntry ==
    ASSUME TypeInv, Collect, OneEntryEach
    PROVE  OneEntryEach'
<1> DEFINE j == Head(output_queue)
           due == Within(collected, Unbroken)
<1>1. /\ main = "collect" /\ output_queue # <<>>
      /\ collected' = Append(collected, j)
      /\ Unbroken' = Unbroken
  BY DEF Collect, Unbroken
<1>2. \/ is_break[j] /\ main' = main /\ results' = results
      \/ ~is_break[j] /\ main' = "raised" /\ results' = results
      \/ ~is_break[j] /\ main' = main /\ results' = Append(results, Entry(j))
  BY DEF Collect
<1>3. j \in Job /\ collected \in Seq(Job)
      /\ results \in Seq([job : Job, result : Status \cup File])
  BY <1>1, HeadTailProperties DEF TypeInv, TypeOK
<1>4. due \in Seq(Job) /\ Written = due
  BY <1>1, <1>3, WithinType DEF OneEntryEach, Unbroken, Written
<1>5. Within(collected', Unbroken)
        = IF is_break[j] THEN due ELSE Append(due, j)
  <2> HIDE DEF j
  <2>1. j \in Unbroken <=> ~is_break[j]
    BY <1>3 DEF Unbroken
  <2>2. Within(Append(collected, j), Unbroken)
          = IF j \in Unbroken THEN Append(due, j) ELSE due
    BY <1>3, WithinAppend
  <2> QED BY <1>1, <2>1, <2>2
<1> HIDE DEF j, due
<1>6. CASE is_break[j]
  BY <1>1, <1>2, <1>4, <1>5, <1>6 DEF OneEntryEach, Written, Unbroken
<1>7. CASE ~is_break[j] /\ main' = "raised" /\ results' = results
  <2>1. Len(Append(due, j)) = Len(due) + 1
        /\ SubSeq(Append(due, j), 1, Len(due)) = due
    BY <1>3, <1>4
  <2>2. Within(collected', Unbroken') = Append(due, j)
    BY <1>1, <1>5, <1>7
  <2>3. Len(due) + 1 - 1 = Len(due)
    BY <1>4
  <2>4. Written' = SubSeq(Append(due, j), 1, Len(Append(due, j)) - 1)
    BY <1>4, <1>7, <2>1, <2>3 DEF Written
  <2> QED BY <1>7, <2>2, <2>4 DEF OneEntryEach, Written, Unbroken
<1>8. CASE ~is_break[j] /\ main' = main /\ results' = Append(results, Entry(j))
  <2>1. DOMAIN results = 1..Len(results) /\ Len(results) \in Nat
    BY <1>3
  <2>2. /\ DOMAIN results' = 1..(Len(results) + 1)
        /\ \A i \in 1..Len(results) : results'[i] = results[i]
        /\ results'[Len(results) + 1] = Entry(j)
    BY <1>3, <1>8
  <2>3. Entry(j).job = j
    BY DEF Entry
  <2>4. Len(due) = Len(results)
        /\ \A i \in 1..Len(results) : due[i] = results[i].job
    BY <1>4, <2>1 DEF Written
  <2>5. Append(due, j) = [i \in 1..(Len(due) + 1) |->
                            IF i = Len(due) + 1 THEN j ELSE due[i]]
    <3> DEFINE a == Append(due, j)
    <3>1. /\ a \in Seq(Job) /\ Len(a) = Len(due) + 1
          /\ \A i \in 1..(Len(due) + 1) :
               a[i] = IF i = Len(due) + 1 THEN j ELSE due[i]
      BY <1>3, <1>4, AppendProperties
    <3> HIDE DEF a
    <3>2. a = [i \in 1..(Len(due) + 1) |-> a[i]]
      BY <3>1
    <3> QED BY <3>1, <3>2 DEF a
  <2>6. Written' = [i \in 1..(Len(results) + 1) |-> results'[i].job]
    BY <2>2 DEF Written
  <2>7. ASSUME NEW i \in 1..(Len(results) + 1)
        PROVE  results'[i].job = IF i = Len(due) + 1 THEN j ELSE due[i]
    BY <2>1, <2>2, <2>3, <2>4
  <2>8. Written' = Append(due, j)
    BY <2>4, <2>5, <2>6, <2>7
  <2> QED BY <1>1, <1>5, <1>8, <2>8 DEF OneEntryEach, Written, Unbroken
<1> QED BY <1>2, <1>6, <1>7, <1>8

LEMMA NextEntry ==
    ASSUME TypeInv, PlacedOnce, OneEntryEach, [Next]_vars
    PROVE  OneEntryEach'
<1> DEFINE Same == UNCHANGED <<collected, main, results, is_break>>
<1>1. CASE Same
  BY <1>1, DueKept
<1>2. CASE Interrupt
  BY <1>1, <1>2 DEF Interrupt, mainVars
<1>3. ASSUME NEW w \in Worker, WorkerStep(w) PROVE OneEntryEach'
  <2>1. CASE WorkerCheck(w)
    <3>1. job[w] \in Job /\ UNCHANGED <<collected, main, results>>
      BY <2>1 DEF WorkerCheck, mainVars, TypeInv, HoldsExact
    <3>2. job[w] \notin In(collected)
      BY <3>1, BreakIsNoJob DEF PlacedOnce, Held
    <3>3. In(collected) \subseteq Job
      BY DEF TypeInv, TypeOK, In
    <3>4. \A j \in In(collected) : is_break'[j] = is_break[j]
      BY <2>1, <3>2, <3>3 DEF WorkerCheck, TypeInv, TypeOK
    <3> QED BY <3>1, <3>4, DueKept
  <2>2. CASE WorkerGet(w) \/ WorkerRun(w) \/ WorkerDies(w)
    BY <1>1, <2>2 DEF WorkerGet, WorkerRun, WorkerDies, mainVars
  <2> QED BY <1>3, <2>1, <2>2 DEF WorkerStep
<1>4. CASE Dispatch \/ DispatchBreak
  BY <1>1, <1>4 DEF Dispatch, DispatchBreak
<1>5. CASE Dispatched \/ Collected \/ Join
  <2>1. main # "raised" /\ main' # "raised"
        /\ UNCHANGED <<collected, results, is_break>>
    BY <1>5 DEF Dispatched, Collected, Join
  <2> QED BY <2>1 DEF OneEntryEach
<1>6. CASE Collect
  BY <1>6, CollectEntry
<1>7. CASE UNCHANGED vars
  BY <1>1, <1>7 DEF vars, mainVars
<1> QED BY <1>2, <1>3, <1>4, <1>5, <1>6, <1>7 DEF Next, MainStep

\* The results file says of every job collected, and not broken off, exactly
\* once what became of it, in the order of collection, even when the main
\* thread ends on a file that is not there: no mark of a worker reaches a job
\* that was collected.
THEOREM EntriesCorrect == Spec => []OneEntryEach
<1>1. Init => OneEntryEach
  <2> SUFFICES ASSUME Init PROVE OneEntryEach
    OBVIOUS
  <2>1. main = "dispatch" /\ collected = <<>> /\ results = <<>>
    BY DEF Init
  <2>2. Within(collected, Unbroken) = <<>>
    BY <2>1, WithinEmpty
  <2>3. Written = <<>>
    BY <2>1 DEF Written
  <2> QED BY <2>1, <2>2, <2>3 DEF OneEntryEach, Written, Unbroken
<1> QED BY <1>1, NextEntry, Typed, Placed, PTL DEF Spec
=============================================================================
