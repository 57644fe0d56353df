------------------------- MODULE PipelineRunnerLife -------------------------
(***************************************************************************)
(* The life of a job in a WellBehaved environment: PipelineRunner          *)
(* implements JobLifecycle, what a settled job reports is final, and a     *)
(* shutdown leaves nothing behind.  All three rest on one lemma,           *)
(* StepHasEffect: whatever handler, loop, goroutine or timer takes a step, *)
(* its effect on the jobs is one of six.                                   *)
(*                                                                         *)
(* The second half is about the wait lists: they stay in creation order    *)
(* and within their limits, the newest job is displaced, the oldest that   *)
(* can be started is, and none waits for nothing.  It rests on             *)
(* StepHasMove: what the steps do to the lists and the startable jobs.     *)
(***************************************************************************)
EXTENDS PipelineRunnerSafety

-----------------------------------------------------------------------------
(***************************************************************************)
(* The effects of a step on the jobs.                                      *)
(***************************************************************************)

\* Neither what is reported of job k nor its goroutine's being alive changes,
\* and it does not lose its scheduler.
untouched(k) ==
  /\ sameJob(job'[k], job[k])
  /\ job'[k].Start     = job[k].Start
  /\ job'[k].Completed = job[k].Completed
  /\ job'[k].Canceled  = job[k].Canceled
  /\ job'[k].LastError = job[k].LastError
  /\ job'[k].sched = "nil" => job[k].sched = "nil"
  /\ alive(k)' <=> alive(k)

\* Waiting job k is marked as cancelled.
marked(k) ==
  /\ waits(k)
  /\ sameJob(job'[k], job[k])
  /\ ~job'[k].Start /\ job'[k].Canceled
  /\ alive(k)' <=> alive(k)

\* The waiting jobs of S are marked as cancelled.
Cancels(S) ==
  /\ UNCHANGED defs
  /\ \A k \in Jobs : IF k \in S THEN marked(k) ELSE untouched(k)

\* Waiting job j is started.
Starts(j) ==
  /\ UNCHANGED <<defs, shutdown>>
  /\ waits(j)
  /\ sameJob(job'[j], job[j]) /\ isRunning(job'[j]) /\ alive(j)' /\ job'[j].sched # "nil"
  /\ \A p \in Pipelines :
       job[j].Pipeline = p => Cardinality(executing(p)) < concurrency(p)
  /\ \A k \in Jobs : k # j => untouched(k)

\* The goroutine of job j ends.
Finishes(j) ==
  /\ UNCHANGED defs
  /\ alive(j) /\ ~alive(j)'
  /\ sameJob(job'[j], job[j]) /\ job'[j].Start /\ job'[j].Completed
  /\ \A k \in Jobs : k # j => untouched(k)

\* A new job j of pipeline p is started right away.
Launches(j, p) ==
  /\ UNCHANGED <<defs, shutdown>> /\ ~isShuttingDown
  /\ ~created(job[j])
  /\ created(job'[j]) /\ job'[j].Pipeline = p
  /\ isRunning(job'[j]) /\ alive(j)' /\ job'[j].sched # "nil"
  /\ Cardinality(executing(p)) < concurrency(p)
  /\ \A k \in Jobs : k # j => untouched(k)

\* A new job j of pipeline p is made to wait, perhaps in the place of another.
Accepts(j, p) ==
  /\ UNCHANGED <<defs, shutdown>> /\ ~isShuttingDown
  /\ ~created(job[j]) /\ ~alive(j)'
  /\ waits(j)' /\ job'[j].Pipeline = p /\ ~job'[j].Completed
  /\ \E S \in SUBSET {k \in Jobs : job[k].Pipeline = p} :
       /\ Cardinality(S) <= 1
       /\ \A k \in Jobs : k # j => IF k \in S THEN marked(k) ELSE untouched(k)

\* The definitions are replaced.
Redefines == \A k \in Jobs : untouched(k)

Effect ==
  \/ \E S \in SUBSET Jobs : Cancels(S)
  \/ \E j \in Jobs : Starts(j)
  \/ \E j \in Jobs : Finishes(j)
  \/ \E j \in Jobs, p \in Pipelines : Launches(j, p)
  \/ \E j \in Jobs, p \in Pipelines : Accepts(j, p)
  \/ Redefines

-----------------------------------------------------------------------------
(***************************************************************************)
(* The effect of each step.                                                *)
(***************************************************************************)

\* The error and the scheduler of an updated PipelineJob.
LEMMA RecordErrors ==
  ASSUME NEW r \in PipelineJob
  PROVE  /\ [r EXCEPT !.sched = "main", !.Start = TRUE].LastError = r.LastError
         /\ [r EXCEPT !.sched = "error"].LastError = r.LastError
         /\ [r EXCEPT !.sched = "error"].sched = "error"
         /\ [r EXCEPT !.startTimer = FALSE].LastError = r.LastError
         /\ [r EXCEPT !.startTimer = FALSE].sched = r.sched
  BY DEF PipelineJob

\* A step that changes no job and ends or starts no goroutine.
LEMMA UntouchedIfSame ==
  ASSUME NEW k \in Jobs, job'[k] = job[k], alive(k)' <=> alive(k)
  PROVE  untouched(k)
  BY DEF untouched, sameJob

\* A step that leaves all jobs and goroutines as they are.
LEMMA QuietEffect ==
  ASSUME UNCHANGED <<defs, job>>, \A k \in Jobs : alive(k)' <=> alive(k)
  PROVE  Effect
<1>1. Cancels({})
  BY UntouchedIfSame DEF Cancels
<1> QED
  BY <1>1 DEF Effect

\* cancelJobInternal.
LEMMA CancelEffect ==
  ASSUME RunnerInv, NEW S, cancelJobInternal(S), UNCHANGED <<defs, goroutine>>
  PROVE  Effect
<1> DEFINE M == {k \in openJobs(S) : ~job[k].Start}
<1>1. job \in [Jobs -> PipelineJob] /\ jobsByID \subseteq Jobs
  BY DEF RunnerInv, TypeOK
<1>2. M \in SUBSET Jobs /\ \A k \in M : waits(k)
  BY <1>1 DEF openJobs, RunnerInv, FlagsOK, waits
<1>3. job' = [k \in Jobs |-> IF k \in M THEN [job[k] EXCEPT !.Canceled = TRUE] ELSE job[k]]
  <2>1. \A k \in Jobs : (k \in openJobs(S) /\ ~job[k].Start) <=> k \in M
    OBVIOUS
  <2> HIDE DEF M
  <2> QED
    BY <2>1 DEF cancelJobInternal
<1> HIDE DEF M
<1>4. \A k \in Jobs : alive(k)' <=> alive(k)
  BY DEF alive
<1>5. ASSUME NEW k \in M PROVE marked(k)
  <2> DEFINE u == [job[k] EXCEPT !.Canceled = TRUE]
  <2>1. k \in Jobs /\ waits(k) /\ job[k] \in PipelineJob
    BY <1>1, <1>2
  <2>2. sameJob(u, job[k]) /\ u.Start = job[k].Start /\ u.Canceled
    BY <2>1, RecordFields
  <2>3. job'[k] = u
    BY <1>3, <2>1
  <2> HIDE DEF u
  <2> QED
    BY <1>4, <2>1, <2>2, <2>3 DEF marked, waits
<1>6. ASSUME NEW k \in Jobs, k \notin M PROVE untouched(k)
  BY <1>3, <1>4, <1>6, UntouchedIfSame
<1>7. Cancels(M)
  BY <1>5, <1>6 DEF Cancels
<1> QED
  BY <1>2, <1>7 DEF Effect

\* Shutdown marks every job that waits.
LEMMA ShutdownEffect ==
  ASSUME RunnerInv, ShutdownBegins
  PROVE  Effect /\ \A k \in Jobs : ~waits(k)'
<1> DEFINE M == {k \in waitingJobs : waits(k)}
<1>1. /\ mutexFree
      /\ job' = [k \in Jobs |-> IF k \in waitingJobs
                                THEN [job[k] EXCEPT !.Canceled = TRUE]
                                ELSE job[k]]
      /\ UNCHANGED <<defs, goroutine>>
  BY DEF ShutdownBegins, runVars
<1>2. job \in [Jobs -> PipelineJob] /\ waitListByPipeline \in [Pipelines -> Seq(Jobs)]
  BY DEF RunnerInv, TypeOK
<1>3. \A p \in Pipelines : queue(p) = waitListByPipeline[p]
  BY <1>1 DEF queue
<1>4. ASSUME NEW k \in waitingJobs PROVE k \in Jobs /\ created(job[k]) /\ ~job[k].Start
  <2>1. PICK p \in Pipelines : k \in ToSet(waitListByPipeline[p])
    BY DEF waitingJobs
  <2>2. PICK i \in DOMAIN waitListByPipeline[p] : k = waitListByPipeline[p][i]
    BY <2>1 DEF ToSet
  <2> QED
    BY <1>2, <1>3, <2>2 DEF RunnerInv, QueuesOK
<1>5. ASSUME NEW k \in Jobs, waits(k) PROVE k \in waitingJobs
  <2>1. PICK p \in Pipelines : p = job[k].Pipeline
    BY <1>2 DEF PipelineJob
  <2>2. PICK i \in DOMAIN queue(p) : queue(p)[i] = k
    BY <1>5, <2>1 DEF RunnerInv, QueuesComplete
  <2>3. k \in ToSet(waitListByPipeline[p])
    BY <1>3, <2>2 DEF ToSet
  <2> QED
    BY <2>3 DEF waitingJobs
<1>6. \A k \in Jobs : alive(k)' <=> alive(k)
  BY <1>1 DEF alive
<1>7. ASSUME NEW k \in waitingJobs
      PROVE  /\ sameJob(job'[k], job[k]) /\ job'[k].Start = job[k].Start
             /\ job'[k].Completed = job[k].Completed /\ job'[k].Canceled
             /\ job'[k].LastError = job[k].LastError /\ job'[k].sched = job[k].sched
  <2> DEFINE u == [job[k] EXCEPT !.Canceled = TRUE]
  <2>1. k \in Jobs /\ job[k] \in PipelineJob
    BY <1>2, <1>4
  <2>2. /\ sameJob(u, job[k]) /\ u.Start = job[k].Start /\ u.Completed = job[k].Completed
        /\ u.Canceled /\ u.LastError = job[k].LastError /\ u.sched = job[k].sched
    BY <2>1 DEF PipelineJob, sameJob
  <2>3. job'[k] = u
    BY <1>1, <2>1
  <2> HIDE DEF u
  <2> QED
    BY <2>2, <2>3
<1>8. ASSUME NEW k \in M PROVE marked(k)
  BY <1>4, <1>6, <1>7 DEF marked
<1>9. ASSUME NEW k \in Jobs, k \notin M PROVE untouched(k)
  <2>1. CASE k \in waitingJobs
    <3>1. job[k].Canceled
      BY <1>4, <1>9, <2>1 DEF waits
    <3>2. job[k].Canceled = job'[k].Canceled
      <4>1. job[k].Canceled \in BOOLEAN /\ job'[k].Canceled \in BOOLEAN
        <5>1. job[k] \in PipelineJob /\ [job[k] EXCEPT !.Canceled = TRUE].Canceled \in BOOLEAN
          BY <1>2 DEF PipelineJob
        <5> QED
          BY <1>1, <2>1, <5>1 DEF PipelineJob
      <4> QED
        BY <1>7, <2>1, <3>1, <4>1
    <3> QED
      BY <1>6, <1>7, <2>1, <3>2 DEF untouched
  <2>2. CASE k \notin waitingJobs
    BY <1>1, <1>6, <2>2, UntouchedIfSame
  <2> QED
    BY <2>1, <2>2
<1>10. Cancels(M) /\ M \in SUBSET Jobs
  BY <1>1, <1>4, <1>8, <1>9 DEF Cancels
<1>11. \A k \in Jobs : ~waits(k)'
  <2> TAKE k \in Jobs
  <2>1. CASE k \in waitingJobs
    BY <1>7, <2>1 DEF waits
  <2>2. CASE k \notin waitingJobs
    BY <1>1, <1>5, <2>2 DEF waits
  <2> QED
    BY <2>1, <2>2
<1> QED
  BY <1>10, <1>11 DEF Effect


\* startJobsOnWaitList starts the job it looks at.
LEMMA StartEffect ==
  ASSUME RunnerInv, WaitListStart
  PROVE  Effect
<1> DEFINE top == Head(calls)
<1>1. PICK P \in Pipelines, j \in Jobs :
        /\ ~mutexFree /\ top.pipeline = P /\ top.freeSlots \in Int /\ top.freeSlots > 0
        /\ waits(j) /\ job[j].Pipeline = P
        /\ \A k \in Jobs : k # j => job'[k] = job[k]
        /\ sameJob(job'[j], job[j]) /\ job'[j].Start
        /\ ~job'[j].Completed /\ ~job'[j].Canceled /\ job'[j].sched = "main"
        /\ \A k \in Jobs : alive(k)' <=> (alive(k) \/ k = j)
  BY StartMove
<1>2. UNCHANGED <<defs, shutdown>>
  BY DEF WaitListStart
<1>3. Cardinality(executing(P)) < concurrency(P)
  <2>1. Cardinality(executing(P)) + top.freeSlots = concurrency(P)
    BY <1>1 DEF RunnerInv, SlotsOK
  <2>2. Cardinality(executing(P)) \in Nat
    BY JobSetsFinite DEF executing
  <2> HIDE DEF top
  <2> QED
    BY <1>1, <2>1, <2>2
<1>4. \A k \in Jobs : k # j => untouched(k)
  BY <1>1, UntouchedIfSame
<1>5. Starts(j)
  <2>1. isRunning(job'[j]) /\ alive(j)'
    BY <1>1 DEF isRunning
  <2>2. \A p \in Pipelines : job[j].Pipeline = p => Cardinality(executing(p)) < concurrency(p)
    BY <1>1, <1>3
  <2> QED
    BY <1>1, <1>2, <1>4, <2>1, <2>2 DEF Starts
<1> QED
  BY <1>5 DEF Effect

\* JobCompleted.
LEMMA CompletedEffect ==
  ASSUME RunnerInv, NEW j \in Jobs, JobCompleted(j)
  PROVE  Effect
<1> DEFINE u == [job[j] EXCEPT !.sched = "nil", !.Completed = TRUE, !.LastError = result[j],
                               !.Canceled = @ \/ result[j] = "canceled"]
<1>1. goroutine[j] = "returning" /\ goroutine' = [goroutine EXCEPT ![j] = "done"] /\ UNCHANGED defs
  BY DEF JobCompleted
<1>2. job \in [Jobs -> PipelineJob] /\ goroutine \in [Jobs -> goroutineStates]
  BY DEF RunnerInv, TypeOK
<1>3. job' = [job EXCEPT ![j] = u]
  BY <1>2 DEF JobCompleted
<1>4. job'[j] = u /\ \A k \in Jobs : k # j => job'[k] = job[k]
  BY <1>2, <1>3
<1>5. sameJob(u, job[j]) /\ u.Start = job[j].Start /\ u.Completed
  BY <1>2 DEF PipelineJob, sameJob
<1> HIDE DEF u
<1>6. alive(j) /\ ~alive(j)' /\ \A k \in Jobs : k # j => (alive(k)' <=> alive(k))
  BY <1>1, <1>2 DEF alive
<1>7. job[j].Start
  BY <1>6 DEF RunnerInv, CountsWhatRuns, isRunning
<1>8. \A k \in Jobs : k # j => untouched(k)
  BY <1>4, <1>6, UntouchedIfSame
<1>9. Finishes(j)
  BY <1>1, <1>4, <1>5, <1>6, <1>7, <1>8 DEF Finishes
<1> QED
  BY <1>9 DEF Effect

\* The timer callback of a delayed job and initScheduler for the on_error graph
\* change nothing of a job that is reported.
LEMMA DelayedEffect ==
  ASSUME RunnerInv, NEW j \in Jobs, StartDelayedJob(j)
  PROVE  Effect
<1>1. UNCHANGED <<defs, goroutine>>
  BY DEF StartDelayedJob, runVars
<1>2. \A k \in Jobs : alive(k)' <=> alive(k)
  BY <1>1 DEF alive
<1>3. CASE UNCHANGED job
  BY <1>1, <1>2, <1>3, QuietEffect
<1>4. CASE job' = [job EXCEPT ![j].startTimer = FALSE]
  <2> DEFINE u == [job[j] EXCEPT !.startTimer = FALSE]
  <2>1. job \in [Jobs -> PipelineJob]
    BY DEF RunnerInv, TypeOK
  <2>2. /\ sameJob(u, job[j]) /\ u.Start = job[j].Start /\ u.Completed = job[j].Completed
        /\ u.Canceled = job[j].Canceled /\ u.LastError = job[j].LastError
        /\ u.sched = job[j].sched
    BY <2>1, RecordFields, RecordErrors
  <2>3. job'[j] = u /\ \A k \in Jobs : k # j => job'[k] = job[k]
    BY <1>4, <2>1
  <2> HIDE DEF u
  <2>4. untouched(j)
    BY <1>2, <2>2, <2>3 DEF untouched
  <2>5. \A k \in Jobs : k # j => untouched(k)
    BY <1>2, <2>3, UntouchedIfSame
  <2>6. Redefines
    BY <2>4, <2>5 DEF Redefines
  <2> QED
    BY <2>6 DEF Effect
<1> QED
  BY <1>3, <1>4 DEF StartDelayedJob

LEMMA InitErrorEffect ==
  ASSUME RunnerInv, NEW j \in Jobs, initErrorScheduler(j)
  PROVE  Effect
<1> DEFINE u == [job[j] EXCEPT !.sched = "error"]
<1>1. /\ goroutine[j] = "built"
      /\ job' = [job EXCEPT ![j].sched = "error"]
      /\ goroutine' = [goroutine EXCEPT ![j] = "handler"]
  BY DEF initErrorScheduler
<1>2. job \in [Jobs -> PipelineJob] /\ goroutine \in [Jobs -> goroutineStates]
  BY DEF RunnerInv, TypeOK
<1>3. \A k \in Jobs : alive(k)' <=> alive(k)
  BY <1>1, <1>2 DEF alive
<1>4. /\ sameJob(u, job[j]) /\ u.Start = job[j].Start /\ u.Completed = job[j].Completed
      /\ u.Canceled = job[j].Canceled /\ u.LastError = job[j].LastError
      /\ u.sched = "error"
  BY <1>2, RecordFields, RecordErrors
<1>5. job'[j] = u /\ \A k \in Jobs : k # j => job'[k] = job[k]
  BY <1>1, <1>2
<1> HIDE DEF u
<1>6. untouched(j)
  BY <1>3, <1>4, <1>5 DEF untouched
<1>7. \A k \in Jobs : k # j => untouched(k)
  BY <1>3, <1>5, UntouchedIfSame
<1>8. Redefines
  BY <1>6, <1>7 DEF Redefines
<1> QED
  BY <1>8 DEF Effect


\* ScheduleAsync that starts the job.
LEMMA LaunchEffect ==
  ASSUME RunnerInv, mutexFree, ~isShuttingDown,
         NEW p \in Pipelines, NEW j \in Jobs, ~created(job[j]),
         NEW n \in PipelineJob, n.Pipeline = p, n.buildable, created(n),
         ~n.Start, ~n.Completed, ~n.Canceled,
         startJob(j, [job EXCEPT ![j] = n], jobsByID \cup {j}, calls),
         freeSlots(p, [job EXCEPT ![j] = n], jobsByID \cup {j}) > 0,
         UNCHANGED <<defs, shutdown>>
  PROVE  Effect
<1> DEFINE js  == [job EXCEPT ![j] = n]
           ids == jobsByID \cup {j}
<1>1. j \notin jobsByID /\ ~alive(j)
  BY UnusedJob
<1>2. /\ job \in [Jobs -> PipelineJob] /\ goroutine \in [Jobs -> goroutineStates]
      /\ jobsByID \subseteq Jobs
  BY DEF RunnerInv, TypeOK
<1>3. js \in [Jobs -> PipelineJob] /\ js[j] = n /\ \A k \in Jobs : k # j => js[k] = job[k]
  BY <1>2
<1>4. startJob(j, js, ids, calls) /\ freeSlots(p, js, ids) > 0
  OBVIOUS
<1> HIDE DEF js, ids
<1>5. /\ \A k \in Jobs : k # j => job'[k] = job[k]
      /\ sameJob(job'[j], n) /\ job'[j].Start
      /\ ~job'[j].Completed /\ ~job'[j].Canceled /\ job'[j].sched = "main"
      /\ \A k \in Jobs : alive(k)' <=> (alive(k) \/ k = j)
  BY <1>2, <1>3, <1>4, Started
<1>6. Cardinality(executing(p)) < concurrency(p)
  <2>1. executing(p) = runningJobs(p, js, ids)
    <3>1. ASSUME NEW k \in Jobs
          PROVE  k \in executing(p) <=> k \in ids /\ js[k].Pipeline = p /\ isRunning(js[k])
      BY <1>1, <1>3 DEF executing, RunnerInv, CountsWhatRuns, isRunning, ids
    <3>2. ids \subseteq Jobs /\ executing(p) \subseteq Jobs
      BY <1>2 DEF ids, executing
    <3> QED
      BY <3>1, <3>2 DEF runningJobs
  <2>2. Cardinality(executing(p)) \in Nat
    BY JobSetsFinite DEF executing
  <2>3. concurrency(p) \in Int
    BY DEF RunnerInv, TypeOK, PipelinesDef, PipelineDef, concurrency
  <2> QED
    BY <1>4, <2>1, <2>2, <2>3 DEF freeSlots
<1>7. \A k \in Jobs : k # j => untouched(k)
  BY <1>5, UntouchedIfSame
<1>8. /\ created(job'[j]) /\ job'[j].Pipeline = p /\ isRunning(job'[j]) /\ alive(j)'
      /\ job'[j].sched # "nil"
  BY <1>5 DEF sameJob, created, isRunning
<1>9. Launches(j, p)
  BY <1>6, <1>7, <1>8 DEF Launches
<1> QED
  BY <1>9 DEF Effect

\* ScheduleAsync that queues the job.
LEMMA AcceptEffect ==
  ASSUME RunnerInv, mutexFree, ~isShuttingDown,
         NEW p \in Pipelines, NEW j \in Jobs, ~created(job[j]),
         NEW n \in PipelineJob, n.Pipeline = p, created(n),
         ~n.Start, ~n.Completed, ~n.Canceled,
         enqueue(p, j, [job EXCEPT ![j] = n]),
         UNCHANGED <<defs, shutdown>>
  PROVE  Effect
<1> DEFINE js          == [job EXCEPT ![j] = n]
           wl          == waitListByPipeline[p]
           partitionOf == [k \in Jobs |-> js[k].queuePartition]
           slot        == replacedSlot(defs[p], wl, partitionOf, j)
           replaced    == replacedJobs(defs[p], wl, partitionOf, j)
           S           == {k \in replaced : ~job[k].Canceled}
<1>1. /\ ~alive(j)
      /\ queue(p) = wl /\ \A i \in DOMAIN wl : wl[i] # j
  BY UnusedJob
<1>2. job \in [Jobs -> PipelineJob] /\ wl \in Seq(Jobs)
  BY DEF RunnerInv, TypeOK
<1>3. js[j] = n /\ \A k \in Jobs : k # j => js[k] = job[k]
  BY <1>2
<1>4. p \in DOMAIN defs /\ defs[p] \in PipelineDef /\ validate(defs[p]) /\ ~modifyPanics(defs[p])
  BY DEF RunnerInv, DefinitionsOK, TypeOK, PipelinesDef
<1>5. /\ job' = [k \in Jobs |-> IF k \in replaced
                                THEN [js[k] EXCEPT !.Canceled = TRUE, !.startTimer = FALSE]
                                ELSE js[k]]
      /\ UNCHANGED goroutine
  <2> DEFINE R0 == IF modifyPanics(defs[p]) THEN {} ELSE replaced
  <2>1. R0 = replaced
    BY <1>4
  <2>2. /\ job' = [k \in Jobs |-> IF k \in R0
                                  THEN [js[k] EXCEPT !.Canceled = TRUE, !.startTimer = FALSE]
                                  ELSE js[k]]
        /\ UNCHANGED goroutine
    BY DEF enqueue
  <2> HIDE DEF R0, replaced, js
  <2> QED
    BY <2>1, <2>2
<1>6. replaced = {} \/ \E m \in DOMAIN wl : replaced = {wl[m]}
  <2>1. slot \in 0 .. Len(wl)
    BY <1>2, <1>4, ReplacedSlotType
  <2>2. DOMAIN wl = 1 .. Len(wl) /\ Len(wl) \in Nat
    BY <1>2
  <2>3. replaced = IF slot = 0 THEN {} ELSE {wl[slot]}
    BY DEF replacedJobs
  <2> HIDE DEF slot, replaced, wl
  <2> QED
    BY <2>1, <2>2, <2>3
<1> HIDE DEF js, wl, partitionOf, slot, replaced
<1>7. \A k \in replaced : /\ k \in Jobs /\ k # j
                          /\ created(job[k]) /\ job[k].Pipeline = p /\ ~job[k].Start
  <2> SUFFICES ASSUME NEW m \in DOMAIN wl
               PROVE  /\ wl[m] \in Jobs /\ wl[m] # j
                      /\ created(job[wl[m]]) /\ job[wl[m]].Pipeline = p /\ ~job[wl[m]].Start
    BY <1>6
  <2> QED
    BY <1>1, <1>2 DEF RunnerInv, QueuesOK
<1>8. S \in SUBSET {k \in Jobs : job[k].Pipeline = p} /\ Cardinality(S) <= 1
  <2>1. S = {} \/ \E k : S = {k}
    BY <1>6
  <2> HIDE DEF S
  <2>2. Cardinality(S) <= 1
    <3>1. CASE S = {}
      BY <3>1, FS_EmptySet
    <3>2. ASSUME NEW k, S = {k} PROVE Cardinality(S) <= 1
      <4>1. Cardinality({k}) = 1
        BY FS_Singleton
      <4> QED
        BY <3>2, <4>1
    <3> QED
      BY <2>1, <3>1, <3>2
  <2> QED
    BY <1>7, <2>2 DEF S
<1>9. \A k \in Jobs : alive(k)' <=> alive(k)
  BY <1>5 DEF alive
<1>10. ASSUME NEW k \in replaced
       PROVE  /\ sameJob(job'[k], job[k]) /\ job'[k].Start = job[k].Start
              /\ job'[k].Completed = job[k].Completed /\ job'[k].Canceled = TRUE
              /\ job'[k].LastError = job[k].LastError /\ job'[k].sched = job[k].sched
  <2> DEFINE u == [job[k] EXCEPT !.Canceled = TRUE, !.startTimer = FALSE]
  <2>1. k \in Jobs /\ job[k] \in PipelineJob
    BY <1>2, <1>7
  <2>2. /\ sameJob(u, job[k]) /\ u.Start = job[k].Start /\ u.Completed = job[k].Completed
        /\ u.Canceled = TRUE /\ u.LastError = job[k].LastError /\ u.sched = job[k].sched
    BY <2>1 DEF PipelineJob, sameJob
  <2>3. job'[k] = u
    BY <1>3, <1>5, <1>7, <2>1
  <2> HIDE DEF u
  <2> QED
    BY <2>2, <2>3
<1>11. ASSUME NEW k \in S PROVE marked(k)
  <2>1. k \in replaced /\ k \in Jobs /\ waits(k) /\ ~job[k].Start
    BY <1>7 DEF waits
  <2> QED
    BY <1>9, <1>10, <2>1 DEF marked
<1>12. ASSUME NEW k \in Jobs, k # j, k \notin S PROVE untouched(k)
  <2>1. CASE k \in replaced
    <3>1. job[k].Canceled /\ job[k].Canceled \in BOOLEAN
      BY <1>2, <1>12, <2>1 DEF PipelineJob
    <3> QED
      BY <1>9, <1>10, <2>1, <3>1 DEF untouched
  <2>2. CASE k \notin replaced
    <3>1. job'[k] = job[k]
      BY <1>3, <1>5, <1>12, <2>2
    <3> QED
      BY <1>9, <3>1, UntouchedIfSame
  <2> QED
    BY <2>1, <2>2
<1>13. job'[j] = n
  BY <1>3, <1>5, <1>7
<1> HIDE DEF S
<1>14. Accepts(j, p)
  <2>1. waits(j)' /\ ~alive(j)' /\ job'[j].Pipeline = p /\ ~job'[j].Completed
    BY <1>1, <1>9, <1>13 DEF waits
  <2>2. \A k \in Jobs : k # j => IF k \in S THEN marked(k) ELSE untouched(k)
    BY <1>11, <1>12
  <2> QED
    BY <1>8, <2>1, <2>2 DEF Accepts
<1> QED
  BY <1>14 DEF Effect

LEMMA ScheduleEffect ==
  ASSUME WellBehaved, RunnerInv, NEW p \in Pipelines, NEW j \in Jobs,
         NEW q \in Partitions, NEW b \in Buildability, ScheduleAsync(p, j, q, b)
  PROVE  Effect
<1> DEFINE n   == newJob(p, q, b)
           js  == [job EXCEPT ![j] = n]
           ids == jobsByID \cup {j}
<1>1. /\ mutexFree /\ ~isShuttingDown /\ ~created(job[j]) /\ p \in DOMAIN defs
      /\ UNCHANGED <<defs, shutdown>>
  BY DEF ScheduleAsync
<1>2. b = TRUE
  BY DEF WellBehaved, AllBuildable
<1>3. TypeOK
  BY DEF RunnerInv
<1>4. n \in PipelineJob
  BY <1>1, <1>2, <1>3, NewJobType
<1>5. \/ startJob(j, js, ids, calls) /\ freeSlots(p, js, ids) > 0
      \/ enqueue(p, j, js)
  BY DEF ScheduleAsync
<1>8. /\ n.Pipeline = p /\ n.buildable /\ created(n)
      /\ ~n.Start /\ ~n.Completed /\ ~n.Canceled
  <2>1. /\ n.Pipeline = p /\ n.buildable = b /\ created(n)
        /\ ~n.Start /\ ~n.Completed /\ ~n.Canceled
    BY <1>3, NewJobFields
  <2> QED
    BY <1>2, <2>1
<1> HIDE DEF n
<1>6. CASE startJob(j, js, ids, calls) /\ freeSlots(p, js, ids) > 0
  BY <1>1, <1>4, <1>6, <1>8, LaunchEffect
<1>7. CASE enqueue(p, j, js)
  BY <1>1, <1>4, <1>7, <1>8, AcceptEffect
<1> QED
  BY <1>5, <1>6, <1>7

\* Whatever step the runner takes has one of the effects.
LEMMA StepHasEffect ==
  ASSUME WellBehaved, RunnerInv, [Next]_vars
  PROVE  Effect
<1>1. ASSUME UNCHANGED <<defs, job, goroutine>> PROVE Effect
  BY <1>1, QuietEffect DEF alive
<1>2. CASE UNCHANGED vars
  BY <1>1, <1>2 DEF vars, jobVars, runVars
<1>3. CASE WaitListLoop
  <2>1. CASE WaitListStart
    BY <2>1, StartEffect
  <2>2. CASE WaitListKeep \/ WaitListReturn
    BY <1>1, <2>2 DEF WaitListKeep, WaitListReturn, jobVars, runVars
  <2> QED
    BY <1>3, <2>1, <2>2 DEF WaitListLoop
<1>4. ASSUME NEW j \in Jobs, NEW p \in Pipelines, NEW q \in Partitions, NEW b \in Buildability,
             ScheduleAsync(p, j, q, b)
      PROVE  Effect
  BY <1>4, ScheduleEffect
<1>5. ASSUME NEW j \in Jobs, CancelJob(j) PROVE Effect
  BY <1>5, CancelEffect DEF CancelJob, runVars
<1>6. ASSUME NEW j \in Jobs, NEW s \in Schedulers, SchedulerCancel(j, s) PROVE Effect
  BY <1>1, <1>6 DEF SchedulerCancel, jobVars
<1>7. ASSUME NEW j \in Jobs, NEW errored \in BOOLEAN, HandleTaskChange(j, errored) PROVE Effect
  <2>1. PICK S : cancelJobInternal(S)
    BY <1>7 DEF HandleTaskChange
  <2>2. UNCHANGED <<defs, goroutine>>
    BY <1>7 DEF HandleTaskChange, runVars
  <2> QED
    BY <2>1, <2>2, CancelEffect
<1>8. ASSUME NEW j \in Jobs, JobGoroutine(j) PROVE Effect
  <2>0. goroutine \in [Jobs -> goroutineStates]
    BY DEF RunnerInv, TypeOK
  <2>1. ASSUME NEW err \in {"nil", "failed", "canceled"}, ScheduleReturns(j, err) PROVE Effect
    <3>1. UNCHANGED <<defs, job>> /\ \A k \in Jobs : alive(k)' <=> alive(k)
      BY <2>0, <2>1 DEF ScheduleReturns, jobVars, alive
    <3> QED
      BY <3>1, QuietEffect
  <2>2. CASE buildErrorGraph(j)
    <3>1. UNCHANGED <<defs, job>> /\ \A k \in Jobs : alive(k)' <=> alive(k)
      BY <2>0, <2>2 DEF buildErrorGraph, jobVars, alive
    <3> QED
      BY <3>1, QuietEffect
  <2>3. CASE ErrorGraphReturns(j)
    <3>1. UNCHANGED <<defs, job>> /\ \A k \in Jobs : alive(k)' <=> alive(k)
      BY <2>0, <2>3 DEF ErrorGraphReturns, jobVars, alive
    <3> QED
      BY <3>1, QuietEffect
  <2> QED
    BY <1>8, <2>1, <2>2, <2>3, InitErrorEffect, CompletedEffect DEF JobGoroutine
<1>9. ASSUME NEW j \in Jobs, StartTimer(j) PROVE Effect
  <2>1. CASE TimerFires(j)
    BY <1>1, <2>1 DEF TimerFires, jobVars, runVars
  <2> QED
    BY <1>9, <2>1, DelayedEffect DEF StartTimer
<1>10. ASSUME NEW D \in ReloadDefs, ReplaceDefinitions(D) PROVE Effect
  <2>1. Redefines
    BY <1>10, UntouchedIfSame DEF Redefines, ReplaceDefinitions, jobVars, runVars, alive
  <2> QED
    BY <2>1 DEF Effect
<1>11. CASE PersistLoop
  BY <1>1, <1>11
     DEF PersistLoop, PersistRequested, SaveToStore, PersistLoopStops, jobVars, runVars
<1>12. CASE Signal
  BY <1>1, <1>12 DEF Signal, jobVars, runVars
<1>13. CASE Shutdown
  <2>1. CASE ShutdownBegins
    BY <2>1, ShutdownEffect
  <2>2. CASE ShutdownPolls \/ ShutdownWakes \/ ShutdownEnds
    BY <1>1, <2>2 DEF ShutdownPolls, ShutdownWakes, ShutdownEnds, jobVars, runVars
  <2> QED
    BY <1>13, <2>1, <2>2 DEF Shutdown
<1>14. CASE ShutdownForced
  BY <1>14, CancelEffect DEF ShutdownForced, runVars
<1>15. CASE Terminated
  BY <1>2, <1>15 DEF Terminated
<1> QED
  BY <1>2, <1>3, <1>4, <1>5, <1>6, <1>7, <1>8, <1>9, <1>10, <1>11, <1>12, <1>13, <1>14, <1>15
     DEF Next

-----------------------------------------------------------------------------
(***************************************************************************)
(* What RunnerInv leaves open: a job that was started is executing or has  *)
(* completed, a job identity that is not in use is not settled, and a      *)
(* shutdown that has begun, or ended, stays so.                            *)
(***************************************************************************)
StartedOK ==
  \A j \in Jobs :
    /\ job[j].Start => alive(j) \/ job[j].Completed
    /\ ~created(job[j]) => ~job[j].Start /\ ~job[j].Canceled

NoneWaits   == isShuttingDown => \A j \in Jobs : ~waits(j)
NoneIsAlive == shutdown = "done" => \A j \in Jobs : ~alive(j) /\ cancelGo[j] = {}

LifeInv == RunnerInv /\ StartedOK /\ NoneWaits /\ NoneIsAlive

\* Where a job is in its life, from its flags and its goroutine.
LEMMA Phases ==
  ASSUME RunnerInv, StartedOK, NEW j \in Jobs
  PROVE  /\ alive(j) => created(job[j]) /\ isRunning(job[j]) /\ ~settled(job[j])
         /\ waits(j) => ~alive(j) /\ ~settled(job[j])
         /\ settled(job[j]) => created(job[j]) /\ ~alive(j)
         /\ created(job[j]) => alive(j) \/ waits(j) \/ settled(job[j])
<1>1. alive(j) => j \in jobsByID /\ isRunning(job[j]) /\ created(job[j])
  BY DEF RunnerInv, CountsWhatRuns, FlagsOK
<1>2. job[j].Completed => job[j].Start
  BY DEF RunnerInv, FlagsOK
<1> QED
  BY <1>1, <1>2 DEF StartedOK, isRunning, settled, waits

\* A job that is not touched stays where it is.
LEMMA UntouchedPhase ==
  ASSUME NEW k \in Jobs, untouched(k)
  PROVE  /\ created(job'[k]) <=> created(job[k])
         /\ settled(job'[k]) <=> settled(job[k])
         /\ waits(k)' <=> waits(k)
         /\ job'[k].Pipeline = job[k].Pipeline
  BY DEF untouched, sameJob, created, settled, waits

\* A started job is executing or has completed.
LEMMA StartedKept ==
  ASSUME RunnerInv, StartedOK, Effect
  PROVE  StartedOK'
<1> SUFFICES ASSUME NEW k \in Jobs
             PROVE  /\ job'[k].Start => alive(k)' \/ job'[k].Completed
                    /\ ~created(job'[k]) => ~job'[k].Start /\ ~job'[k].Canceled
  BY DEF StartedOK
<1>1. CASE untouched(k)
  BY <1>1 DEF untouched, sameJob, created, StartedOK
<1>2. CASE marked(k)
  BY <1>2 DEF marked, sameJob, created, waits
<1>3. CASE Starts(k)
  BY <1>3 DEF Starts, sameJob, created, waits
<1>4. CASE Finishes(k)
  <2>1. created(job[k])
    BY <1>4, Phases DEF Finishes
  <2> QED
    BY <1>4, <2>1 DEF Finishes, sameJob, created
<1>5. ASSUME NEW p \in Pipelines, Launches(k, p)
      PROVE  /\ job'[k].Start => alive(k)' \/ job'[k].Completed
             /\ ~created(job'[k]) => ~job'[k].Start /\ ~job'[k].Canceled
  BY <1>5 DEF Launches
<1>6. ASSUME NEW p \in Pipelines, Accepts(k, p)
      PROVE  /\ job'[k].Start => alive(k)' \/ job'[k].Completed
             /\ ~created(job'[k]) => ~job'[k].Start /\ ~job'[k].Canceled
  BY <1>6 DEF Accepts, waits
<1>7. \/ untouched(k) \/ marked(k) \/ Starts(k) \/ Finishes(k)
      \/ \E p \in Pipelines : Launches(k, p) \/ Accepts(k, p)
  BY DEF Effect, Cancels, Starts, Finishes, Launches, Accepts, Redefines
<1> QED
  BY <1>1, <1>2, <1>3, <1>4, <1>5, <1>6, <1>7

\* Shutdown is begun by ShutdownBegins and ended by ShutdownEnds only.
LEMMA ShutdownProgress ==
  ASSUME [Next]_vars
  PROVE  /\ isShuttingDown' => isShuttingDown \/ ShutdownBegins
         /\ shutdown' = "done" => ShutdownEnds \/ shutdown = "done"
<1>1. \/ UNCHANGED shutdown
      \/ Signal \/ ShutdownBegins \/ ShutdownPolls \/ ShutdownWakes \/ ShutdownEnds
      \/ ShutdownForced
  <2>1. CASE UNCHANGED vars
    BY <2>1 DEF vars
  <2>2. CASE WaitListLoop
    BY <2>2 DEF WaitListLoop, WaitListStart, WaitListKeep, WaitListReturn
  <2>3. ASSUME NEW j \in Jobs, NEW p \in Pipelines, NEW q \in Partitions, NEW b \in Buildability,
               ScheduleAsync(p, j, q, b)
        PROVE  UNCHANGED shutdown
    BY <2>3 DEF ScheduleAsync
  <2>4. ASSUME NEW j \in Jobs,
               \/ CancelJob(j)
               \/ \E s \in Schedulers : SchedulerCancel(j, s)
               \/ \E errored \in BOOLEAN : HandleTaskChange(j, errored)
        PROVE  UNCHANGED shutdown
    BY <2>4 DEF CancelJob, SchedulerCancel, HandleTaskChange
  <2>5. ASSUME NEW j \in Jobs, JobGoroutine(j) \/ StartTimer(j)
        PROVE  UNCHANGED shutdown
    BY <2>5 DEF JobGoroutine, ScheduleReturns, buildErrorGraph, initErrorScheduler,
                ErrorGraphReturns, JobCompleted, StartTimer, TimerFires, StartDelayedJob
  <2>6. ASSUME NEW D \in ReloadDefs, ReplaceDefinitions(D)
        PROVE  UNCHANGED shutdown
    BY <2>6 DEF ReplaceDefinitions
  <2>7. CASE PersistLoop \/ Terminated
    BY <2>7 DEF PersistLoop, PersistRequested, SaveToStore, PersistLoopStops, Terminated, vars
  <2> QED
    BY <2>1, <2>2, <2>3, <2>4, <2>5, <2>6, <2>7 DEF Next, Shutdown
<1> QED
  BY <1>1 DEF Signal, ShutdownBegins, ShutdownPolls, ShutdownWakes, ShutdownEnds, ShutdownForced,
              isShuttingDown

\* Once Shutdown has marked the waiting jobs none waits.
LEMMA NoneWaitsKept ==
  ASSUME WellBehaved, RunnerInv, NoneWaits, [Next]_vars
  PROVE  NoneWaits'
<1> SUFFICES ASSUME isShuttingDown', NEW k \in Jobs PROVE ~waits(k)'
  BY DEF NoneWaits
<1>1. CASE ShutdownBegins
  BY <1>1, ShutdownEffect
<1>2. CASE isShuttingDown
  <2>1. ~waits(k)
    BY <1>2 DEF NoneWaits
  <2>2. \A j \in Jobs, p \in Pipelines : ~Launches(j, p) /\ ~Accepts(j, p)
    BY <1>2 DEF Launches, Accepts
  <2>3. untouched(k) \/ marked(k) \/ Starts(k) \/ Finishes(k)
    BY <2>2, StepHasEffect DEF Effect, Cancels, Starts, Finishes, Redefines
  <2>4. untouched(k) \/ Finishes(k)
    BY <2>1, <2>3 DEF marked, Starts
  <2> QED
    BY <2>1, <2>4, UntouchedPhase DEF Finishes, waits
<1> QED
  BY <1>1, <1>2, ShutdownProgress

\* cancelJobInternal starts a goroutine for executing jobs only.
LEMMA CancelsTheLiving ==
  ASSUME RunnerInv, NEW S, cancelJobInternal(S), \A k \in Jobs : ~alive(k)
  PROVE  \A k \in Jobs : cancelGo'[k] = cancelGo[k]
<1> TAKE k \in Jobs
<1>1. ~(k \in openJobs(S) /\ job[k].Start)
  BY DEF openJobs, RunnerInv, CountsWhatRuns, isRunning
<1> QED
  BY <1>1 DEF cancelJobInternal

\* When Shutdown has returned no goroutine is started any more.
LEMMA NoneIsAliveKept ==
  ASSUME WellBehaved, RunnerInv, NoneWaits, NoneIsAlive, [Next]_vars
  PROVE  NoneIsAlive'
<1> SUFFICES ASSUME shutdown' = "done" PROVE \A k \in Jobs : ~alive(k)' /\ cancelGo'[k] = {}
  BY DEF NoneIsAlive
<1>1. CASE ShutdownEnds
  BY <1>1 DEF ShutdownEnds, runVars, alive
<1>2. CASE shutdown = "done"
  <2>1. /\ \A k \in Jobs : ~alive(k) /\ cancelGo[k] = {}
        /\ \A k \in Jobs : ~waits(k)
        /\ isShuttingDown
    BY <1>2 DEF NoneIsAlive, NoneWaits, isShuttingDown
  <2>2. \A k \in Jobs : ~alive(k)'
    <3> TAKE k \in Jobs
    <3>1. \A j \in Jobs, p \in Pipelines : ~Launches(j, p) /\ ~Accepts(j, p)
      BY <2>1 DEF Launches, Accepts
    <3>2. untouched(k) \/ marked(k) \/ Starts(k) \/ Finishes(k)
      BY <3>1, StepHasEffect DEF Effect, Cancels, Starts, Finishes, Redefines
    <3> QED
      BY <2>1, <3>2 DEF untouched, marked, Starts, Finishes
  <2>3. cancelGo' = cancelGo \/ \A k \in Jobs : cancelGo'[k] = cancelGo[k]
    <3>1. CASE UNCHANGED vars
      BY <3>1 DEF vars
    <3>2. CASE WaitListLoop
      BY <3>2 DEF WaitListLoop, WaitListStart, WaitListKeep, WaitListReturn
    <3>3. ASSUME NEW j \in Jobs, NEW p \in Pipelines, NEW q \in Partitions, NEW b \in Buildability,
                 ScheduleAsync(p, j, q, b)
          PROVE  UNCHANGED cancelGo
      BY <3>3 DEF ScheduleAsync
    <3>4. ASSUME NEW j \in Jobs, CancelJob(j) \/ \E errored \in BOOLEAN : HandleTaskChange(j, errored)
          PROVE  \A k \in Jobs : cancelGo'[k] = cancelGo[k]
      <4>1. PICK S : cancelJobInternal(S)
        BY <3>4 DEF CancelJob, HandleTaskChange
      <4> QED
        BY <2>1, <4>1, CancelsTheLiving
    <3>5. ASSUME NEW j \in Jobs, NEW s \in Schedulers, SchedulerCancel(j, s)
          PROVE  FALSE
      BY <2>1, <3>5 DEF SchedulerCancel
    <3>6. ASSUME NEW j \in Jobs, JobGoroutine(j) \/ StartTimer(j)
          PROVE  UNCHANGED cancelGo
      BY <3>6 DEF JobGoroutine, ScheduleReturns, buildErrorGraph, initErrorScheduler,
                  ErrorGraphReturns, JobCompleted, StartTimer, TimerFires, StartDelayedJob
    <3>7. ASSUME NEW D \in ReloadDefs, ReplaceDefinitions(D)
          PROVE  UNCHANGED cancelGo
      BY <3>7 DEF ReplaceDefinitions
    <3>8. CASE PersistLoop \/ Terminated \/ Signal \/ Shutdown
      BY <3>8 DEF PersistLoop, PersistRequested, SaveToStore, PersistLoopStops, Terminated, vars,
                  Signal, Shutdown, ShutdownBegins, ShutdownPolls, ShutdownWakes, ShutdownEnds
    <3>9. CASE ShutdownForced
      BY <1>2, <3>9 DEF ShutdownForced
    <3> QED
      BY <3>1, <3>2, <3>3, <3>4, <3>5, <3>6, <3>7, <3>8, <3>9 DEF Next
  <2> QED
    BY <2>1, <2>2, <2>3
<1> QED
  BY <1>1, <1>2, ShutdownProgress

\* The initial states and the steps of the runner keep LifeInv.
LEMMA InitLife ==
  ASSUME WellBehaved, Init
  PROVE  LifeInv
<1>1. RunnerInv
  BY InitInv
<1>2. \A j \in Jobs : job[j] = noJob /\ goroutine[j] = "none"
  BY DEF Init
<1>3. StartedOK
  <2>1. ~noJob.Start /\ ~noJob.Canceled
    BY DEF noJob
  <2> QED
    BY <1>2, <2>1 DEF StartedOK
<1>4. NoneWaits /\ NoneIsAlive
  BY DEF Init, NoneWaits, NoneIsAlive, isShuttingDown
<1> QED
  BY <1>1, <1>3, <1>4 DEF LifeInv

LEMMA NextLife ==
  ASSUME WellBehaved, LifeInv, [Next]_vars
  PROVE  LifeInv'
<1>1. RunnerInv'
  BY NextInv DEF LifeInv
<1>2. StartedOK'
  BY StepHasEffect, StartedKept DEF LifeInv
<1>3. NoneWaits'
  BY NoneWaitsKept DEF LifeInv
<1>4. NoneIsAlive'
  BY NoneIsAliveKept DEF LifeInv
<1> QED
  BY <1>1, <1>2, <1>3, <1>4 DEF LifeInv

(***************************************************************************)
(* LifeInv holds in every state.                                           *)
(***************************************************************************)
THEOREM LifeInvariant == WellBehaved => (Spec => []LifeInv)
<1> SUFFICES ASSUME WellBehaved PROVE Spec => []LifeInv
  OBVIOUS
<1>1. Init => LifeInv
  BY InitLife
<1>2. LifeInv /\ [Next]_vars => LifeInv'
  BY NextLife
<1> QED
  BY <1>1, <1>2, PTL DEF Spec

(***************************************************************************)
(* From the moment Shutdown has marked the waiting jobs no job waits or is *)
(* started, and when it has returned no goroutine of a job or of a         *)
(* cancellation is left, and every job ever accepted is settled.           *)
(***************************************************************************)
THEOREM ShutdownCompletes == WellBehaved => (Spec => []ShutdownIsComplete)
<1>1. LifeInv => ShutdownIsComplete
  <2> SUFFICES ASSUME LifeInv PROVE ShutdownIsComplete
    OBVIOUS
  <2>1. ASSUME shutdown = "done", NEW j \in Jobs, created(job[j]) PROVE settled(job[j])
    <3>1. ~alive(j) /\ ~waits(j)
      BY <2>1 DEF LifeInv, NoneWaits, NoneIsAlive, isShuttingDown
    <3> QED
      BY <2>1, <3>1, Phases DEF LifeInv
  <2> QED
    BY <2>1 DEF ShutdownIsComplete, LifeInv, NoneWaits, NoneIsAlive
<1> QED
  BY <1>1, LifeInvariant, PTL

\* The step SettledIsFinal asks for.
Final ==
  \A j \in Jobs : settled(job[j]) =>
    /\ job'[j].Start     = job[j].Start
    /\ job'[j].Completed = job[j].Completed
    /\ job'[j].Canceled  = job[j].Canceled
    /\ job'[j].LastError = job[j].LastError

(***************************************************************************)
(* No handler, goroutine, timer or shutdown changes the flags or the error *)
(* of a job that is settled.                                               *)
(***************************************************************************)
THEOREM SettledStays == WellBehaved => (Spec => SettledIsFinal)
<1> SUFFICES ASSUME WellBehaved PROVE Spec => SettledIsFinal
  OBVIOUS
<1>1. LifeInv /\ [Next]_vars => Final
  <2> SUFFICES ASSUME LifeInv, [Next]_vars, NEW j \in Jobs, settled(job[j])
               PROVE  untouched(j)
    BY DEF Final, untouched
  <2>1. created(job[j]) /\ ~alive(j) /\ ~waits(j)
    BY Phases DEF LifeInv
  <2> QED
    BY <2>1, StepHasEffect
       DEF LifeInv, Effect, Cancels, Starts, Finishes, Launches, Accepts, Redefines, marked
<1>2. Spec => []LifeInv
  BY LifeInvariant
<1>3. Final => [Final]_vars
  OBVIOUS
<1> QED
  BY <1>1, <1>2, PTL DEF Spec, SettledIsFinal, Final

-----------------------------------------------------------------------------
(***************************************************************************)
(* The runner implements JobLifecycle: each effect is a step of a life.    *)
(***************************************************************************)
absPhase    == [j \in Jobs |-> phaseOf(j)]
absOf       == [j \in Jobs |-> job[j].Pipeline]
absCapacity == [p \in Pipelines |-> concurrency(p)]

\* What phaseOf says of a job.
LEMMA PhaseOf ==
  ASSUME RunnerInv, StartedOK, NEW j \in Jobs
  PROVE  /\ phaseOf(j) = "absent"  <=> ~created(job[j])
         /\ phaseOf(j) = "running" <=> alive(j)
         /\ phaseOf(j) = "settled" <=> settled(job[j])
         /\ phaseOf(j) = "waiting" <=> waits(j)
<1>1. /\ alive(j) => created(job[j]) /\ ~settled(job[j])
      /\ waits(j) => ~alive(j) /\ ~settled(job[j])
      /\ settled(job[j]) => created(job[j]) /\ ~alive(j)
      /\ created(job[j]) => alive(j) \/ waits(j) \/ settled(job[j])
      /\ waits(j) => created(job[j])
  BY Phases DEF waits
<1>2. CASE ~created(job[j])
  BY <1>1, <1>2 DEF phaseOf
<1>3. CASE alive(j)
  BY <1>1, <1>3 DEF phaseOf
<1>4. CASE settled(job[j])
  BY <1>1, <1>4 DEF phaseOf
<1>5. CASE waits(j)
  BY <1>1, <1>5 DEF phaseOf
<1> QED
  BY <1>1, <1>2, <1>3, <1>4, <1>5

\* A job that is not touched keeps its phase; a marked job is settled.
LEMMA PhaseKept ==
  ASSUME NEW k \in Jobs
  PROVE  /\ untouched(k) => phaseOf(k)' = phaseOf(k) /\ job'[k].Pipeline = job[k].Pipeline
         /\ RunnerInv /\ StartedOK /\ marked(k) =>
              /\ phaseOf(k) = "waiting" /\ phaseOf(k)' = "settled"
              /\ job'[k].Pipeline = job[k].Pipeline
<1>1. ASSUME untouched(k) PROVE phaseOf(k)' = phaseOf(k) /\ job'[k].Pipeline = job[k].Pipeline
  BY <1>1, UntouchedPhase DEF phaseOf, untouched
<1>2. ASSUME RunnerInv, StartedOK, marked(k)
      PROVE  /\ phaseOf(k) = "waiting" /\ phaseOf(k)' = "settled"
             /\ job'[k].Pipeline = job[k].Pipeline
  <2>1. waits(k) /\ ~alive(k) /\ phaseOf(k) = "waiting"
    BY <1>2, PhaseOf, Phases DEF marked
  <2>2. created(job'[k]) /\ ~alive(k)' /\ settled(job'[k]) /\ job'[k].Pipeline = job[k].Pipeline
    BY <1>2, <2>1 DEF marked, sameJob, created, waits, settled
  <2> QED
    BY <2>1, <2>2 DEF phaseOf
<1> QED
  BY <1>1, <1>2

\* The running jobs of a pipeline are those whose goroutine is alive.
LEMMA RunningPhase ==
  ASSUME RunnerInv, StartedOK, NEW p \in Pipelines
  PROVE  Lifecycle!inPhase(p, "running") = executing(p)
<1>1. \A j \in Jobs : absPhase[j] = phaseOf(j) /\ absOf[j] = job[j].Pipeline
  BY DEF absPhase, absOf
<1> QED
  BY <1>1, PhaseOf DEF Lifecycle!inPhase, executing, absPhase, absOf

\* JobLifecycle counts with the same Cardinality.
LEMMA SameCardinality == \A S : Lifecycle!Cardinality(S) = Cardinality(S)
  BY DEF Lifecycle!Cardinality, Cardinality

\* A pipeline with room in the runner has capacity in the life of its jobs.
LEMMA CapacityLeft ==
  ASSUME RunnerInv, StartedOK, NEW p \in Pipelines, Cardinality(executing(p)) < concurrency(p)
  PROVE  Lifecycle!hasCapacity(p)
<1>1. Lifecycle!inPhase(p, "running") = executing(p)
  BY RunningPhase
<1> QED
  BY <1>1, SameCardinality DEF Lifecycle!hasCapacity

\* The initial state.
LEMMA InitLifecycle ==
  ASSUME WellBehaved, Init
  PROVE  Lifecycle!Init
<1>1. RunnerInv /\ StartedOK
  BY InitLife DEF LifeInv
<1>2. ASSUME NEW j \in Jobs PROVE phaseOf(j) = "absent" /\ job[j].Pipeline \in Pipelines
  <2>1. job[j] = noJob
    BY DEF Init
  <2>2. ~created(noJob)
    BY DEF noJob, created
  <2>3. job[j].Pipeline \in Pipelines
    BY <1>1 DEF RunnerInv, TypeOK, PipelineJob
  <2> QED
    BY <2>1, <2>2, <2>3 DEF phaseOf
<1>3. \A p \in Pipelines : concurrency(p) \in Int
  BY <1>1 DEF RunnerInv, TypeOK, PipelinesDef, PipelineDef, concurrency
<1> QED
  BY <1>2, <1>3 DEF Lifecycle!Init

\* Each effect is a step of JobLifecycle.
LEMMA CancelsIsCancel ==
  ASSUME RunnerInv, StartedOK, NEW S \in SUBSET Jobs, Cancels(S)
  PROVE  Lifecycle!Cancel
<1>1. \A k \in Jobs : phaseOf(k)' = IF k \in S THEN "settled" ELSE phaseOf(k)
  BY PhaseKept DEF Cancels
<1>2. \A k \in Jobs : k \in S => phaseOf(k) = "waiting"
  BY PhaseKept DEF Cancels
<1>3. \A k \in Jobs : job'[k].Pipeline = job[k].Pipeline
  BY PhaseKept DEF Cancels
<1>4. S \in SUBSET {j \in Jobs : absPhase[j] = "waiting"}
  BY <1>2 DEF absPhase
<1>5. absPhase' = [j \in Jobs |-> IF j \in S THEN "settled" ELSE absPhase[j]]
  BY <1>1 DEF absPhase
<1>6. UNCHANGED <<absOf, absCapacity>>
  BY <1>3 DEF absOf, absCapacity, Cancels, concurrency
<1> QED
  BY <1>4, <1>5, <1>6 DEF Lifecycle!Cancel, absPhase, absOf, absCapacity

\* Only the phase of job j changes.
LEMMA OnePhase ==
  ASSUME NEW j \in Jobs, \A k \in Jobs : k # j => untouched(k), UNCHANGED defs
  PROVE  /\ absPhase' = [absPhase EXCEPT ![j] = phaseOf(j)']
         /\ absOf' = [absOf EXCEPT ![j] = job'[j].Pipeline]
         /\ UNCHANGED absCapacity
<1>1. \A k \in Jobs : k # j => phaseOf(k)' = phaseOf(k)
  BY PhaseKept
<1>2. \A k \in Jobs : k # j => job'[k].Pipeline = job[k].Pipeline
  BY PhaseKept
<1>3. absPhase' = [absPhase EXCEPT ![j] = phaseOf(j)']
  BY <1>1 DEF absPhase
<1>4. absOf' = [absOf EXCEPT ![j] = job'[j].Pipeline]
  BY <1>2 DEF absOf
<1>5. UNCHANGED absCapacity
  BY DEF absCapacity, concurrency
<1> QED
  BY <1>3, <1>4, <1>5

LEMMA StartsIsStart ==
  ASSUME LifeInv, NEW j \in Jobs, Starts(j)
  PROVE  Lifecycle!Start(j)
<1>1. PICK p \in Pipelines : p = job[j].Pipeline
  BY DEF LifeInv, RunnerInv, TypeOK, PipelineJob
<1>2. Lifecycle!hasCapacity(p)
  BY <1>1, CapacityLeft DEF LifeInv, Starts
<1>3. phaseOf(j) = "waiting"
  BY PhaseOf DEF LifeInv, Starts
<1>4. phaseOf(j)' = "running"
  BY DEF Starts, sameJob, waits, created, phaseOf
<1>5. absPhase' = [absPhase EXCEPT ![j] = "running"] /\ UNCHANGED <<absOf, absCapacity>>
  <2>1. /\ absPhase' = [absPhase EXCEPT ![j] = phaseOf(j)']
        /\ absOf' = [absOf EXCEPT ![j] = job'[j].Pipeline]
        /\ UNCHANGED absCapacity
    BY OnePhase DEF Starts
  <2>2. job'[j].Pipeline = absOf[j]
    BY DEF Starts, sameJob, absOf
  <2> QED
    BY <1>4, <2>1, <2>2 DEF absOf
<1>6. absPhase[j] = "waiting" /\ absOf[j] = p
  BY <1>1, <1>3 DEF absPhase, absOf
<1> QED
  BY <1>2, <1>5, <1>6 DEF Lifecycle!Start, absPhase, absOf, absCapacity

LEMMA FinishesIsFinish ==
  ASSUME LifeInv, NEW j \in Jobs, Finishes(j)
  PROVE  Lifecycle!Finish(j)
<1>1. phaseOf(j) = "running"
  BY PhaseOf DEF LifeInv, Finishes
<1>2. phaseOf(j)' = "settled"
  <2>1. settled(job'[j])
    BY DEF Finishes, settled
  <2>2. created(job'[j])
    BY Phases DEF LifeInv, Finishes, sameJob, created
  <2> QED
    BY <2>1, <2>2 DEF Finishes, phaseOf
<1>3. absPhase' = [absPhase EXCEPT ![j] = "settled"] /\ UNCHANGED <<absOf, absCapacity>>
  <2>1. /\ absPhase' = [absPhase EXCEPT ![j] = phaseOf(j)']
        /\ absOf' = [absOf EXCEPT ![j] = job'[j].Pipeline]
        /\ UNCHANGED absCapacity
    BY OnePhase DEF Finishes
  <2>2. job'[j].Pipeline = absOf[j]
    BY DEF Finishes, sameJob, absOf
  <2> QED
    BY <1>2, <2>1, <2>2 DEF absOf
<1>4. absPhase[j] = "running"
  BY <1>1 DEF absPhase
<1> QED
  BY <1>3, <1>4 DEF Lifecycle!Finish, absPhase, absOf, absCapacity

LEMMA LaunchesIsLaunch ==
  ASSUME LifeInv, NEW j \in Jobs, NEW p \in Pipelines, Launches(j, p)
  PROVE  Lifecycle!Launch(j, p)
<1>1. phaseOf(j) = "absent"
  BY DEF phaseOf, Launches
<1>2. phaseOf(j)' = "running"
  BY DEF Launches, phaseOf
<1>3. Lifecycle!hasCapacity(p)
  BY CapacityLeft DEF LifeInv, Launches
<1>4. /\ absPhase' = [absPhase EXCEPT ![j] = "running"]
      /\ absOf' = [absOf EXCEPT ![j] = p]
      /\ UNCHANGED absCapacity
  <2>1. /\ absPhase' = [absPhase EXCEPT ![j] = phaseOf(j)']
        /\ absOf' = [absOf EXCEPT ![j] = job'[j].Pipeline]
        /\ UNCHANGED absCapacity
    BY OnePhase DEF Launches
  <2> QED
    BY <1>2, <2>1 DEF Launches
<1>5. absPhase[j] = "absent"
  BY <1>1 DEF absPhase
<1> QED
  BY <1>3, <1>4, <1>5 DEF Lifecycle!Launch, absPhase, absOf, absCapacity

LEMMA AcceptsIsAccept ==
  ASSUME LifeInv, NEW j \in Jobs, NEW p \in Pipelines, Accepts(j, p)
  PROVE  Lifecycle!Accept(j, p)
<1>1. PICK S \in SUBSET {k \in Jobs : job[k].Pipeline = p} :
        /\ Cardinality(S) <= 1
        /\ \A k \in Jobs : k # j => IF k \in S THEN marked(k) ELSE untouched(k)
  BY DEF Accepts
<1> DEFINE R == S \ {j}
<1>2. phaseOf(j) = "absent"
  BY DEF phaseOf, Accepts
<1>3. phaseOf(j)' = "waiting"
  BY DEF Accepts, waits, settled, phaseOf
<1>4. \A k \in Jobs : k # j => phaseOf(k)' = IF k \in R THEN "settled" ELSE phaseOf(k)
  BY <1>1, PhaseKept DEF LifeInv
<1>5. \A k \in R : k \in Jobs /\ phaseOf(k) = "waiting" /\ job[k].Pipeline = p
  BY <1>1, PhaseKept DEF LifeInv
<1>6. \A k \in Jobs : k # j => job'[k].Pipeline = job[k].Pipeline
  BY <1>1, PhaseKept DEF LifeInv
<1>7. Lifecycle!Cardinality(R) <= 1
  <2>1. IsFiniteSet(S) /\ Cardinality(S) \in Nat
    <3>1. S \in SUBSET Jobs
      OBVIOUS
    <3> QED
      BY <3>1, JobSetsFinite
  <2>2. Cardinality(R) <= Cardinality(S) /\ Cardinality(R) \in Nat
    BY <2>1, FS_Subset, FS_CardinalityType
  <2> QED
    BY <1>1, <2>1, <2>2, SameCardinality
<1> HIDE DEF R
<1>8. R \in SUBSET Lifecycle!inPhase(p, "waiting")
  <2>1. \A k \in R : k \in Jobs /\ absPhase[k] = "waiting" /\ absOf[k] = p
    BY <1>5 DEF absPhase, absOf
  <2> QED
    BY <2>1 DEF Lifecycle!inPhase, absPhase, absOf
<1>9. absPhase' = [k \in Jobs |-> IF k = j THEN "waiting"
                                  ELSE IF k \in R THEN "settled" ELSE absPhase[k]]
  BY <1>3, <1>4 DEF absPhase
<1>10. absOf' = [absOf EXCEPT ![j] = p]
  BY <1>6 DEF absOf, Accepts
<1>11. UNCHANGED absCapacity /\ absPhase[j] = "absent"
  BY <1>2 DEF absCapacity, absPhase, concurrency, Accepts
<1> QED
  BY <1>7, <1>8, <1>9, <1>10, <1>11 DEF Lifecycle!Accept, absPhase, absOf, absCapacity

LEMMA RedefinesIsRedefine ==
  ASSUME LifeInv', Redefines
  PROVE  Lifecycle!Redefine
<1>1. \A k \in Jobs : phaseOf(k)' = phaseOf(k)
  BY PhaseKept DEF Redefines
<1>2. \A k \in Jobs : job'[k].Pipeline = job[k].Pipeline
  BY PhaseKept DEF Redefines
<1>3. UNCHANGED <<absPhase, absOf>>
  BY <1>1, <1>2 DEF absPhase, absOf
<1>4. absCapacity' \in [Pipelines -> Int]
  <2>1. \A p \in Pipelines : concurrency(p)' \in Int
    BY DEF LifeInv, RunnerInv, TypeOK, PipelinesDef, PipelineDef, concurrency
  <2> QED
    BY <2>1 DEF absCapacity
<1> QED
  BY <1>3, <1>4 DEF Lifecycle!Redefine, absPhase, absOf, absCapacity

(***************************************************************************)
(* Every step of a handler, loop, goroutine, timer or shutdown is a step   *)
(* of the life module JobLifecycle promises, or changes nothing of it.     *)
(***************************************************************************)
THEOREM RunnerImplementsLifecycle == WellBehaved => (Spec => ImplementsLifecycle)
<1> SUFFICES ASSUME WellBehaved PROVE Spec => ImplementsLifecycle
  OBVIOUS
<1>1. Init => Lifecycle!Init
  BY InitLifecycle
<1>2. LifeInv /\ LifeInv' /\ [Next]_vars => Lifecycle!Next
  <2> SUFFICES ASSUME LifeInv, LifeInv', [Next]_vars PROVE Lifecycle!Next
    OBVIOUS
  <2>1. Effect
    BY StepHasEffect DEF LifeInv
  <2>2. ASSUME NEW S \in SUBSET Jobs, Cancels(S) PROVE Lifecycle!Next
    BY <2>2, CancelsIsCancel DEF LifeInv, Lifecycle!Next
  <2>3. ASSUME NEW j \in Jobs, Starts(j) PROVE Lifecycle!Next
    BY <2>3, StartsIsStart DEF Lifecycle!Next
  <2>4. ASSUME NEW j \in Jobs, Finishes(j) PROVE Lifecycle!Next
    BY <2>4, FinishesIsFinish DEF Lifecycle!Next
  <2>5. ASSUME NEW j \in Jobs, NEW p \in Pipelines, Launches(j, p) PROVE Lifecycle!Next
    BY <2>5, LaunchesIsLaunch DEF Lifecycle!Next
  <2>6. ASSUME NEW j \in Jobs, NEW p \in Pipelines, Accepts(j, p) PROVE Lifecycle!Next
    BY <2>6, AcceptsIsAccept DEF Lifecycle!Next
  <2>7. CASE Redefines
    BY <2>7, RedefinesIsRedefine DEF Lifecycle!Next
  <2> QED
    BY <2>1, <2>2, <2>3, <2>4, <2>5, <2>6, <2>7 DEF Effect
<1>3. Spec => []LifeInv
  BY LifeInvariant
<1> QED
  BY <1>1, <1>2, <1>3, PTL DEF Spec, ImplementsLifecycle, Lifecycle!Spec

-----------------------------------------------------------------------------
(***************************************************************************)
(* Wait lists in creation order.                                           *)
(***************************************************************************)

\* The order of a list depends on the creation of the jobs on it only.
LEMMA OrderedKept ==
  ASSUME NEW s \in Seq(Jobs), NEW js, NEW ks, ordered(s, js),
         \A i \in DOMAIN s : ks[s[i]].Created = js[s[i]].Created
  PROVE  ordered(s, ks)
  BY DEF ordered

\* Taking a job out of a list keeps the order.
LEMMA RemoveAtOrdered ==
  ASSUME NEW s \in Seq(Jobs), NEW i \in 1 .. Len(s), NEW js, ordered(s, js)
  PROVE  ordered(RemoveAt(s, i), js)
<1> DEFINE r     == RemoveAt(s, i)
           at(k) == IF k < i THEN k ELSE k + 1
<1>1. /\ r \in Seq(Jobs) /\ Len(r) = Len(s) - 1
      /\ \A k \in 1 .. Len(s) - 1 : r[k] = s[at(k)]
  BY RemoveAtPositions
<1> HIDE DEF r
<1>2. DOMAIN r = 1 .. Len(s) - 1 /\ DOMAIN s = 1 .. Len(s) /\ Len(s) \in Nat
  BY <1>1
<1> SUFFICES ASSUME NEW k \in DOMAIN r, NEW m \in DOMAIN r, k < m
             PROVE  js[r[k]].Created < js[r[m]].Created
  BY DEF ordered, r
<1>3. /\ at(k) \in DOMAIN s /\ at(m) \in DOMAIN s /\ at(k) < at(m)
      /\ r[k] = s[at(k)] /\ r[m] = s[at(m)]
  BY <1>1, <1>2
<1> HIDE DEF at
<1> QED
  BY <1>3 DEF ordered

\* Appending the newest job keeps the order.
LEMMA AppendOrdered ==
  ASSUME NEW s \in Seq(Jobs), NEW e \in Jobs, NEW js, ordered(s, js),
         \A i \in DOMAIN s : js[s[i]].Created < js[e].Created
  PROVE  ordered(Append(s, e), js)
<1> DEFINE r == Append(s, e)
           n == Len(s)
<1>1. /\ n \in Nat /\ DOMAIN s = 1 .. n /\ DOMAIN r = 1 .. n + 1
      /\ r[n + 1] = e /\ \A k \in 1 .. n : r[k] = s[k]
  BY AppendProperties
<1> HIDE DEF r, n
<1> SUFFICES ASSUME NEW k \in DOMAIN r, NEW m \in DOMAIN r, k < m
             PROVE  js[r[k]].Created < js[r[m]].Created
  BY DEF ordered, r
<1>2. k \in DOMAIN s /\ r[k] = s[k] /\ (m = n + 1 \/ m \in 1 .. n)
  BY <1>1
<1> QED
  BY <1>1, <1>2 DEF ordered

\* Overwriting the last job with the newest one keeps the order.
LEMMA ReplaceLastOrdered ==
  ASSUME NEW s \in Seq(Jobs), NEW e \in Jobs, NEW js, ordered(s, js), Len(s) # 0,
         \A i \in DOMAIN s : js[s[i]].Created < js[e].Created
  PROVE  ordered(ReplaceAt(s, Len(s), e), js)
<1> DEFINE n == Len(s)
           r == [s EXCEPT ![n] = e]
<1>1. n \in 1 .. Len(s) /\ DOMAIN s = 1 .. n /\ n \in Nat
  OBVIOUS
<1>2. DOMAIN r = 1 .. n /\ \A k \in 1 .. n : r[k] = IF k = n THEN e ELSE s[k]
  BY <1>1
<1>3. ReplaceAt(s, Len(s), e) = r
  BY DEF ReplaceAt
<1> HIDE DEF r
<1> SUFFICES ASSUME NEW k \in DOMAIN r, NEW m \in DOMAIN r, k < m
             PROVE  js[r[k]].Created < js[r[m]].Created
  BY <1>3 DEF ordered
<1> HIDE DEF n
<1>4. k \in 1 .. n /\ k # n /\ m \in 1 .. n
  BY <1>1, <1>2
<1> QED
  BY <1>1, <1>2, <1>4 DEF ordered

(***************************************************************************)
(* The slot a queue strategy gives up is the last one of the list or, with *)
(* partitioned_replace, the last one of the partition of the new job.      *)
(***************************************************************************)
LEMMA ReplacedSlotLast ==
  ASSUME NEW def \in PipelineDef, validate(def), ~modifyPanics(def),
         NEW wl \in Seq(Jobs), NEW partitionOf, NEW j,
         NEW slot, slot = replacedSlot(def, wl, partitionOf, j), slot # 0
  PROVE  LET partitioned == def.QueueStrategy = "partitioned_replace"
         IN  /\ slot \in DOMAIN wl /\ (def.QueueStrategy = "replace" => slot = Len(wl))
             /\ partitioned => partitionOf[wl[slot]] = partitionOf[j]
             /\ \A m \in DOMAIN wl :
                  (partitioned => partitionOf[wl[m]] = partitionOf[j]) => m <= slot
<1> DEFINE slots == partitionSlots(wl, partitionOf, partitionOf[j])
<1>1. slot \in 0 .. Len(wl)
  BY ReplacedSlotType
<1>2. DOMAIN wl = 1 .. Len(wl) /\ Len(wl) \in Nat /\ slot \in DOMAIN wl
  BY <1>1
<1>3. CASE def.QueueStrategy = "replace"
  BY <1>2, <1>3 DEF replacedSlot
<1>4. CASE def.QueueStrategy # "replace"
  <2>1. def.QueueStrategy = "partitioned_replace" /\ slot = Max(slots)
    BY <1>4 DEF replacedSlot
  <2>2. slots \in SUBSET (1 .. Len(wl))
    BY <1>2 DEF partitionSlots
  <2>3. slots # {}
    <3>1. Cardinality(slots) >= def.QueuePartitionLimit
      BY <1>4 DEF replacedSlot
    <3>2. def.QueuePartitionLimit \in Int /\ def.QueuePartitionLimit >= 1
      BY <2>1 DEF validate, PipelineDef
    <3>3. Cardinality({}) = 0
      BY FS_EmptySet
    <3> HIDE DEF slots
    <3>4. slots = {} => Cardinality(slots) = 0
      BY <3>3, Zenon
    <3> QED
      BY <3>1, <3>2, <3>4
  <2>4. slot \in slots /\ \A y \in slots : slot >= y
    BY <1>2, <2>1, <2>2, <2>3, MaxOfPositions
  <2> QED
    BY <1>2, <1>4, <2>1, <2>4 DEF partitionSlots
<1> QED
  BY <1>3, <1>4

\* modifyWaitList keeps the list in creation order if the new job is the newest.
LEMMA ModifyWaitListOrdered ==
  ASSUME NEW def \in PipelineDef, validate(def), ~modifyPanics(def),
         NEW wl \in Seq(Jobs), NEW partitionOf, NEW j \in Jobs, NEW js, ordered(wl, js),
         \A i \in DOMAIN wl : js[wl[i]].Created < js[j].Created
  PROVE  ordered(modifyWaitList(def, wl, partitionOf, j), js)
<1>0. PICK slot : slot = replacedSlot(def, wl, partitionOf, j)
  OBVIOUS
<1>1. CASE slot = 0
  BY <1>0, <1>1, AppendOrdered DEF modifyWaitList
<1>2. CASE slot # 0
  <2>1. slot \in DOMAIN wl /\ (def.QueueStrategy = "replace" => slot = Len(wl))
    BY <1>0, <1>2, ReplacedSlotLast
  <2>2. slot \in 1 .. Len(wl) /\ DOMAIN wl = 1 .. Len(wl)
    BY <2>1
  <2>3. CASE def.QueueStrategy = "replace"
    <3>1. modifyWaitList(def, wl, partitionOf, j) = ReplaceAt(wl, Len(wl), j)
      BY <1>0, <1>2, <2>1, <2>3 DEF modifyWaitList
    <3> QED
      BY <1>2, <2>1, <2>3, <3>1, ReplaceLastOrdered
  <2>4. CASE def.QueueStrategy # "replace"
    <3> DEFINE r == RemoveAt(wl, slot)
    <3>1. modifyWaitList(def, wl, partitionOf, j) = Append(r, j)
      BY <1>0, <1>2, <2>4 DEF modifyWaitList
    <3>2. /\ r \in Seq(Jobs) /\ Len(r) = Len(wl) - 1
          /\ \A k \in 1 .. Len(wl) - 1 : r[k] = IF k < slot THEN wl[k] ELSE wl[k + 1]
      BY <2>2, RemoveAtPositions
    <3>3. ordered(r, js)
      BY <2>2, RemoveAtOrdered
    <3> HIDE DEF r
    <3>4. \A k \in DOMAIN r : js[r[k]].Created < js[j].Created
      <4> TAKE k \in DOMAIN r
      <4>1. PICK m \in DOMAIN wl : r[k] = wl[m]
        BY <2>2, <3>2
      <4> QED
        BY <4>1
    <3> QED
      BY <3>1, <3>2, <3>3, <3>4, AppendOrdered
  <2> QED
    BY <2>3, <2>4
<1> QED
  BY <1>1, <1>2

-----------------------------------------------------------------------------
(***************************************************************************)
(* What the steps do to the wait lists and to the jobs that can be         *)
(* started.                                                                *)
(***************************************************************************)

\* Job k neither begins to wait nor becomes startable, and its goroutine goes on.
idles(k) ==
  /\ sameJob(job'[k], job[k])
  /\ waits(k)' => waits(k)
  /\ canBeStarted(job'[k]) => canBeStarted(job[k])
  /\ alive(k)' <=> alive(k)

\* The wait lists and the loop are left alone, and no job becomes startable.
LeavesLists == UNCHANGED <<waitListByPipeline, calls>> /\ \A k \in Jobs : idles(k)

\* startJobsOnWaitList is called for pipeline p, after a change of jobs of p only.
LooksAt(p) ==
  /\ mutexFree /\ UNCHANGED <<defs, jobsByID, waitListByPipeline>>
  /\ calls' = startJobsOnWaitList(p, job', jobsByID, calls)
  /\ \A k \in Jobs : /\ sameJob(job'[k], job[k])
                     /\ waits(k)' => waits(k)
                     /\ alive(k)' => alive(k)
                     /\ job[k].Pipeline # p => idles(k)

Schedules ==
  \E j \in Jobs, p \in Pipelines, q \in Partitions, b \in Buildability : ScheduleAsync(p, j, q, b)

Move ==
  \/ LeavesLists
  \/ \E p \in Pipelines : LooksAt(p)
  \/ Schedules
  \/ WaitListStart \/ WaitListKeep \/ WaitListReturn
  \/ ShutdownBegins

\* A job that does not change does not become startable.
LEMMA IdlesIfSame ==
  ASSUME NEW k \in Jobs, job'[k] = job[k], alive(k)' <=> alive(k)
  PROVE  idles(k)
  BY DEF idles, sameJob, waits, created

\* Steps that leave the jobs, the lists and the liveness of goroutines alone.
LEMMA LeavesIfSame ==
  ASSUME UNCHANGED <<waitListByPipeline, job, calls>>, \A k \in Jobs : alive(k)' <=> alive(k)
  PROVE  LeavesLists
  BY IdlesIfSame DEF LeavesLists

\* cancelJobInternal makes no job startable.
LEMMA CancelMove ==
  ASSUME RunnerInv, NEW S, cancelJobInternal(S), UNCHANGED <<waitListByPipeline, calls, goroutine>>
  PROVE  LeavesLists
<1> SUFFICES ASSUME NEW k \in Jobs PROVE idles(k)
  BY DEF LeavesLists
<1>1. job[k] \in PipelineJob /\ (alive(k)' <=> alive(k))
  BY DEF RunnerInv, TypeOK, alive
<1>2. CASE job'[k] = job[k]
  BY <1>1, <1>2, IdlesIfSame
<1>3. CASE job'[k] = [job[k] EXCEPT !.Canceled = TRUE]
  <2> DEFINE u == [job[k] EXCEPT !.Canceled = TRUE]
  <2>1. sameJob(u, job[k]) /\ u.Canceled
    BY <1>1, RecordFields
  <2>2. job'[k] = u
    BY <1>3
  <2> HIDE DEF u
  <2> QED
    BY <1>1, <2>1, <2>2 DEF idles, waits, canBeStarted
<1> QED
  BY <1>2, <1>3 DEF cancelJobInternal

\* A fresh scheduler for the on_error tasks makes no job startable.
LEMMA InitErrorMove ==
  ASSUME RunnerInv, NEW j \in Jobs, initErrorScheduler(j)
  PROVE  LeavesLists
<1> DEFINE u == [job[j] EXCEPT !.sched = "error"]
<1>1. /\ goroutine[j] = "built" /\ UNCHANGED <<waitListByPipeline, calls>>
      /\ job' = [job EXCEPT ![j].sched = "error"]
      /\ goroutine' = [goroutine EXCEPT ![j] = "handler"]
  BY DEF initErrorScheduler
<1>2. job \in [Jobs -> PipelineJob] /\ goroutine \in [Jobs -> goroutineStates]
  BY DEF RunnerInv, TypeOK
<1>3. \A k \in Jobs : alive(k)' <=> alive(k)
  BY <1>1, <1>2 DEF alive
<1>4. /\ sameJob(u, job[j]) /\ u.Start = job[j].Start /\ u.Canceled = job[j].Canceled
      /\ u.StartDelay = job[j].StartDelay /\ u.startTimer = job[j].startTimer
  BY <1>2 DEF PipelineJob, sameJob
<1>5. job'[j] = u /\ \A k \in Jobs : k # j => job'[k] = job[k]
  BY <1>1, <1>2
<1> HIDE DEF u
<1>6. idles(j)
  BY <1>3, <1>4, <1>5 DEF idles, waits, canBeStarted, sameJob, created
<1> QED
  BY <1>1, <1>3, <1>5, <1>6, IdlesIfSame DEF LeavesLists

\* The timer of a delayed job: looks at the pipeline of that job, or does nothing.
LEMMA DelayedMove ==
  ASSUME RunnerInv, NEW j \in Jobs, StartDelayedJob(j)
  PROVE  LeavesLists \/ \E p \in Pipelines : LooksAt(p)
<1> DEFINE u == [job[j] EXCEPT !.startTimer = FALSE]
<1>1. mutexFree /\ UNCHANGED <<defs, jobsByID, waitListByPipeline, goroutine>>
  BY DEF StartDelayedJob, runVars
<1>2. \A k \in Jobs : alive(k)' <=> alive(k)
  BY <1>1 DEF alive
<1>3. CASE UNCHANGED <<job, calls>>
  BY <1>1, <1>2, <1>3, LeavesIfSame
<1>4. CASE /\ job' = [job EXCEPT ![j].startTimer = FALSE]
           /\ calls' = startJobsOnWaitList(job[j].Pipeline, job', jobsByID, calls)
  <2>1. job \in [Jobs -> PipelineJob]
    BY DEF RunnerInv, TypeOK
  <2>2. PICK p \in Pipelines : p = job[j].Pipeline
    BY <2>1 DEF PipelineJob
  <2>3. sameJob(u, job[j]) /\ u.Start = job[j].Start /\ u.Canceled = job[j].Canceled
    BY <2>1, RecordFields
  <2>4. job'[j] = u /\ \A k \in Jobs : k # j => job'[k] = job[k]
    BY <1>4, <2>1
  <2> HIDE DEF u
  <2>5. sameJob(job'[j], job[j]) /\ (waits(j)' => waits(j))
    BY <2>3, <2>4 DEF waits, sameJob, created
  <2>6. \A k \in Jobs : k # j => idles(k)
    BY <1>2, <2>4, IdlesIfSame
  <2>7. LooksAt(p)
    BY <1>1, <1>2, <1>4, <2>2, <2>5, <2>6 DEF LooksAt, idles
  <2> QED
    BY <2>7
<1> QED
  BY <1>3, <1>4 DEF StartDelayedJob

\* A completed job: looks at the pipeline of that job.
LEMMA CompletedMove ==
  ASSUME RunnerInv, NEW j \in Jobs, JobCompleted(j)
  PROVE  \E p \in Pipelines : LooksAt(p)
<1> DEFINE u == [job[j] EXCEPT !.sched = "nil", !.Completed = TRUE, !.LastError = result[j],
                               !.Canceled = @ \/ result[j] = "canceled"]
<1>1. /\ mutexFree /\ UNCHANGED <<defs, jobsByID, waitListByPipeline>>
      /\ goroutine[j] = "returning" /\ goroutine' = [goroutine EXCEPT ![j] = "done"]
      /\ calls' = startJobsOnWaitList(job[j].Pipeline, job', jobsByID, calls)
  BY DEF JobCompleted
<1>2. job \in [Jobs -> PipelineJob] /\ goroutine \in [Jobs -> goroutineStates]
  BY DEF RunnerInv, TypeOK
<1>3. PICK p \in Pipelines : p = job[j].Pipeline
  BY <1>2 DEF PipelineJob
<1>4. job' = [job EXCEPT ![j] = u]
  BY <1>2 DEF JobCompleted
<1>5. job'[j] = u /\ \A k \in Jobs : k # j => job'[k] = job[k]
  BY <1>2, <1>4
<1>6. sameJob(u, job[j]) /\ u.Start = job[j].Start /\ (job[j].Canceled => u.Canceled)
  BY <1>2 DEF PipelineJob, sameJob
<1> HIDE DEF u
<1>7. sameJob(job'[j], job[j]) /\ (waits(j)' => waits(j))
  BY <1>5, <1>6 DEF waits, sameJob, created
<1>8. alive(j) /\ \A k \in Jobs : alive(k)' <=> (alive(k) /\ k # j)
  BY <1>1, <1>2 DEF alive
<1>9. \A k \in Jobs : k # j => idles(k)
  BY <1>5, <1>8, IdlesIfSame
<1>10. LooksAt(p)
  BY <1>1, <1>3, <1>7, <1>8, <1>9 DEF LooksAt, idles
<1> QED
  BY <1>10

\* Every step of the runner is one of these.
LEMMA StepHasMove ==
  ASSUME RunnerInv, [Next]_vars
  PROVE  Move
<1> USE DEF Move
<1>0. goroutine \in [Jobs -> goroutineStates]
  BY DEF RunnerInv, TypeOK
<1>1. ASSUME UNCHANGED <<waitListByPipeline, job, goroutine, calls>> PROVE LeavesLists
  BY <1>1, LeavesIfSame DEF alive
<1>2. CASE UNCHANGED vars
  BY <1>1, <1>2 DEF vars, jobVars, runVars
<1>3. CASE WaitListLoop
  BY <1>3 DEF WaitListLoop
<1>4. ASSUME NEW j \in Jobs, NEW p \in Pipelines, NEW q \in Partitions, NEW b \in Buildability,
             ScheduleAsync(p, j, q, b)
      PROVE  Move
  BY <1>4 DEF Schedules
<1>5. ASSUME NEW j \in Jobs, CancelJob(j) PROVE Move
  BY <1>5, CancelMove DEF CancelJob, runVars
<1>6. ASSUME NEW j \in Jobs, NEW s \in Schedulers, SchedulerCancel(j, s) PROVE Move
  BY <1>1, <1>6 DEF SchedulerCancel, jobVars
<1>7. ASSUME NEW j \in Jobs, NEW errored \in BOOLEAN, HandleTaskChange(j, errored) PROVE Move
  <2>1. PICK S : cancelJobInternal(S)
    BY <1>7 DEF HandleTaskChange
  <2>2. UNCHANGED <<waitListByPipeline, calls, goroutine>>
    BY <1>7 DEF HandleTaskChange, runVars
  <2> QED
    BY <2>1, <2>2, CancelMove
<1>8. ASSUME NEW j \in Jobs, JobGoroutine(j) PROVE Move
  <2>1. ASSUME NEW err \in {"nil", "failed", "canceled"}, ScheduleReturns(j, err) PROVE Move
    BY <1>0, <2>1, LeavesIfSame DEF ScheduleReturns, jobVars, alive
  <2>2. CASE buildErrorGraph(j)
    <3>1. \A k \in Jobs : alive(k)' <=> alive(k)
      BY <1>0, <2>2 DEF buildErrorGraph, alive
    <3> QED
      BY <2>2, <3>1, LeavesIfSame DEF buildErrorGraph, jobVars
  <2>3. CASE ErrorGraphReturns(j)
    BY <1>0, <2>3, LeavesIfSame DEF ErrorGraphReturns, jobVars, alive
  <2> QED
    BY <1>8, <2>1, <2>2, <2>3, InitErrorMove, CompletedMove DEF JobGoroutine
<1>9. ASSUME NEW j \in Jobs, StartTimer(j) PROVE Move
  <2>1. CASE TimerFires(j)
    BY <1>1, <2>1 DEF TimerFires, jobVars, runVars
  <2> QED
    BY <1>9, <2>1, DelayedMove DEF StartTimer
<1>10. ASSUME NEW D \in ReloadDefs, ReplaceDefinitions(D) PROVE Move
  BY <1>1, <1>10 DEF ReplaceDefinitions, jobVars, runVars
<1>11. CASE PersistLoop
  BY <1>1, <1>11
     DEF PersistLoop, PersistRequested, SaveToStore, PersistLoopStops, jobVars, runVars
<1>12. CASE Signal
  BY <1>1, <1>12 DEF Signal, jobVars, runVars
<1>13. CASE Shutdown
  BY <1>1, <1>13
     DEF Shutdown, ShutdownPolls, ShutdownWakes, ShutdownEnds, jobVars, runVars
<1>14. CASE ShutdownForced
  BY <1>14, CancelMove DEF ShutdownForced, runVars
<1>15. CASE Terminated
  BY <1>2, <1>15 DEF Terminated
<1> QED
  BY <1>2, <1>3, <1>4, <1>5, <1>6, <1>7, <1>8, <1>9, <1>10, <1>11, <1>12, <1>13, <1>14, <1>15
     DEF Next

\* Job j with record n is accepted for pipeline p.
Joins(p, j, n) ==
  /\ mutexFree /\ UNCHANGED <<defs, calls>> /\ ~created(job[j])
  /\ canAcceptJob(defs[p], waitListByPipeline[p]) = "nil"
  /\ n.Pipeline = p /\ created(n) /\ ~n.Start /\ ~n.Canceled
  /\ n.Created = Cardinality({k \in Jobs : created(job[k])}) + 1
  /\ sameJob(job'[j], n)

\* ... and started right away.
StartsNow(p, j) ==
  /\ UNCHANGED waitListByPipeline
  /\ job'[j].Start /\ \A k \in Jobs : k # j => job'[k] = job[k]
  /\ \A k \in Jobs : alive(k)' <=> (alive(k) \/ k = j)
  /\ Cardinality(executing(p)) < concurrency(p)

\* ... or queued, because it is delayed or there is no free slot.
WaitsInLine(p, j, n) ==
  /\ Enqueued(p, j, n)
  /\ canBeStarted(n) => Cardinality(executing(p)) >= concurrency(p)

\* The record of a new job: it is the newest, and its timer is set if it is delayed.
LEMMA NewJobRank ==
  ASSUME TypeOK, NEW p, NEW q, NEW b
  PROVE  LET n == newJob(p, q, b)
         IN  /\ n.Created = Cardinality({k \in Jobs : created(job[k])}) + 1
             /\ n.StartDelay => n.startTimer
  BY DEF newJob

\* ScheduleAsync accepts a job and starts or queues it.
LEMMA ScheduleMove ==
  ASSUME WellBehaved, RunnerInv, Schedules
  PROVE  \E p \in Pipelines, j \in Jobs, n \in PipelineJob :
           Joins(p, j, n) /\ (StartsNow(p, j) \/ WaitsInLine(p, j, n))
<1>0. PICK j \in Jobs, p \in Pipelines, q \in Partitions, b \in Buildability :
        ScheduleAsync(p, j, q, b)
  BY DEF Schedules
<1> DEFINE n   == newJob(p, q, b)
           js  == [job EXCEPT ![j] = n]
           ids == jobsByID \cup {j}
<1>1. /\ mutexFree /\ ~created(job[j]) /\ p \in DOMAIN defs /\ jobsByID' = ids /\ UNCHANGED defs
      /\ canAcceptJob(defs[p], waitListByPipeline[p]) = "nil"
  BY <1>0 DEF ScheduleAsync
<1>2. b = TRUE
  BY DEF WellBehaved, AllBuildable
<1>3. TypeOK /\ job \in [Jobs -> PipelineJob] /\ goroutine \in [Jobs -> goroutineStates]
  BY DEF RunnerInv, TypeOK
<1>4. /\ n.Pipeline = p /\ n.buildable = b /\ created(n)
      /\ ~n.Start /\ ~n.Completed /\ ~n.Canceled
  BY <1>3, NewJobFields
<1>5. /\ n.Created = Cardinality({k \in Jobs : created(job[k])}) + 1
      /\ n.StartDelay => n.startTimer
  BY <1>3, NewJobRank
<1>6. n \in PipelineJob
  BY <1>1, <1>2, <1>3, NewJobType
<1>7. \/ /\ startJob(j, js, ids, calls) /\ freeSlots(p, js, ids) > 0
         /\ UNCHANGED waitListByPipeline
      \/ enqueue(p, j, js) /\ (js[j].StartDelay \/ ~(freeSlots(p, js, ids) > 0))
  BY <1>0 DEF ScheduleAsync
<1> HIDE DEF n
<1>8. js \in [Jobs -> PipelineJob] /\ js[j] = n /\ \A k \in Jobs : k # j => js[k] = job[k]
  BY <1>3, <1>6
<1>9. /\ Cardinality(executing(p)) \in Nat /\ concurrency(p) \in Int
      /\ freeSlots(p, js, ids) = concurrency(p) - Cardinality(executing(p))
  BY <1>1, <1>4, <1>6, NewJobSlots
<1>10. CASE startJob(j, js, ids, calls) /\ freeSlots(p, js, ids) > 0 /\ UNCHANGED waitListByPipeline
  <2> HIDE DEF js, ids
  <2>1. /\ calls' = calls
        /\ \A k \in Jobs : k # j => job'[k] = js[k]
        /\ sameJob(job'[j], js[j]) /\ job'[j].Start
        /\ \A k \in Jobs : alive(k)' <=> (alive(k) \/ k = j)
    BY <1>2, <1>3, <1>4, <1>8, <1>10, Started
  <2>2. StartsNow(p, j)
    BY <1>8, <1>9, <1>10, <2>1 DEF StartsNow
  <2>3. Joins(p, j, n)
    BY <1>1, <1>4, <1>5, <1>8, <2>1 DEF Joins
  <2> QED
    BY <1>6, <2>2, <2>3
<1>11. CASE enqueue(p, j, js) /\ (js[j].StartDelay \/ ~(freeSlots(p, js, ids) > 0))
  <2>1. Enqueued(p, j, n)
    BY <1>1, <1>6, <1>11, EnqueueMove
  <2>2. canBeStarted(n) => Cardinality(executing(p)) >= concurrency(p)
    BY <1>5, <1>8, <1>9, <1>11 DEF canBeStarted
  <2>3. job'[j] = n /\ calls' = calls
    BY <2>1 DEF Enqueued
  <2>4. sameJob(job'[j], n)
    BY <2>3 DEF sameJob
  <2>5. Joins(p, j, n)
    BY <1>1, <1>4, <1>5, <2>3, <2>4 DEF Joins
  <2> QED
    BY <1>6, <2>1, <2>2, <2>5 DEF WaitsInLine
<1> QED
  BY <1>7, <1>10, <1>11

\* Looking at a pipeline leaves the queues as they are.
LEMMA LooksMove ==
  ASSUME RunnerInv, NEW p \in Pipelines, LooksAt(p)
  PROVE  /\ \A r \in Pipelines : queue(r)' = queue(r)
         /\ \/ calls' = <<>> /\ freeSlots(p, job', jobsByID) <= 0
            \/ calls' # <<>> /\ Head(calls').pipeline = p /\ Head(calls').kept = <<>>
<1> DEFINE act == [ pipeline  |-> p,
                    todo      |-> waitListByPipeline[p],
                    kept      |-> <<>>,
                    freeSlots |-> freeSlots(p, job', jobsByID) ]
<1>1. /\ calls = <<>> /\ (\A r \in Pipelines : queue(r) = waitListByPipeline[r])
      /\ UNCHANGED waitListByPipeline
  BY DEF LooksAt, mutexFree, queue
<1>2. CASE freeSlots(p, job', jobsByID) <= 0
  <2>1. calls' = <<>>
    BY <1>1, <1>2 DEF LooksAt, startJobsOnWaitList
  <2> QED
    BY <1>1, <1>2, <2>1 DEF queue, mutexFree
<1>3. CASE ~(freeSlots(p, job', jobsByID) <= 0)
  <2>1. calls' = <<act>> \o <<>>
    BY <1>1, <1>3 DEF LooksAt, startJobsOnWaitList
  <2>2. calls' = <<act>> /\ calls' # <<>> /\ Head(calls') = act
    BY <2>1
  <2>3. act.pipeline = p /\ act.kept = <<>> /\ act.todo = waitListByPipeline[p]
    OBVIOUS
  <2>4. <<>> \o waitListByPipeline[p] = waitListByPipeline[p]
    BY DEF RunnerInv, TypeOK
  <2> HIDE DEF act
  <2>5. \A r \in Pipelines : queue(r)' = queue(r)
    BY <1>1, <2>2, <2>3, <2>4 DEF queue, mutexFree
  <2> QED
    BY <2>2, <2>3, <2>5
<1> QED
  BY <1>2, <1>3

\* Shutdown empties the lists; no job waits any more.
LEMMA ShutdownMove ==
  ASSUME RunnerInv, ShutdownBegins
  PROVE  /\ mutexFree /\ mutexFree' /\ UNCHANGED defs
         /\ \A p \in Pipelines : queue(p)' = <<>> /\ waitListByPipeline'[p] = <<>>
         /\ \A k \in Jobs : /\ sameJob(job'[k], job[k]) /\ ~waits(k)'
                            /\ alive(k)' <=> alive(k)
<1>1. /\ mutexFree /\ UNCHANGED <<defs, calls, goroutine>>
      /\ waitListByPipeline' = [p \in Pipelines |-> <<>>]
      /\ job' = [k \in Jobs |-> IF k \in waitingJobs
                                THEN [job[k] EXCEPT !.Canceled = TRUE]
                                ELSE job[k]]
  BY DEF ShutdownBegins, runVars
<1>2. mutexFree' /\ \A p \in Pipelines : queue(p)' = <<>> /\ waitListByPipeline'[p] = <<>>
  BY <1>1 DEF mutexFree, queue
<1>3. \A k \in Jobs : sameJob(job'[k], job[k])
  <2> TAKE k \in Jobs
  <2> DEFINE u == [job[k] EXCEPT !.Canceled = TRUE]
  <2>1. sameJob(u, job[k]) /\ sameJob(job[k], job[k])
    BY DEF RunnerInv, TypeOK, PipelineJob, sameJob
  <2>2. job'[k] = u \/ job'[k] = job[k]
    BY <1>1
  <2> HIDE DEF u
  <2> QED
    BY <2>1, <2>2
<1>4. \A k \in Jobs : ~waits(k)'
  BY ShutdownEffect
<1> QED
  BY <1>1, <1>2, <1>3, <1>4 DEF alive

-----------------------------------------------------------------------------
(***************************************************************************)
(* The wait lists stay in creation order.                                  *)
(***************************************************************************)

\* The ranks of the jobs that exist.
LEMMA RanksKept ==
  ASSUME RanksOK, \A k \in Jobs : sameJob(job'[k], job[k])
  PROVE  RanksOK'
<1>1. {k \in Jobs : created(job'[k])} = {k \in Jobs : created(job[k])}
  BY DEF sameJob, created
<1> QED
  BY <1>1 DEF RanksOK, sameJob

\* A new job has a higher rank than every other.
LEMMA RanksAdded ==
  ASSUME RunnerInv, RanksOK, NEW p \in Pipelines, NEW j \in Jobs, NEW n \in PipelineJob,
         Joins(p, j, n), \A k \in Jobs : k # j => sameJob(job'[k], job[k])
  PROVE  RanksOK' /\ \A k \in Jobs : k # j => job[k].Created < n.Created
<1> DEFINE C == {k \in Jobs : created(job[k])}
<1>1. Cardinality(C) \in Nat /\ IsFiniteSet(C)
  BY JobSetsFinite
<1>2. job'[j].Created = Cardinality(C) + 1 /\ n.Created = Cardinality(C) + 1 /\ j \notin C
  BY DEF Joins, sameJob
<1>3. {k \in Jobs : created(job'[k])} = C \cup {j}
  <2>1. created(job'[j])
    BY DEF Joins, sameJob, created
  <2> QED
    BY <2>1 DEF sameJob, created
<1>4. Cardinality(C \cup {j}) = Cardinality(C) + 1
  BY <1>1, <1>2, FS_AddElement
<1>5. \A k \in Jobs : job[k].Created \in Nat /\ job[k].Created <= Cardinality(C)
  BY DEF RunnerInv, TypeOK, PipelineJob, RanksOK
<1> HIDE DEF C
<1>6. ASSUME NEW k \in Jobs PROVE job'[k].Created <= Cardinality(C) + 1
  <2>1. CASE k = j
    BY <1>1, <1>2, <2>1
  <2>2. CASE k # j
    BY <1>1, <1>5, <2>2 DEF sameJob
  <2> QED
    BY <2>1, <2>2
<1>7. RanksOK'
  BY <1>3, <1>4, <1>6 DEF RanksOK
<1>8. \A k \in Jobs : k # j => job[k].Created < n.Created
  BY <1>1, <1>2, <1>5
<1> QED
  BY <1>7, <1>8

\* Queues that stay as they are stay in order.
LEMMA QueuesOrderKept ==
  ASSUME RunnerInv, QueuesOrdered, \A p \in Pipelines : queue(p)' = queue(p),
         \A p \in Pipelines : \A i \in DOMAIN queue(p) :
           sameJob(job'[queue(p)[i]], job[queue(p)[i]])
  PROVE  QueuesOrdered'
<1> SUFFICES ASSUME NEW p \in Pipelines PROVE ordered(queue(p)', job')
  BY DEF QueuesOrdered
<1>1. queue(p) \in Seq(Jobs)
  BY QueueType DEF RunnerInv
<1>2. \A i \in DOMAIN queue(p) : job'[queue(p)[i]].Created = job[queue(p)[i]].Created
  BY DEF sameJob
<1>3. ordered(queue(p), job)
  BY DEF QueuesOrdered
<1>4. ordered(queue(p), job')
  BY <1>1, <1>2, <1>3, OrderedKept
<1> QED
  BY <1>4

\* WaitListStart takes a job out of a queue.
LEMMA StartOrder ==
  ASSUME WaitListInv, WaitListStart
  PROVE  RanksOK' /\ QueuesOrdered' /\ KeptOK'
<1> DEFINE top == Head(calls)
<1>0. RunnerInv /\ RanksOK /\ QueuesOrdered /\ KeptOK
  BY DEF WaitListInv
<1>1. PICK P \in Pipelines, j \in Jobs :
        LET pos == Len(top.kept) + 1
        IN  /\ ~mutexFree /\ calls' # <<>>
            /\ top.freeSlots \in Int /\ top.freeSlots > 0 /\ top.kept \in Seq(Jobs)
            /\ Head(calls').kept = top.kept
            /\ pos \in 1 .. Len(queue(P)) /\ queue(P)' = RemoveAt(queue(P), pos)
            /\ \A p \in Pipelines : p # P => queue(p)' = queue(p)
            /\ \A k \in Jobs : k # j => job'[k] = job[k]
            /\ sameJob(job'[j], job[j]) /\ job'[j].Start
  BY <1>0, StartMove
<1>2. \A k \in Jobs : sameJob(job'[k], job[k])
  BY <1>1 DEF sameJob
<1>3. \A p \in Pipelines : queue(p) \in Seq(Jobs)
  BY <1>0, QueueType DEF RunnerInv
<1>4. QueuesOrdered'
  <2> SUFFICES ASSUME NEW p \in Pipelines PROVE ordered(queue(p)', job')
    BY DEF QueuesOrdered
  <2>1. ordered(queue(p), job) /\ queue(p) \in Seq(Jobs)
    BY <1>0, <1>3 DEF QueuesOrdered
  <2>2. \A i \in DOMAIN queue(p) : job'[queue(p)[i]].Created = job[queue(p)[i]].Created
    BY <1>2, <2>1 DEF sameJob
  <2>3. ordered(queue(p), job')
    BY <2>1, <2>2, OrderedKept
  <2>4. CASE p = P
    BY <1>1, <2>1, <2>3, <2>4, RemoveAtOrdered
  <2>5. CASE p # P
    BY <1>1, <2>3, <2>5
  <2> QED
    BY <2>4, <2>5
<1>5. KeptOK'
  <2>1. ASSUME NEW i \in DOMAIN top.kept PROVE ~canBeStarted(job'[top.kept[i]])
    <3>1. top.kept[i] \in Jobs
      BY <1>1
    <3>2. ~canBeStarted(job[top.kept[i]])
      BY <1>0, <1>1 DEF KeptOK
    <3> QED
      BY <1>1, <3>1, <3>2 DEF canBeStarted
  <2> QED
    BY <1>1, <2>1 DEF KeptOK
<1> QED
  BY <1>0, <1>2, <1>4, <1>5, RanksKept

\* WaitListKeep keeps a job that cannot be started, or finds no free slot.
LEMMA KeepOrder ==
  ASSUME WaitListInv, WaitListKeep
  PROVE  RanksOK' /\ QueuesOrdered' /\ KeptOK'
<1> DEFINE top == Head(calls)
           j   == Head(top.todo)
<1>0. RunnerInv /\ RanksOK /\ QueuesOrdered /\ KeptOK
  BY DEF WaitListInv
<1>1. /\ ~mutexFree /\ top.todo # <<>>
      /\ Head(calls').kept = Append(top.kept, j)
      /\ Head(calls').freeSlots = top.freeSlots
      /\ \A p \in Pipelines : queue(p)' = queue(p)
  BY <1>0, KeepMove
<1>2. UNCHANGED job /\ ~(canBeStarted(job[j]) /\ top.freeSlots > 0)
  BY DEF WaitListKeep, jobVars
<1>3. \A k \in Jobs : sameJob(job'[k], job[k])
  BY <1>2 DEF sameJob
<1>4. \A p \in Pipelines : \A i \in DOMAIN queue(p) :
        sameJob(job'[queue(p)[i]], job[queue(p)[i]])
  BY <1>2 DEF sameJob
<1>5. KeptOK'
  <2>1. top.freeSlots \in Int /\ top.freeSlots >= 0 /\ top.kept \in Seq(Jobs) /\ top.todo \in Seq(Jobs)
    BY <1>0, <1>1, LoopState DEF RunnerInv, SlotsOK
  <2>2. CASE top.freeSlots = 0
    BY <1>1, <2>2 DEF KeptOK
  <2>3. CASE top.freeSlots # 0
    <3> DEFINE s == Append(top.kept, j)
               m == Len(top.kept)
    <3>1. ~canBeStarted(job[j]) /\ \A i \in DOMAIN top.kept : ~canBeStarted(job[top.kept[i]])
      BY <1>0, <1>1, <1>2, <2>1, <2>3 DEF KeptOK
    <3>2. j \in Jobs
      BY <1>1, <2>1, HeadTailProperties
    <3>3. /\ m \in Nat /\ DOMAIN top.kept = 1 .. m /\ DOMAIN s = 1 .. m + 1
          /\ s[m + 1] = j /\ \A k \in 1 .. m : s[k] = top.kept[k]
      BY <2>1, <3>2, AppendProperties
    <3> HIDE DEF s, m, j, top
    <3>4. \A i \in DOMAIN s : ~canBeStarted(job[s[i]])
      <4> TAKE i \in DOMAIN s
      <4>1. i = m + 1 \/ i \in 1 .. m
        BY <3>3
      <4> QED
        BY <3>1, <3>3, <4>1
    <3>5. Head(calls').kept = s
      BY <1>1 DEF s
    <3> QED
      BY <1>2, <3>4, <3>5 DEF KeptOK
  <2> QED
    BY <2>2, <2>3
<1> QED
  BY <1>0, <1>1, <1>3, <1>4, <1>5, RanksKept, QueuesOrderKept

\* The steps that leave every queue as it is.
LEMMA IdleOrder ==
  ASSUME WaitListInv, LeavesLists \/ WaitListReturn \/ \E p \in Pipelines : LooksAt(p)
  PROVE  RanksOK' /\ QueuesOrdered' /\ KeptOK'
<1>0. RunnerInv /\ RanksOK /\ QueuesOrdered /\ KeptOK
  BY DEF WaitListInv
<1>1. /\ \A k \in Jobs : sameJob(job'[k], job[k])
      /\ \A p \in Pipelines : queue(p)' = queue(p)
      /\ KeptOK'
  <2>1. CASE LeavesLists
    <3>1. \A p \in Pipelines : queue(p)' = queue(p)
      BY <2>1 DEF LeavesLists, queue, mutexFree
    <3>2. KeptOK'
      <4> SUFFICES ASSUME ~mutexFree, Head(calls).freeSlots # 0,
                          NEW i \in DOMAIN Head(calls).kept
                   PROVE  ~canBeStarted(job'[Head(calls).kept[i]])
        BY <2>1 DEF KeptOK, LeavesLists, mutexFree
      <4>1. Head(calls).kept \in Seq(Jobs)
        BY <1>0, LoopState
      <4>2. Head(calls).kept[i] \in Jobs
        BY <4>1
      <4>3. ~canBeStarted(job[Head(calls).kept[i]])
        BY <1>0 DEF KeptOK
      <4> QED
        BY <2>1, <4>2, <4>3 DEF LeavesLists, idles
    <3> QED
      BY <2>1, <3>1, <3>2 DEF LeavesLists, idles
  <2>2. CASE WaitListReturn
    <3>1. calls' = <<>> /\ UNCHANGED job /\ \A p \in Pipelines : queue(p)' = queue(p)
      BY <1>0, <2>2, ReturnMove DEF WaitListReturn
    <3> QED
      BY <3>1 DEF KeptOK, mutexFree, sameJob
  <2>3. ASSUME NEW p \in Pipelines, LooksAt(p)
        PROVE  /\ \A k \in Jobs : sameJob(job'[k], job[k])
               /\ \A r \in Pipelines : queue(r)' = queue(r)
               /\ KeptOK'
    <3>1. /\ \A r \in Pipelines : queue(r)' = queue(r)
          /\ calls' = <<>> \/ (calls' # <<>> /\ Head(calls').kept = <<>>)
      BY <1>0, <2>3, LooksMove
    <3>2. KeptOK'
      BY <3>1 DEF KeptOK, mutexFree
    <3> QED
      BY <2>3, <3>1, <3>2 DEF LooksAt
  <2> QED
    BY <2>1, <2>2, <2>3
<1>2. \A p \in Pipelines : \A i \in DOMAIN queue(p) : queue(p)[i] \in Jobs
  BY <1>0, QueueType DEF RunnerInv
<1> QED
  BY <1>0, <1>1, <1>2, RanksKept, QueuesOrderKept

\* Empty queues are in order.
LEMMA ShutdownOrder ==
  ASSUME WaitListInv, ShutdownBegins
  PROVE  RanksOK' /\ QueuesOrdered' /\ KeptOK'
<1>0. RunnerInv /\ RanksOK
  BY DEF WaitListInv
<1>1. /\ mutexFree' /\ \A p \in Pipelines : queue(p)' = <<>>
      /\ \A k \in Jobs : sameJob(job'[k], job[k])
  BY <1>0, ShutdownMove
<1> QED
  BY <1>0, <1>1, RanksKept DEF QueuesOrdered, ordered, KeptOK

\* ScheduleAsync gives the new job the highest rank, and the end of the queue.
LEMMA ScheduleOrder ==
  ASSUME WellBehaved, WaitListInv, Schedules
  PROVE  RanksOK' /\ QueuesOrdered' /\ KeptOK'
<1>0. RunnerInv /\ RanksOK /\ QueuesOrdered
  BY DEF WaitListInv
<1>1. PICK p \in Pipelines, j \in Jobs, n \in PipelineJob :
        Joins(p, j, n) /\ (StartsNow(p, j) \/ WaitsInLine(p, j, n))
  BY <1>0, ScheduleMove
<1>2. mutexFree /\ mutexFree' /\ calls' = calls /\ ~created(job[j])
  BY <1>1 DEF Joins, mutexFree
<1>3. KeptOK'
  BY <1>2 DEF KeptOK
<1>4. \A r \in Pipelines : \A i \in DOMAIN queue(r) : queue(r)[i] \in Jobs /\ queue(r)[i] # j
  <2>1. \A r \in Pipelines : queue(r) \in Seq(Jobs)
    BY <1>0, QueueType DEF RunnerInv
  <2> QED
    BY <1>0, <1>2, <2>1, UnusedJob
<1>5. CASE StartsNow(p, j)
  <2>1. \A k \in Jobs : k # j => sameJob(job'[k], job[k])
    BY <1>5 DEF StartsNow, sameJob
  <2>2. RanksOK'
    BY <1>0, <1>1, <2>1, RanksAdded
  <2>3. \A r \in Pipelines : queue(r)' = queue(r)
    BY <1>2, <1>5 DEF StartsNow, queue
  <2> QED
    BY <1>0, <1>3, <1>4, <2>1, <2>2, <2>3, QueuesOrderKept
<1>6. CASE WaitsInLine(p, j, n)
  <2> DEFINE wl          == waitListByPipeline[p]
             partitionOf == [k \in Jobs |-> [job EXCEPT ![j] = n][k].queuePartition]
             replaced    == replacedJobs(defs[p], wl, partitionOf, j)
             nl          == modifyWaitList(defs[p], wl, partitionOf, j)
  <2>1. /\ queue(p)' = nl /\ \A r \in Pipelines : r # p => queue(r)' = queue(r)
        /\ job'[j] = n
        /\ \A k \in Jobs : k # j =>
             job'[k] = IF k \in replaced
                       THEN [job[k] EXCEPT !.Canceled = TRUE, !.startTimer = FALSE]
                       ELSE job[k]
    BY <1>6 DEF WaitsInLine, Enqueued
  <2>2. /\ defs[p] \in PipelineDef /\ validate(defs[p]) /\ ~modifyPanics(defs[p])
    BY <1>0, <1>2, EnqueueState
  <2>3. queue(p) = wl /\ wl \in Seq(Jobs)
    BY <1>0, <1>2, EnqueueState
  <2> HIDE DEF wl, partitionOf, replaced
  <2>4. ASSUME NEW k \in Jobs, k # j PROVE sameJob(job'[k], job[k])
    <3> DEFINE u == [job[k] EXCEPT !.Canceled = TRUE, !.startTimer = FALSE]
    <3>1. sameJob(u, job[k]) /\ sameJob(job[k], job[k])
      BY <1>0 DEF RunnerInv, TypeOK, PipelineJob, sameJob
    <3>2. job'[k] = u \/ job'[k] = job[k]
      BY <2>1, <2>4
    <3> HIDE DEF u
    <3> QED
      BY <3>1, <3>2
  <2>5. RanksOK' /\ \A k \in Jobs : k # j => job[k].Created < n.Created
    BY <1>0, <1>1, <2>4, RanksAdded
  <2>6. ASSUME NEW r \in Pipelines PROVE ordered(queue(r), job')
    <3>1. queue(r) \in Seq(Jobs) /\ ordered(queue(r), job)
      BY <1>0, QueueType DEF RunnerInv, QueuesOrdered
    <3>2. \A i \in DOMAIN queue(r) : job'[queue(r)[i]].Created = job[queue(r)[i]].Created
      BY <1>4, <2>4 DEF sameJob
    <3> QED
      BY <3>1, <3>2, OrderedKept
  <2>7. ordered(nl, job')
    <3>1. ordered(wl, job')
      BY <2>3, <2>6
    <3>2. \A i \in DOMAIN wl : job'[wl[i]].Created < job'[j].Created
      <4> TAKE i \in DOMAIN wl
      <4>1. wl[i] \in Jobs /\ wl[i] # j
        BY <1>4, <2>3
      <4>2. job'[wl[i]].Created = job[wl[i]].Created
        BY <2>4, <4>1 DEF sameJob
      <4> QED
        BY <2>1, <2>5, <4>1, <4>2
    <3> QED
      BY <2>2, <2>3, <3>1, <3>2, ModifyWaitListOrdered
  <2> HIDE DEF nl
  <2>8. QueuesOrdered'
    <3> SUFFICES ASSUME NEW r \in Pipelines PROVE ordered(queue(r)', job')
      BY DEF QueuesOrdered
    <3> QED
      BY <2>1, <2>6, <2>7
  <2> QED
    BY <1>3, <2>5, <2>8
<1> QED
  BY <1>1, <1>5, <1>6

\* Every step keeps the order.
LEMMA NextOrder ==
  ASSUME WellBehaved, WaitListInv, [Next]_vars
  PROVE  WaitListInv'
<1>1. RunnerInv'
  BY NextInv DEF WaitListInv
<1>2. Move
  BY StepHasMove DEF WaitListInv
<1>3. RanksOK' /\ QueuesOrdered' /\ KeptOK'
  BY <1>2, IdleOrder, ScheduleOrder, StartOrder, KeepOrder, ShutdownOrder DEF Move
<1> QED
  BY <1>1, <1>3 DEF WaitListInv

\* NewPipelineRunner starts with empty lists.
LEMMA InitOrder ==
  ASSUME WellBehaved, Init
  PROVE  WaitListInv
<1>1. RunnerInv
  BY InitInv
<1>2. calls = <<>> /\ (\A p \in Pipelines : waitListByPipeline[p] = <<>>) /\ \A j \in Jobs : job[j] = noJob
  BY DEF Init
<1>3. \A p \in Pipelines : queue(p) = <<>>
  BY <1>2 DEF queue, mutexFree
<1>4. QueuesOrdered /\ KeptOK
  BY <1>2, <1>3 DEF QueuesOrdered, ordered, KeptOK, mutexFree
<1>5. RanksOK
  <2>1. Cardinality({k \in Jobs : created(job[k])}) \in Nat
    BY JobSetsFinite
  <2>2. noJob.Created = 0
    BY DEF noJob
  <2> QED
    BY <1>2, <2>1, <2>2 DEF RanksOK
<1> QED
  BY <1>1, <1>4, <1>5 DEF WaitListInv

(***************************************************************************)
(* The queues stay in creation order through all that rewrites them: the   *)
(* queue strategies of ScheduleAsync, the loop of startJobsOnWaitList and  *)
(* Shutdown.                                                               *)
(***************************************************************************)
THEOREM WaitListInvariant == WellBehaved => (Spec => []WaitListInv)
<1> SUFFICES ASSUME WellBehaved PROVE Spec => []WaitListInv
  OBVIOUS
<1>1. Init => WaitListInv
  BY InitOrder
<1>2. WaitListInv /\ [Next]_vars => WaitListInv'
  BY NextOrder
<1> QED
  BY <1>1, <1>2, PTL DEF Spec

-----------------------------------------------------------------------------
(***************************************************************************)
(* Displaced jobs.                                                         *)
(***************************************************************************)

\* The steps that create no job.
LEMMA OldJobsKept ==
  ASSUME RunnerInv, Move, ~Schedules
  PROVE  \A k \in Jobs : sameJob(job'[k], job[k])
<1>1. CASE LeavesLists \/ \E p \in Pipelines : LooksAt(p)
  BY <1>1 DEF LeavesLists, LooksAt, idles
<1>2. CASE WaitListStart
  <2>1. PICK j \in Jobs : (\A k \in Jobs : k # j => job'[k] = job[k]) /\ sameJob(job'[j], job[j])
    BY <1>2, StartMove
  <2> QED
    BY <2>1 DEF sameJob
<1>3. CASE WaitListKeep \/ WaitListReturn
  BY <1>3 DEF WaitListKeep, WaitListReturn, jobVars, sameJob
<1>4. CASE ShutdownBegins
  BY <1>4, ShutdownMove
<1> QED
  BY <1>1, <1>2, <1>3, <1>4 DEF Move

\* The step of DisplacesNewestOfPartition.
Displacement ==
  \A j \in Jobs : \A k \in displaced(j) :
    LET partitioned == defs[job[k].Pipeline].QueueStrategy = "partitioned_replace"
        rivals      == {i \in Jobs : /\ waits(i) /\ job[i].Pipeline = job[k].Pipeline
                                     /\ partitioned =>
                                          job[i].queuePartition = job[k].queuePartition}
    IN  /\ displaced(j) = {k}
        /\ job[k].Pipeline = job'[j].Pipeline
        /\ partitioned => job[k].queuePartition = job'[j].queuePartition
        /\ \A i \in rivals : job[i].Created <= job[k].Created

LEMMA StepDisplacesNewest ==
  ASSUME WellBehaved, WaitListInv, [Next]_vars
  PROVE  Displacement
<1>0. RunnerInv /\ QueuesOrdered /\ \A p \in Pipelines : queue(p) \in Seq(Jobs)
  BY QueueType DEF WaitListInv, RunnerInv
<1>1. Move
  BY <1>0, StepHasMove
<1> SUFFICES ASSUME NEW i \in Jobs, NEW k \in Jobs, k \in displaced(i)
             PROVE  LET partitioned == defs[job[k].Pipeline].QueueStrategy = "partitioned_replace"
                        rivals      == {m \in Jobs :
                                          /\ waits(m) /\ job[m].Pipeline = job[k].Pipeline
                                          /\ partitioned =>
                                               job[m].queuePartition = job[k].queuePartition}
                    IN  /\ displaced(i) = {k}
                        /\ job[k].Pipeline = job'[i].Pipeline
                        /\ partitioned => job[k].queuePartition = job'[i].queuePartition
                        /\ \A m \in rivals : job[m].Created <= job[k].Created
  BY DEF Displacement, displaced
<1>2. waits(k) /\ job'[k].Canceled /\ ~created(job[i]) /\ created(job'[i])
  BY DEF displaced
<1>3. Schedules
  BY <1>0, <1>1, <1>2, OldJobsKept DEF sameJob, created
<1>4. PICK p \in Pipelines, j \in Jobs, n \in PipelineJob :
        Joins(p, j, n) /\ (StartsNow(p, j) \/ WaitsInLine(p, j, n))
  BY <1>0, <1>3, ScheduleMove
<1>5. mutexFree /\ ~created(job[j]) /\ n.Pipeline = p
  BY <1>4 DEF Joins
<1>6. ~StartsNow(p, j)
  <2>1. k # j /\ ~job[k].Canceled
    BY <1>2, <1>5 DEF waits
  <2> QED
    BY <1>2, <2>1 DEF StartsNow
<1> DEFINE wl          == waitListByPipeline[p]
           partitionOf == [m \in Jobs |-> [job EXCEPT ![j] = n][m].queuePartition]
           replaced    == replacedJobs(defs[p], wl, partitionOf, j)
<1>7. /\ \A m \in replaced : /\ m \in Jobs /\ m # j /\ created(job[m]) /\ job[m].Pipeline = p
      /\ job'[j] = n
      /\ \A m \in Jobs : m # j =>
           job'[m] = IF m \in replaced
                     THEN [job[m] EXCEPT !.Canceled = TRUE, !.startTimer = FALSE]
                     ELSE job[m]
  BY <1>4, <1>6 DEF WaitsInLine, Enqueued
<1>8. defs[p] \in PipelineDef /\ validate(defs[p]) /\ ~modifyPanics(defs[p])
  BY <1>0, <1>5, EnqueueState
<1>9. queue(p) = wl /\ wl \in Seq(Jobs) /\ \A m \in DOMAIN wl : wl[m] # j
  BY <1>0, <1>5, EnqueueState
<1>10. /\ partitionOf[j] = n.queuePartition
       /\ \A m \in Jobs : m # j => partitionOf[m] = job[m].queuePartition
  BY <1>0 DEF RunnerInv, TypeOK
<1>11. PICK slot : slot = replacedSlot(defs[p], wl, partitionOf, j)
  OBVIOUS
<1>12. replaced = IF slot = 0 THEN {} ELSE {wl[slot]}
  BY <1>11 DEF replacedJobs
<1> HIDE DEF wl, partitionOf, replaced
<1>13. \A m \in displaced(i) : m \in replaced
  <2> TAKE m \in displaced(i)
  <2>1. m \in Jobs /\ m # j /\ ~job[m].Canceled /\ job'[m].Canceled
    BY <1>5 DEF displaced, waits
  <2> QED
    BY <1>7, <2>1
<1>14. slot # 0 /\ k = wl[slot] /\ displaced(i) = {k}
  BY <1>12, <1>13
<1>15. i = j
  <2>1. ~(i \in replaced)
    BY <1>2, <1>7
  <2> QED
    BY <1>2, <1>7, <2>1
<1>16. job[k].Pipeline = p
  BY <1>7, <1>13
<1> DEFINE partitioned == defs[p].QueueStrategy = "partitioned_replace"
<1>17. /\ slot \in DOMAIN wl /\ (partitioned => partitionOf[wl[slot]] = partitionOf[j])
       /\ \A m \in DOMAIN wl : (partitioned => partitionOf[wl[m]] = partitionOf[j]) => m <= slot
  BY <1>8, <1>9, <1>11, <1>14, ReplacedSlotLast
<1>18. partitioned => job[k].queuePartition = n.queuePartition
  BY <1>9, <1>10, <1>14, <1>17
<1>19. ASSUME NEW m \in Jobs, waits(m), job[m].Pipeline = p,
              partitioned => job[m].queuePartition = job[k].queuePartition
       PROVE  job[m].Created <= job[k].Created
  <2>1. PICK l \in DOMAIN wl : wl[l] = m
    BY <1>0, <1>9, <1>19 DEF RunnerInv, QueuesComplete
  <2>2. l <= slot
    BY <1>9, <1>10, <1>17, <1>18, <1>19, <2>1
  <2>3. ordered(wl, job) /\ DOMAIN wl = 1 .. Len(wl)
    BY <1>0, <1>9 DEF QueuesOrdered
  <2>4. l < slot \/ l = slot
    BY <1>17, <2>1, <2>2, <2>3
  <2>5. job[m].Created \in Nat /\ job[k].Created \in Nat
    BY <1>0 DEF RunnerInv, TypeOK, PipelineJob
  <2> QED
    BY <1>14, <1>17, <2>1, <2>3, <2>4, <2>5 DEF ordered
<1> QED
  BY <1>5, <1>7, <1>14, <1>15, <1>16, <1>18, <1>19

(***************************************************************************)
(* A new job displaces at most one waiting job, the most recent one of its *)
(* own pipeline or, with partitioned_replace, of its own partition there.  *)
(***************************************************************************)
THEOREM DisplacesNewest == WellBehaved => (Spec => DisplacesNewestOfPartition)
<1> SUFFICES ASSUME WellBehaved PROVE Spec => DisplacesNewestOfPartition
  OBVIOUS
<1>1. Spec => []WaitListInv
  BY WaitListInvariant
<1>2. WaitListInv /\ [Next]_vars => [Displacement]_vars
  BY StepDisplacesNewest
<1> QED
  BY <1>1, <1>2, PTL DEF Spec, DisplacesNewestOfPartition, Displacement

-----------------------------------------------------------------------------
(***************************************************************************)
(* Free slots are used.                                                    *)
(***************************************************************************)

\* The concurrency limits and the number of executing jobs are integers.
LEMMA CountTypes ==
  ASSUME RunnerInv, NEW p \in Pipelines
  PROVE  /\ concurrency(p) \in Int
         /\ Cardinality(executing(p)) \in Nat /\ IsFiniteSet(executing(p))
<1>1. concurrency(p) \in Int
  BY DEF RunnerInv, TypeOK, PipelinesDef, PipelineDef, concurrency
<1>2. executing(p) \in SUBSET Jobs
  BY DEF executing
<1> QED
  BY <1>1, <1>2, JobSetsFinite

\* A step that ends no job of p and makes none startable.
LEMMA ConservingKept ==
  ASSUME RunnerInv, RunnerInv', NEW p \in Pipelines, conserving(p),
         concurrency(p)' <= concurrency(p), executing(p) \subseteq executing(p)',
         \A k \in Jobs : waits(k)' /\ canBeStarted(job'[k]) /\ job'[k].Pipeline = p =>
           waits(k) /\ canBeStarted(job[k]) /\ job[k].Pipeline = p
  PROVE  conserving(p)'
<1>1. concurrency(p) \in Int /\ Cardinality(executing(p)) \in Nat
  BY CountTypes
<1>2. concurrency(p)' \in Int
  BY DEF RunnerInv, TypeOK, PipelinesDef, PipelineDef, concurrency
<1>3. IsFiniteSet(executing(p)') /\ Cardinality(executing(p)') \in Nat
  <2>1. executing(p)' \in SUBSET Jobs
    BY DEF executing
  <2> QED
    BY <2>1, JobSetsFinite
<1>4. Cardinality(executing(p)) <= Cardinality(executing(p)')
  BY <1>3, FS_Subset
<1> SUFFICES ASSUME NEW k \in Jobs, waits(k)', canBeStarted(job'[k]), job'[k].Pipeline = p
             PROVE  Cardinality(executing(p)') >= concurrency(p)'
  BY DEF conserving
<1>5. Cardinality(executing(p)) >= concurrency(p)
  BY DEF conserving
<1> QED
  BY <1>1, <1>2, <1>3, <1>4, <1>5

\* A step after which the jobs of p wait and execute as before.
LEMMA ConservingIdle ==
  ASSUME RunnerInv, RunnerInv', NEW p \in Pipelines, conserving(p),
         concurrency(p)' <= concurrency(p),
         \A k \in Jobs : /\ sameJob(job'[k], job[k])
                         /\ job[k].Pipeline = p => idles(k)
  PROVE  conserving(p)'
<1>1. executing(p) \subseteq executing(p)'
  BY DEF executing, idles, sameJob
<1>2. \A k \in Jobs : waits(k)' /\ canBeStarted(job'[k]) /\ job'[k].Pipeline = p =>
        waits(k) /\ canBeStarted(job[k]) /\ job[k].Pipeline = p
  BY DEF idles, sameJob
<1> QED
  BY <1>1, <1>2, ConservingKept

\* A look at p that finds no free slot.
LEMMA LookConserves ==
  ASSUME RunnerInv, RunnerInv', NEW p \in Pipelines, LooksAt(p),
         freeSlots(p, job', jobsByID) <= 0
  PROVE  conserving(p)'
<1>1. jobsByID \subseteq Jobs /\ jobsByID' = jobsByID /\ UNCHANGED defs
  BY DEF RunnerInv, TypeOK, LooksAt
<1>2. executing(p)' = runningJobs(p, job', jobsByID)
  BY <1>1 DEF executing, runningJobs, RunnerInv, CountsWhatRuns, alive
<1>3. Cardinality(executing(p)') \in Nat
  BY JobSetsFinite DEF executing
<1>4. concurrency(p) \in Int /\ concurrency(p)' = concurrency(p)
  BY <1>1, CountTypes DEF concurrency
<1>5. Cardinality(executing(p)') >= concurrency(p)'
  BY <1>2, <1>3, <1>4 DEF freeSlots
<1> QED
  BY <1>5 DEF conserving

(***************************************************************************)
(* startJobsOnWaitList returns with its list used up: it kept no job that  *)
(* could have been started, or the last free slot is taken.                *)
(***************************************************************************)
LEMMA ReturnConserves ==
  ASSUME WaitListInv, NEW p \in Pipelines, ~mutexFree, Head(calls).pipeline = p,
         Head(calls).todo = <<>>
  PROVE  conserving(p)
<1>0. RunnerInv /\ KeptOK
  BY DEF WaitListInv
<1>1. /\ Head(calls).kept \in Seq(Jobs)
      /\ queue(p) = Head(calls).kept \o Head(calls).todo
  BY <1>0, LoopState
<1>2. queue(p) = Head(calls).kept
  BY <1>1, ConcatEmptySeq
<1> SUFFICES ASSUME NEW j \in Jobs, waits(j), canBeStarted(job[j]), job[j].Pipeline = p
             PROVE  Cardinality(executing(p)) >= concurrency(p)
  BY DEF conserving
<1>3. PICK i \in DOMAIN queue(p) : queue(p)[i] = j
  BY <1>0 DEF RunnerInv, QueuesComplete
<1>4. Head(calls).freeSlots = 0
  BY <1>0, <1>2, <1>3 DEF KeptOK
<1>5. Cardinality(executing(p)) + Head(calls).freeSlots = concurrency(p)
  BY <1>0 DEF RunnerInv, SlotsOK
<1> QED
  BY <1>0, <1>4, <1>5, CountTypes

\* ScheduleAsync queues a job that could be started only if there is no free slot.
LEMMA ScheduleConserves ==
  ASSUME WellBehaved, WaitListInv, RunnerInv', OthersConserving, Schedules, NEW r \in Pipelines,
         concurrency(r)' <= concurrency(r)
  PROVE  conserving(r)'
<1>0. RunnerInv
  BY DEF WaitListInv
<1>1. PICK p \in Pipelines, j \in Jobs, n \in PipelineJob :
        Joins(p, j, n) /\ (StartsNow(p, j) \/ WaitsInLine(p, j, n))
  BY <1>0, ScheduleMove
<1>2. /\ mutexFree /\ ~created(job[j]) /\ n.Pipeline = p /\ sameJob(job'[j], n)
      /\ conserving(r) /\ ~alive(j)
  <2>1. mutexFree /\ ~created(job[j]) /\ n.Pipeline = p /\ sameJob(job'[j], n)
    BY <1>1 DEF Joins
  <2> QED
    BY <1>0, <2>1, UnusedJob DEF OthersConserving
<1>3. CASE StartsNow(p, j)
  <2>1. executing(r) \subseteq executing(r)'
    BY <1>2, <1>3 DEF StartsNow, executing
  <2>2. \A k \in Jobs : waits(k)' /\ canBeStarted(job'[k]) /\ job'[k].Pipeline = r =>
          waits(k) /\ canBeStarted(job[k]) /\ job[k].Pipeline = r
    BY <1>3 DEF StartsNow, waits
  <2> QED
    BY <1>0, <1>2, <2>1, <2>2, ConservingKept
<1>4. CASE WaitsInLine(p, j, n)
  <2> DEFINE partitionOf == [k \in Jobs |-> [job EXCEPT ![j] = n][k].queuePartition]
             replaced    == replacedJobs(defs[p], waitListByPipeline[p], partitionOf, j)
  <2>1. /\ job'[j] = n /\ UNCHANGED goroutine
        /\ \A k \in Jobs : k # j =>
             job'[k] = IF k \in replaced
                       THEN [job[k] EXCEPT !.Canceled = TRUE, !.startTimer = FALSE]
                       ELSE job[k]
    BY <1>4 DEF WaitsInLine, Enqueued
  <2> HIDE DEF replaced
  <2>2. ASSUME NEW k \in Jobs, k # j
        PROVE  sameJob(job'[k], job[k]) /\ (job'[k] = job[k] \/ job'[k].Canceled)
    <3> DEFINE u == [job[k] EXCEPT !.Canceled = TRUE, !.startTimer = FALSE]
    <3>1. sameJob(u, job[k]) /\ u.Canceled /\ sameJob(job[k], job[k])
      BY <1>0 DEF RunnerInv, TypeOK, PipelineJob, sameJob
    <3>2. job'[k] = u \/ job'[k] = job[k]
      BY <2>1, <2>2
    <3> HIDE DEF u
    <3> QED
      BY <3>1, <3>2
  <2>3. executing(r)' = executing(r)
    BY <1>2, <2>1, <2>2 DEF executing, alive, sameJob
  <2>4. ASSUME NEW k \in Jobs, k # j, waits(k)', canBeStarted(job'[k]), job'[k].Pipeline = r
        PROVE  waits(k) /\ canBeStarted(job[k]) /\ job[k].Pipeline = r
    BY <2>2, <2>4 DEF waits
  <2>5. CASE r = p /\ canBeStarted(n)
    <3>1. Cardinality(executing(p)) >= concurrency(p)
      BY <1>4, <2>5 DEF WaitsInLine
    <3>2. UNCHANGED defs
      BY <1>1 DEF Joins
    <3> QED
      BY <2>3, <2>5, <3>1, <3>2 DEF conserving, concurrency
  <2>6. CASE ~(r = p /\ canBeStarted(n))
    <3>1. \A k \in Jobs : waits(k)' /\ canBeStarted(job'[k]) /\ job'[k].Pipeline = r =>
            waits(k) /\ canBeStarted(job[k]) /\ job[k].Pipeline = r
      BY <1>2, <2>1, <2>4, <2>6
    <3> QED
      BY <1>0, <1>2, <2>3, <3>1, ConservingKept
  <2> QED
    BY <2>5, <2>6
<1> QED
  BY <1>1, <1>3, <1>4

\* No step but a reload can leave a free slot to a startable job.
LEMMA NextConserving ==
  ASSUME WellBehaved, WaitListInv, OthersConserving, [Next]_vars,
         \A p \in Pipelines : concurrency(p)' <= concurrency(p)
  PROVE  OthersConserving'
<1>0. RunnerInv /\ RunnerInv' /\ Move
  BY StepHasMove, NextInv DEF WaitListInv
<1> SUFFICES ASSUME NEW p \in Pipelines, mutexFree' \/ Head(calls').pipeline # p
             PROVE  conserving(p)'
  BY DEF OthersConserving, mutexFree
<1>1. concurrency(p)' <= concurrency(p)
  OBVIOUS
<1>2. CASE LeavesLists
  <2>1. conserving(p)
    BY <1>2 DEF LeavesLists, OthersConserving, mutexFree
  <2> QED
    BY <1>0, <1>1, <1>2, <2>1, ConservingIdle DEF LeavesLists, idles
<1>3. ASSUME NEW r \in Pipelines, LooksAt(r) PROVE conserving(p)'
  <2>1. conserving(p)
    BY <1>3 DEF LooksAt, OthersConserving
  <2>2. CASE p = r
    <3>1. freeSlots(p, job', jobsByID) <= 0
      BY <1>0, <1>3, <2>2, LooksMove DEF mutexFree
    <3> QED
      BY <1>0, <1>3, <2>2, <3>1, LookConserves
  <2>3. CASE p # r
    BY <1>0, <1>1, <1>3, <2>1, <2>3, ConservingIdle DEF LooksAt
  <2> QED
    BY <2>2, <2>3
<1>4. CASE Schedules
  BY <1>0, <1>1, <1>4, ScheduleConserves
<1>5. CASE WaitListStart
  <2>1. PICK P \in Pipelines, j \in Jobs :
          /\ ~mutexFree /\ calls' # <<>>
          /\ Head(calls).pipeline = P /\ Head(calls').pipeline = P /\ job[j].Pipeline = P
          /\ \A k \in Jobs : k # j => job'[k] = job[k]
          /\ sameJob(job'[j], job[j])
          /\ \A k \in Jobs : alive(k)' <=> (alive(k) \/ k = j)
    BY <1>0, <1>5, StartMove
  <2>2. p # P /\ conserving(p)
    BY <2>1 DEF mutexFree, OthersConserving
  <2>3. \A k \in Jobs : sameJob(job'[k], job[k]) /\ (job[k].Pipeline = p => idles(k))
    BY <2>1, <2>2, IdlesIfSame DEF sameJob
  <2> QED
    BY <1>0, <1>1, <2>2, <2>3, ConservingIdle
<1>6. CASE WaitListKeep \/ WaitListReturn
  <2>1. \A k \in Jobs : sameJob(job'[k], job[k]) /\ idles(k)
    BY <1>6, IdlesIfSame DEF WaitListKeep, WaitListReturn, jobVars, runVars, alive, sameJob
  <2>2. conserving(p)
    <3>1. CASE WaitListKeep
      <4>1. ~mutexFree /\ calls' # <<>> /\ Head(calls').pipeline = Head(calls).pipeline
        BY <1>0, <3>1, KeepMove
      <4> QED
        BY <4>1 DEF mutexFree, OthersConserving
    <3>2. CASE WaitListReturn
      <4>1. ~mutexFree /\ Head(calls).todo = <<>>
        BY <3>2 DEF WaitListReturn
      <4> QED
        BY <4>1, ReturnConserves DEF OthersConserving
    <3> QED
      BY <1>6, <3>1, <3>2
  <2> QED
    BY <1>0, <1>1, <2>1, <2>2, ConservingIdle
<1>7. CASE ShutdownBegins
  <2>1. \A k \in Jobs : ~waits(k)'
    BY <1>0, <1>7, ShutdownMove
  <2> QED
    BY <2>1 DEF conserving
<1> QED
  BY <1>0, <1>2, <1>3, <1>4, <1>5, <1>6, <1>7 DEF Move

\* The step of ConcurrencyNotRaised.
NotRaised == \A p \in Pipelines : concurrency(p)' <= concurrency(p)

LEMMA StepNotRaised ==
  ASSUME RunnerInv, [NotRaised]_vars
  PROVE  \A p \in Pipelines : concurrency(p)' <= concurrency(p)
<1>1. CASE UNCHANGED vars
  BY <1>1, CountTypes DEF vars, concurrency
<1> QED
  BY <1>1 DEF NotRaised

\* Between two handlers and inside the loop: the lists are in order, the slots used.
LEMMA ConservingInvariant ==
  ASSUME WellBehaved
  PROVE  Spec /\ ConcurrencyNotRaised => [](WaitListInv /\ OthersConserving)
<1>1. Init => WaitListInv /\ OthersConserving
  <2> SUFFICES ASSUME Init PROVE OthersConserving
    BY InitOrder
  <2>1. \A j \in Jobs : job[j] = noJob /\ ~created(noJob)
    BY DEF Init, noJob, created
  <2> QED
    BY <2>1 DEF OthersConserving, conserving, waits
<1>2. WaitListInv /\ OthersConserving /\ [Next]_vars /\ [NotRaised]_vars
        => WaitListInv' /\ OthersConserving'
  BY NextOrder, NextConserving, StepNotRaised DEF WaitListInv
<1> QED
  BY <1>1, <1>2, PTL DEF Spec, ConcurrencyNotRaised, NotRaised

(***************************************************************************)
(* Between two handlers no startable job waits while its pipeline has a    *)
(* free slot: JobCompleted, StartDelayedJob and ScheduleAsync look at the  *)
(* right moments.  A reload that raises a concurrency is excluded:         *)
(* ReplaceDefinitions starts nothing.                                      *)
(***************************************************************************)
THEOREM WorkIsConserved == WellBehaved => (Spec /\ ConcurrencyNotRaised => []WorkConserving)
<1> SUFFICES ASSUME WellBehaved PROVE Spec /\ ConcurrencyNotRaised => []WorkConserving
  OBVIOUS
<1>1. WaitListInv /\ OthersConserving => WorkConserving
  <2> SUFFICES ASSUME RunnerInv, OthersConserving, mutexFree,
                      NEW j \in Jobs, waits(j), canBeStarted(job[j])
               PROVE  Cardinality(executing(job[j].Pipeline)) >= concurrency(job[j].Pipeline)
    BY DEF WaitListInv, WorkConserving
  <2>1. PICK p \in Pipelines : p = job[j].Pipeline
    BY DEF RunnerInv, TypeOK, PipelineJob
  <2> QED
    BY <2>1 DEF OthersConserving, conserving
<1> QED
  BY <1>1, ConservingInvariant, PTL

\* The step of StartsInOrder.
FirstInLine ==
  \A j, k \in Jobs :
    /\ ~alive(j) /\ alive(j)'
    /\ job[k].Pipeline = job'[j].Pipeline
    /\ waits(k) /\ canBeStarted(job[k])
    /\ waits(k)'
    => job[k].Created > job'[j].Created

LEMMA StepStartsFirst ==
  ASSUME WellBehaved, WaitListInv, OthersConserving, [Next]_vars
  PROVE  FirstInLine
<1>0. RunnerInv /\ KeptOK /\ QueuesOrdered /\ \A p \in Pipelines : queue(p) \in Seq(Jobs)
  BY QueueType DEF WaitListInv, RunnerInv
<1>1. Move
  BY <1>0, StepHasMove
<1> SUFFICES ASSUME NEW j \in Jobs, NEW k \in Jobs, ~alive(j), alive(j)',
                    job[k].Pipeline = job'[j].Pipeline,
                    waits(k), canBeStarted(job[k]), waits(k)'
             PROVE  job[k].Created > job'[j].Created
  BY DEF FirstInLine
<1>2. CASE Schedules
  <2>1. PICK p \in Pipelines, i \in Jobs, n \in PipelineJob :
          Joins(p, i, n) /\ (StartsNow(p, i) \/ WaitsInLine(p, i, n))
    BY <1>0, <1>2, ScheduleMove
  <2>2. CASE WaitsInLine(p, i, n)
    BY <2>2 DEF WaitsInLine, Enqueued, alive
  <2>3. CASE StartsNow(p, i)
    <3>1. i = j /\ Cardinality(executing(p)) < concurrency(p)
      BY <2>3 DEF StartsNow
    <3>2. mutexFree /\ job[k].Pipeline = p
      BY <2>1, <3>1 DEF Joins, sameJob
    <3>3. Cardinality(executing(p)) >= concurrency(p)
      BY <3>2 DEF OthersConserving, conserving
    <3> QED
      BY <1>0, <3>1, <3>3, CountTypes
  <2> QED
    BY <2>1, <2>2, <2>3
<1>3. CASE WaitListStart
  <2> DEFINE top == Head(calls)
             pos == Len(top.kept) + 1
  <2>1. PICK P \in Pipelines, i \in Jobs :
          /\ ~mutexFree /\ top.freeSlots \in Int /\ top.freeSlots > 0
          /\ top.kept \in Seq(Jobs)
          /\ pos \in 1 .. Len(queue(P)) /\ queue(P) = top.kept \o top.todo
          /\ queue(P)[pos] = i /\ job[i].Pipeline = P
          /\ sameJob(job'[i], job[i]) /\ job'[i].Start
          /\ \A m \in Jobs : alive(m)' <=> (alive(m) \/ m = i)
    BY <1>0, <1>3, StartMove
  <2>2. i = j /\ k # j /\ job[k].Pipeline = P
    BY <2>1 DEF waits, sameJob
  <2>3. PICK m \in DOMAIN queue(P) : queue(P)[m] = k
    BY <1>0, <2>2 DEF RunnerInv, QueuesComplete
  <2>4. /\ top.todo \in Seq(Jobs) /\ DOMAIN queue(P) = 1 .. Len(queue(P))
        /\ Len(top.kept) \in Nat /\ DOMAIN top.kept = 1 .. Len(top.kept)
    BY <1>0, <2>1, LoopState
  <2>5. m > pos
    <3>1. m # pos
      BY <2>1, <2>2, <2>3
    <3>2. ASSUME m < pos PROVE FALSE
      <4>1. m \in 1 .. Len(top.kept)
        BY <2>3, <2>4, <3>2
      <4>2. queue(P)[m] = top.kept[m]
        BY <2>1, <2>4, <4>1, ConcatProperties
      <4>3. ~canBeStarted(job[top.kept[m]])
        BY <1>0, <2>1, <2>4, <4>1 DEF KeptOK
      <4> QED
        BY <2>3, <4>2, <4>3
    <3> QED
      BY <2>3, <2>4, <3>1, <3>2
  <2>6. ordered(queue(P), job) /\ pos \in DOMAIN queue(P)
    BY <1>0, <2>1, <2>4 DEF QueuesOrdered
  <2>7. job[queue(P)[pos]].Created < job[queue(P)[m]].Created
    BY <2>3, <2>5, <2>6 DEF ordered
  <2>8. job[j].Created < job[k].Created /\ job'[j].Created = job[j].Created
    BY <2>1, <2>2, <2>3, <2>7 DEF sameJob
  <2> QED
    BY <1>0, <2>8 DEF RunnerInv, TypeOK, PipelineJob
<1>4. CASE LeavesLists \/ \E p \in Pipelines : LooksAt(p)
  BY <1>4 DEF LeavesLists, LooksAt, idles
<1>5. CASE WaitListKeep \/ WaitListReturn
  BY <1>5 DEF WaitListKeep, WaitListReturn, runVars, alive
<1>6. CASE ShutdownBegins
  BY <1>0, <1>6, ShutdownMove
<1> QED
  BY <1>1, <1>2, <1>3, <1>4, <1>5, <1>6 DEF Move

(***************************************************************************)
(* First come, first served: the loop starts the first startable job of    *)
(* its list, and ScheduleAsync starts a new job only if none waits that    *)
(* could have been started.                                                *)
(***************************************************************************)
THEOREM StartsAreInOrder == WellBehaved => (Spec /\ ConcurrencyNotRaised => StartsInOrder)
<1> SUFFICES ASSUME WellBehaved PROVE Spec /\ ConcurrencyNotRaised => StartsInOrder
  OBVIOUS
<1>1. Spec /\ ConcurrencyNotRaised => [](WaitListInv /\ OthersConserving)
  BY ConservingInvariant
<1>2. WaitListInv /\ OthersConserving /\ [Next]_vars => [FirstInLine]_vars
  BY StepStartsFirst
<1> QED
  BY <1>1, <1>2, PTL DEF Spec, StartsInOrder, FirstInLine

-----------------------------------------------------------------------------
(***************************************************************************)
(* Wait lists within their limits.                                         *)
(***************************************************************************)

\* A partition holds finitely many slots.
LEMMA SlotsFinite ==
  ASSUME NEW s \in Seq(Jobs), NEW partitionOf, NEW q
  PROVE  /\ partitionSlots(s, partitionOf, q) \in SUBSET (1 .. Len(s))
         /\ IsFiniteSet(partitionSlots(s, partitionOf, q))
         /\ Cardinality(partitionSlots(s, partitionOf, q)) \in Nat
<1> DEFINE S == partitionSlots(s, partitionOf, q)
<1>1. S \in SUBSET (1 .. Len(s)) /\ Len(s) \in Nat
  BY DEF partitionSlots
<1> HIDE DEF S
<1>2. IsFiniteSet(1 .. Len(s))
  BY <1>1, FS_Interval
<1>3. IsFiniteSet(S)
  BY <1>1, <1>2, FS_Subset
<1>4. Cardinality(S) \in Nat
  BY <1>3, FS_CardinalityType
<1> QED
  BY <1>1, <1>3, <1>4 DEF S

\* A list without its i-th job has no more slots of any partition than are left.
LEMMA RemoveAtSlots ==
  ASSUME NEW s \in Seq(Jobs), NEW i \in 1 .. Len(s), NEW partitionOf, NEW q
  PROVE  LET n == Cardinality(partitionSlots(RemoveAt(s, i), partitionOf, q))
             m == Cardinality(partitionSlots(s, partitionOf, q))
         IN  n <= m /\ (partitionOf[s[i]] = q => n < m)
<1> DEFINE r     == RemoveAt(s, i)
           A     == partitionSlots(r, partitionOf, q)
           B     == partitionSlots(s, partitionOf, q)
           at(k) == IF k < i THEN k ELSE k + 1
           f     == [k \in A |-> at(k)]
<1>1. /\ r \in Seq(Jobs) /\ Len(r) = Len(s) - 1
      /\ \A k \in 1 .. Len(s) - 1 : r[k] = IF k < i THEN s[k] ELSE s[k + 1]
  BY RemoveAtPositions
<1>2. A \in SUBSET (1 .. Len(r)) /\ Cardinality(A) \in Nat
  BY <1>1, SlotsFinite
<1>3. B \in SUBSET (1 .. Len(s)) /\ IsFiniteSet(B) /\ Cardinality(B) \in Nat
  BY SlotsFinite
<1>4. \A k \in A : k \in 1 .. Len(s) - 1 /\ partitionOf[r[k]] = q
  BY <1>1, <1>2 DEF partitionSlots
<1>5. \A k \in 1 .. Len(s) : k \in B <=> partitionOf[s[k]] = q
  BY DEF partitionSlots
<1> HIDE DEF A, B, r
<1>6. \A k \in A : at(k) \in B \ {i}
  <2> TAKE k \in A
  <2>1. at(k) \in 1 .. Len(s) /\ at(k) # i /\ r[k] = s[at(k)]
    BY <1>1, <1>4
  <2> HIDE DEF at
  <2> QED
    BY <1>4, <1>5, <2>1
<1>7. \A k, m \in A : at(k) = at(m) => k = m
  BY <1>4
<1> HIDE DEF at
<1>8. f \in Injection(A, B \ {i})
  BY <1>6, <1>7 DEF Injection, IsInjective
<1>9. /\ IsFiniteSet(B \ {i})
      /\ Cardinality(B \ {i}) = IF i \in B THEN Cardinality(B) - 1 ELSE Cardinality(B)
  BY <1>3, FS_RemoveElement
<1>10. Cardinality(A) <= Cardinality(B \ {i})
  BY <1>8, <1>9, FS_Injection
<1>11. Cardinality(A) <= Cardinality(B) /\ (i \in B => Cardinality(A) < Cardinality(B))
  BY <1>2, <1>3, <1>9, <1>10
<1> QED
  BY <1>5, <1>11 DEF A, B, r

\* A job at the end of a list takes one slot, of its own partition.
LEMMA AppendSlots ==
  ASSUME NEW s \in Seq(Jobs), NEW e \in Jobs, NEW partitionOf, NEW q
  PROVE  LET n == Cardinality(partitionSlots(Append(s, e), partitionOf, q))
             m == Cardinality(partitionSlots(s, partitionOf, q))
         IN  n <= m + 1 /\ (partitionOf[e] # q => n <= m)
<1> DEFINE r == Append(s, e)
           l == Len(s) + 1
           A == partitionSlots(r, partitionOf, q)
           B == partitionSlots(s, partitionOf, q)
<1>1. /\ Len(s) \in Nat /\ DOMAIN s = 1 .. Len(s) /\ DOMAIN r = 1 .. l
      /\ r[l] = e /\ \A k \in 1 .. Len(s) : r[k] = s[k]
  BY AppendProperties
<1>2. IsFiniteSet(B) /\ Cardinality(B) \in Nat
  BY SlotsFinite
<1>3. A \subseteq B \cup {l} /\ (partitionOf[e] # q => A \subseteq B)
  <2> HIDE DEF r
  <2> QED
    BY <1>1 DEF partitionSlots
<1> HIDE DEF A, B, l
<1>4. IsFiniteSet(B \cup {l}) /\ Cardinality(B \cup {l}) <= Cardinality(B) + 1
  <2>1. /\ IsFiniteSet(B \cup {l})
        /\ Cardinality(B \cup {l}) = IF l \in B THEN Cardinality(B) ELSE Cardinality(B) + 1
    BY <1>2, FS_AddElement
  <2> QED
    BY <1>2, <2>1
<1>5. Cardinality(A) <= Cardinality(B \cup {l}) /\ IsFiniteSet(A)
  BY <1>3, <1>4, FS_Subset
<1>6. partitionOf[e] # q => Cardinality(A) <= Cardinality(B)
  BY <1>2, <1>3, FS_Subset
<1>7. Cardinality(A) \in Nat /\ Cardinality(B \cup {l}) \in Nat
  BY <1>4, <1>5, FS_CardinalityType
<1>8. Cardinality(A) <= Cardinality(B) + 1
  BY <1>2, <1>4, <1>5, <1>7
<1> QED
  BY <1>6, <1>8 DEF A, B

\* A list stays within limits that are not lowered, as long as its jobs keep their partition.
LEMMA WithinKept ==
  ASSUME NEW s \in Seq(Jobs), NEW old \in PipelineDef, NEW new \in PipelineDef,
         NEW po, NEW po2, withinLimits(old, s, po),
         \A i \in DOMAIN s : po2[s[i]] = po[s[i]],
         notLowered(new.QueueLimit, old.QueueLimit),
         notLowered(new.QueuePartitionLimit, old.QueuePartitionLimit)
  PROVE  withinLimits(new, s, po2)
<1>1. /\ old.QueueLimit \in Int \cup {NoLimit} /\ new.QueueLimit \in Int \cup {NoLimit}
      /\ old.QueuePartitionLimit \in Int \cup {NoLimit}
      /\ new.QueuePartitionLimit \in Int \cup {NoLimit}
  BY DEF PipelineDef
<1>2. new.QueueLimit # NoLimit => Len(s) <= new.QueueLimit
  <2>1. Len(s) \in Nat
    OBVIOUS
  <2> QED
    BY <1>1, <2>1 DEF withinLimits, notLowered
<1>3. ASSUME new.QueuePartitionLimit # NoLimit, NEW q \in Partitions
      PROVE  Cardinality(partitionSlots(s, po2, q)) <= new.QueuePartitionLimit
  <2>1. partitionSlots(s, po2, q) = partitionSlots(s, po, q)
    BY DEF partitionSlots
  <2>2. old.QueuePartitionLimit # NoLimit /\ new.QueuePartitionLimit >= old.QueuePartitionLimit
    BY <1>3 DEF notLowered
  <2>3. Cardinality(partitionSlots(s, po, q)) <= old.QueuePartitionLimit
    BY <2>2 DEF withinLimits
  <2>4. Cardinality(partitionSlots(s, po, q)) \in Nat
    BY SlotsFinite
  <2> QED
    BY <1>1, <1>3, <2>1, <2>2, <2>3, <2>4
<1> QED
  BY <1>2, <1>3 DEF withinLimits

\* Taking a job out keeps a list within its limits.
LEMMA RemoveAtWithin ==
  ASSUME NEW def \in PipelineDef, NEW s \in Seq(Jobs), NEW i \in 1 .. Len(s), NEW partitionOf,
         withinLimits(def, s, partitionOf)
  PROVE  withinLimits(def, RemoveAt(s, i), partitionOf)
<1> DEFINE r == RemoveAt(s, i)
<1>1. r \in Seq(Jobs) /\ Len(r) = Len(s) - 1 /\ Len(s) \in Nat
  BY RemoveAtPositions
<1>2. /\ def.QueueLimit \in Int \cup {NoLimit}
      /\ def.QueuePartitionLimit \in Int \cup {NoLimit}
  BY DEF PipelineDef
<1>3. def.QueueLimit # NoLimit => Len(r) <= def.QueueLimit
  BY <1>1, <1>2 DEF withinLimits
<1>4. ASSUME def.QueuePartitionLimit # NoLimit, NEW q \in Partitions
      PROVE  Cardinality(partitionSlots(r, partitionOf, q)) <= def.QueuePartitionLimit
  <2>1. Cardinality(partitionSlots(r, partitionOf, q)) <= Cardinality(partitionSlots(s, partitionOf, q))
    BY RemoveAtSlots
  <2>2. Cardinality(partitionSlots(s, partitionOf, q)) <= def.QueuePartitionLimit
    BY <1>4 DEF withinLimits
  <2> HIDE DEF r
  <2>3. /\ Cardinality(partitionSlots(r, partitionOf, q)) \in Nat
        /\ Cardinality(partitionSlots(s, partitionOf, q)) \in Nat
    BY <1>1, SlotsFinite
  <2> QED
    BY <1>2, <1>4, <2>1, <2>2, <2>3
<1> QED
  BY <1>3, <1>4 DEF withinLimits

(***************************************************************************)
(* modifyWaitList keeps a list within its limits if canAcceptJob accepted  *)
(* the job: append has room, replace gives up the last slot of a full      *)
(* list, partitioned_replace the last one of a full partition.             *)
(***************************************************************************)
LEMMA ModifyWaitListWithin ==
  ASSUME NEW def \in PipelineDef, validate(def), ~modifyPanics(def),
         NEW wl \in Seq(Jobs), NEW partitionOf, NEW j \in Jobs,
         canAcceptJob(def, wl) = "nil", withinLimits(def, wl, partitionOf)
  PROVE  withinLimits(def, modifyWaitList(def, wl, partitionOf, j), partitionOf)
<1>0. PICK slot : slot = replacedSlot(def, wl, partitionOf, j)
  OBVIOUS
<1>1. /\ def.QueueLimit \in Int \cup {NoLimit} /\ def.QueuePartitionLimit \in Int \cup {NoLimit}
      /\ Len(wl) \in Nat /\ def.QueueStrategy \in QueueStrategies
      /\ Append(wl, j) \in Seq(Jobs) /\ Len(Append(wl, j)) = Len(wl) + 1
  BY DEF PipelineDef
<1>2. slot # 0 => /\ slot \in 1 .. Len(wl)
                  /\ def.QueueStrategy = "replace" => slot = Len(wl)
                  /\ def.QueueStrategy = "partitioned_replace" =>
                       partitionOf[wl[slot]] = partitionOf[j]
  <2>1. DOMAIN wl = 1 .. Len(wl)
    OBVIOUS
  <2> QED
    BY <1>0, <2>1, ReplacedSlotLast
<1>3. CASE def.QueueStrategy = "append"
  <2>1. def.QueuePartitionLimit = NoLimit
    BY <1>3 DEF validate
  <2>2. slot = 0 /\ modifyWaitList(def, wl, partitionOf, j) = Append(wl, j)
    BY <1>0, <1>3 DEF replacedSlot, modifyWaitList
  <2>3. def.QueueLimit # NoLimit => Len(wl) < def.QueueLimit
    BY <1>1, <1>3 DEF canAcceptJob
  <2> QED
    BY <1>1, <2>1, <2>2, <2>3 DEF withinLimits
<1>4. CASE def.QueueStrategy = "replace"
  <2>1. def.QueuePartitionLimit = NoLimit /\ def.QueueLimit # NoLimit
    BY <1>4 DEF validate, modifyPanics
  <2>2. CASE slot = 0
    <3>1. modifyWaitList(def, wl, partitionOf, j) = Append(wl, j)
      BY <1>0, <2>2 DEF modifyWaitList
    <3>2. Len(wl) < def.QueueLimit
      <4>1. Len(wl) >= def.QueueLimit => slot = Len(wl)
        BY <1>0, <1>4 DEF replacedSlot
      <4>2. def.QueueLimit >= 0 /\ def.QueueLimit # 0
        BY <1>4, <2>1 DEF validate, canAcceptJob
      <4> QED
        BY <1>1, <2>1, <2>2, <4>1, <4>2
    <3> QED
      BY <1>1, <2>1, <3>1, <3>2 DEF withinLimits
  <2>3. CASE slot # 0
    <3>1. modifyWaitList(def, wl, partitionOf, j) = ReplaceAt(wl, slot, j)
      BY <1>0, <1>4, <2>3 DEF modifyWaitList
    <3>2. Len(ReplaceAt(wl, slot, j)) = Len(wl)
      BY <1>2, <2>3 DEF ReplaceAt
    <3>3. Len(wl) <= def.QueueLimit
      BY <2>1 DEF withinLimits
    <3> QED
      BY <2>1, <3>1, <3>2, <3>3 DEF withinLimits
  <2> QED
    BY <2>2, <2>3
<1>5. CASE def.QueueStrategy = "partitioned_replace"
  <2> DEFINE limit    == def.QueuePartitionLimit
             r        == RemoveAt(wl, slot)
             s        == IF slot = 0 THEN wl ELSE r
             count(t, q) == Cardinality(partitionSlots(t, partitionOf, q))
  <2>1. def.QueueLimit = NoLimit /\ limit # NoLimit /\ limit \in Int
    BY <1>1, <1>5 DEF validate
  <2>2. modifyWaitList(def, wl, partitionOf, j) = Append(s, j)
    BY <1>0, <1>5 DEF modifyWaitList
  <2>3. slot # 0 => r \in Seq(Jobs)
    BY <1>2, RemoveAtPositions
  <2>4. s \in Seq(Jobs)
    BY <2>3
  <2>5. ASSUME NEW q \in Partitions
        PROVE  count(s, q) <= limit /\ (partitionOf[j] = q => count(s, q) < limit)
    <3>1. count(wl, q) <= limit /\ count(wl, q) \in Nat
      BY <2>1, SlotsFinite DEF withinLimits
    <3>2. CASE slot = 0
      <4>1. partitionOf[j] = q => ~(count(wl, q) >= limit)
        <5> SUFFICES ASSUME partitionOf[j] = q, count(wl, q) >= limit PROVE FALSE
          OBVIOUS
        <5>1. slot = Max(partitionSlots(wl, partitionOf, q))
          BY <1>0, <1>5 DEF replacedSlot
        <5>2. partitionSlots(wl, partitionOf, q) # {}
          <6>1. limit >= 1
            BY <1>5 DEF validate
          <6>2. count(wl, q) # 0
            BY <2>1, <3>1, <6>1
          <6> QED
            BY <6>2, FS_EmptySet
        <5>3. partitionSlots(wl, partitionOf, q) \in SUBSET (1 .. Len(wl))
          BY SlotsFinite
        <5>4. Max(partitionSlots(wl, partitionOf, q)) \in 1 .. Len(wl)
          BY <1>1, <5>2, <5>3, MaxOfPositions
        <5> QED
          BY <3>2, <5>1, <5>4
      <4>2. s = wl
        BY <3>2
      <4> HIDE DEF s, limit, count
      <4> QED
        BY <2>1, <3>1, <4>1, <4>2
    <3>3. CASE slot # 0
      <4>1. slot \in 1 .. Len(wl) /\ partitionOf[wl[slot]] = partitionOf[j]
        BY <1>2, <1>5, <3>3
      <4>2. count(r, q) <= count(wl, q) /\ (partitionOf[j] = q => count(r, q) < count(wl, q))
        BY <4>1, RemoveAtSlots
      <4>3. count(s, q) \in Nat
        BY <2>4, SlotsFinite
      <4>4. s = r
        BY <3>3
      <4> HIDE DEF s, r, limit, count
      <4> QED
        BY <2>1, <3>1, <4>2, <4>3, <4>4
    <3> QED
      BY <3>2, <3>3
  <2> HIDE DEF s
  <2>6. ASSUME NEW q \in Partitions PROVE count(Append(s, j), q) <= limit
    <3>1. /\ count(Append(s, j), q) <= count(s, q) + 1
          /\ partitionOf[j] # q => count(Append(s, j), q) <= count(s, q)
      BY <2>4, AppendSlots
    <3>2. Append(s, j) \in Seq(Jobs)
      BY <2>4
    <3>3. count(s, q) \in Nat /\ count(Append(s, j), q) \in Nat
      BY <2>4, <3>2, SlotsFinite
    <3>4. count(s, q) <= limit /\ (partitionOf[j] = q => count(s, q) < limit)
      BY <2>5
    <3> HIDE DEF limit, count
    <3> QED
      BY <2>1, <3>1, <3>3, <3>4
  <2> QED
    BY <2>1, <2>2, <2>6 DEF withinLimits
<1> QED
  BY <1>1, <1>3, <1>4, <1>5 DEF QueueStrategies

\* The step of LimitsNotLowered.
LimitsKept ==
  \A p \in Pipelines :
    /\ notLowered(defs'[p].QueueLimit, defs[p].QueueLimit)
    /\ notLowered(defs'[p].QueuePartitionLimit, defs[p].QueuePartitionLimit)

\* A list whose jobs keep their partition stays within the limits of its pipeline.
LEMMA ListKept ==
  ASSUME RunnerInv, RunnerInv', LimitsKept, NEW p \in Pipelines, NEW s \in Seq(Jobs),
         withinLimits(defs[p], s, jobPartition),
         \A i \in DOMAIN s : job'[s[i]].queuePartition = job[s[i]].queuePartition
  PROVE  withinLimits(defs'[p], s, jobPartition')
<1>1. defs[p] \in PipelineDef /\ defs'[p] \in PipelineDef
  BY DEF RunnerInv, TypeOK, PipelinesDef, DefinitionsOK
<1>2. PICK po : po = jobPartition
  OBVIOUS
<1>3. PICK po2 : po2 = jobPartition'
  OBVIOUS
<1>4. \A i \in DOMAIN s : po2[s[i]] = po[s[i]]
  <2> TAKE i \in DOMAIN s
  <2>1. s[i] \in Jobs
    OBVIOUS
  <2> QED
    BY <1>2, <1>3, <2>1 DEF jobPartition
<1>5. /\ notLowered(defs'[p].QueueLimit, defs[p].QueueLimit)
      /\ notLowered(defs'[p].QueuePartitionLimit, defs[p].QueuePartitionLimit)
  BY DEF LimitsKept
<1>6. withinLimits(defs'[p], s, po2)
  BY <1>1, <1>2, <1>4, <1>5, WithinKept
<1> QED
  BY <1>3, <1>6

\* Steps that leave every queue as it is, and store none but as it will be written back.
LEMMA BoundedIdle ==
  ASSUME RunnerInv, RunnerInv', LimitsKept, QueuesBounded,
         \A k \in Jobs : sameJob(job'[k], job[k]),
         \A p \in Pipelines : /\ queue(p)' = queue(p)
                              /\ \/ waitListByPipeline'[p] = waitListByPipeline[p]
                                 \/ waitListByPipeline'[p] = queue(p)
  PROVE  QueuesBounded'
<1> SUFFICES ASSUME NEW p \in Pipelines
             PROVE  /\ withinLimits(defs'[p], waitListByPipeline'[p], jobPartition')
                    /\ withinLimits(defs'[p], queue(p)', jobPartition')
  BY DEF QueuesBounded
<1>1. queue(p) \in Seq(Jobs) /\ waitListByPipeline[p] \in Seq(Jobs)
  BY QueueType DEF RunnerInv, TypeOK
<1>2. ASSUME NEW s \in Seq(Jobs), withinLimits(defs[p], s, jobPartition)
      PROVE  withinLimits(defs'[p], s, jobPartition')
  <2>1. \A i \in DOMAIN s : job'[s[i]].queuePartition = job[s[i]].queuePartition
    BY DEF sameJob
  <2> QED
    BY <1>2, <2>1, ListKept
<1>3. /\ withinLimits(defs'[p], queue(p), jobPartition')
      /\ withinLimits(defs'[p], waitListByPipeline[p], jobPartition')
  BY <1>1, <1>2 DEF QueuesBounded
<1> QED
  BY <1>3

\* The empty list is within the limits of every valid definition.
LEMMA EmptyWithin ==
  ASSUME NEW def \in PipelineDef, validate(def), NEW partitionOf
  PROVE  withinLimits(def, <<>>, partitionOf)
<1>1. Len(<<>>) = 0
  OBVIOUS
<1>2. \A q \in Partitions : Cardinality(partitionSlots(<<>>, partitionOf, q)) = 0
  <2> TAKE q \in Partitions
  <2>1. partitionSlots(<<>>, partitionOf, q) = {}
    BY DEF partitionSlots
  <2> QED
    BY <2>1, FS_EmptySet
<1>3. /\ def.QueueLimit # NoLimit => def.QueueLimit >= 0
      /\ def.QueuePartitionLimit # NoLimit => def.QueuePartitionLimit >= 0
  BY DEF validate, PipelineDef
<1> QED
  BY <1>1, <1>2, <1>3 DEF withinLimits

\* WaitListStart shortens one queue.
LEMMA StartBounded ==
  ASSUME RunnerInv, RunnerInv', LimitsKept, QueuesBounded, WaitListStart
  PROVE  QueuesBounded'
<1>1. PICK P \in Pipelines, j \in Jobs :
        LET pos == Len(Head(calls).kept) + 1
        IN  /\ pos \in 1 .. Len(queue(P)) /\ queue(P)' = RemoveAt(queue(P), pos)
            /\ \A p \in Pipelines : p # P => queue(p)' = queue(p)
            /\ \A k \in Jobs : k # j => job'[k] = job[k]
            /\ sameJob(job'[j], job[j])
  BY StartMove
<1>2. \A k \in Jobs : sameJob(job'[k], job[k])
  BY <1>1 DEF sameJob
<1>3. UNCHANGED waitListByPipeline
  BY DEF WaitListStart
<1> SUFFICES ASSUME NEW p \in Pipelines
             PROVE  /\ withinLimits(defs'[p], waitListByPipeline[p], jobPartition')
                    /\ withinLimits(defs'[p], queue(p)', jobPartition')
  BY <1>3 DEF QueuesBounded
<1>4. queue(p) \in Seq(Jobs) /\ waitListByPipeline[p] \in Seq(Jobs)
  BY QueueType DEF RunnerInv, TypeOK
<1>5. ASSUME NEW s \in Seq(Jobs), withinLimits(defs[p], s, jobPartition)
      PROVE  withinLimits(defs'[p], s, jobPartition')
  <2>1. \A i \in DOMAIN s : job'[s[i]].queuePartition = job[s[i]].queuePartition
    BY <1>2 DEF sameJob
  <2> QED
    BY <1>5, <2>1, ListKept
<1>6. /\ withinLimits(defs'[p], queue(p), jobPartition')
      /\ withinLimits(defs'[p], waitListByPipeline[p], jobPartition')
  BY <1>4, <1>5 DEF QueuesBounded
<1>7. CASE p = P
  <2>1. PICK po2 : po2 = jobPartition'
    OBVIOUS
  <2>2. defs'[p] \in PipelineDef
    BY DEF RunnerInv, TypeOK, PipelinesDef, DefinitionsOK
  <2>3. withinLimits(defs'[p], queue(p)', po2)
    BY <1>1, <1>4, <1>6, <1>7, <2>1, <2>2, RemoveAtWithin
  <2> QED
    BY <1>6, <2>1, <2>3
<1> QED
  BY <1>1, <1>6, <1>7

\* ScheduleAsync queues a job only where canAcceptJob and modifyWaitList find room.
LEMMA ScheduleBounded ==
  ASSUME WellBehaved, RunnerInv, RunnerInv', LimitsKept, QueuesBounded, Schedules
  PROVE  QueuesBounded'
<1>1. PICK p \in Pipelines, j \in Jobs, n \in PipelineJob :
        Joins(p, j, n) /\ (StartsNow(p, j) \/ WaitsInLine(p, j, n))
  BY ScheduleMove
<1>2. /\ mutexFree /\ mutexFree' /\ UNCHANGED <<defs, calls>> /\ ~created(job[j])
      /\ canAcceptJob(defs[p], waitListByPipeline[p]) = "nil"
  BY <1>1 DEF Joins, mutexFree
<1>3. \A r \in Pipelines : /\ queue(r) = waitListByPipeline[r] /\ queue(r)' = waitListByPipeline'[r]
                           /\ waitListByPipeline[r] \in Seq(Jobs)
  BY <1>2 DEF queue, RunnerInv, TypeOK
<1>4. \A r \in Pipelines : \A i \in DOMAIN waitListByPipeline[r] :
        waitListByPipeline[r][i] \in Jobs /\ waitListByPipeline[r][i] # j
  BY <1>2, <1>3, UnusedJob
<1> SUFFICES ASSUME NEW r \in Pipelines
             PROVE  withinLimits(defs'[r], waitListByPipeline'[r], jobPartition')
  BY <1>3 DEF QueuesBounded
<1>5. withinLimits(defs[r], waitListByPipeline[r], jobPartition)
  BY DEF QueuesBounded
<1>6. ASSUME \A k \in Jobs : k # j => sameJob(job'[k], job[k])
      PROVE  withinLimits(defs'[r], waitListByPipeline[r], jobPartition')
  <2>1. \A i \in DOMAIN waitListByPipeline[r] :
          job'[waitListByPipeline[r][i]].queuePartition = job[waitListByPipeline[r][i]].queuePartition
    BY <1>4, <1>6 DEF sameJob
  <2> QED
    BY <1>3, <1>5, <2>1, ListKept
<1>7. CASE StartsNow(p, j)
  BY <1>6, <1>7 DEF StartsNow, sameJob
<1>8. CASE WaitsInLine(p, j, n)
  <2> DEFINE wl          == waitListByPipeline[p]
             partitionOf == [k \in Jobs |-> [job EXCEPT ![j] = n][k].queuePartition]
             replaced    == replacedJobs(defs[p], wl, partitionOf, j)
             nl          == modifyWaitList(defs[p], wl, partitionOf, j)
  <2>1. /\ waitListByPipeline'[p] = nl
        /\ \A q \in Pipelines : q # p => waitListByPipeline'[q] = waitListByPipeline[q]
        /\ job'[j] = n
        /\ \A k \in Jobs : k # j =>
             job'[k] = IF k \in replaced
                       THEN [job[k] EXCEPT !.Canceled = TRUE, !.startTimer = FALSE]
                       ELSE job[k]
    BY <1>8 DEF WaitsInLine, Enqueued
  <2>2. /\ defs[p] \in PipelineDef /\ validate(defs[p]) /\ ~modifyPanics(defs[p])
    BY <1>2, EnqueueState
  <2> HIDE DEF replaced
  <2>3. ASSUME NEW k \in Jobs, k # j PROVE sameJob(job'[k], job[k])
    <3> DEFINE u == [job[k] EXCEPT !.Canceled = TRUE, !.startTimer = FALSE]
    <3>1. sameJob(u, job[k]) /\ sameJob(job[k], job[k])
      BY DEF RunnerInv, TypeOK, PipelineJob, sameJob
    <3>2. job'[k] = u \/ job'[k] = job[k]
      BY <2>1, <2>3
    <3> HIDE DEF u
    <3> QED
      BY <3>1, <3>2
  <2>4. withinLimits(defs'[r], waitListByPipeline[r], jobPartition')
    BY <1>6, <2>3
  <2>5. CASE r # p
    BY <2>1, <2>4, <2>5
  <2>6. CASE r = p
    <3>1. partitionOf = jobPartition'
      <4>1. \A k \in Jobs : [job EXCEPT ![j] = n][k].queuePartition = job'[k].queuePartition
        BY <2>1, <2>3 DEF RunnerInv, TypeOK, sameJob
      <4> QED
        BY <4>1 DEF jobPartition
    <3>2. PICK po2 : po2 = jobPartition'
      OBVIOUS
    <3>3. withinLimits(defs[p], wl, po2)
      BY <1>2, <2>4, <2>6, <3>2
    <3>4. wl \in Seq(Jobs)
      BY <1>3
    <3>5. withinLimits(defs[p], modifyWaitList(defs[p], wl, po2, j), po2)
      BY <1>2, <2>2, <3>3, <3>4, ModifyWaitListWithin
    <3> HIDE DEF partitionOf, wl
    <3> QED
      BY <1>2, <2>1, <2>6, <3>1, <3>2, <3>5 DEF wl
  <2> QED
    BY <2>5, <2>6
<1> QED
  BY <1>1, <1>7, <1>8

\* Every step that does not lower a limit keeps the lists within theirs.
LEMMA NextBounded ==
  ASSUME WellBehaved, RunnerInv, RunnerInv', LimitsKept, QueuesBounded, [Next]_vars
  PROVE  QueuesBounded'
<1>1. Move
  BY StepHasMove
<1>2. CASE LeavesLists
  <2>1. /\ \A p \in Pipelines : queue(p)' = queue(p)
        /\ UNCHANGED waitListByPipeline /\ \A k \in Jobs : sameJob(job'[k], job[k])
    BY <1>2 DEF LeavesLists, queue, mutexFree, idles
  <2> QED
    BY <2>1, BoundedIdle
<1>3. ASSUME NEW r \in Pipelines, LooksAt(r) PROVE QueuesBounded'
  <2>1. /\ \A p \in Pipelines : queue(p)' = queue(p)
        /\ UNCHANGED waitListByPipeline /\ \A k \in Jobs : sameJob(job'[k], job[k])
    BY <1>3, LooksMove DEF LooksAt
  <2> QED
    BY <2>1, BoundedIdle
<1>4. CASE WaitListKeep
  <2>1. /\ \A p \in Pipelines : queue(p)' = queue(p)
        /\ UNCHANGED waitListByPipeline /\ \A k \in Jobs : sameJob(job'[k], job[k])
    BY <1>4, KeepMove DEF WaitListKeep, jobVars, sameJob
  <2> QED
    BY <2>1, BoundedIdle
<1>5. CASE WaitListReturn
  <2>1. /\ \A p \in Pipelines : queue(p)' = queue(p)
        /\ calls' = <<>> /\ \A k \in Jobs : sameJob(job'[k], job[k])
    BY <1>5, ReturnMove DEF WaitListReturn, sameJob
  <2>2. \A p \in Pipelines : waitListByPipeline'[p] = queue(p)
    BY <2>1 DEF queue, mutexFree
  <2> QED
    BY <2>1, <2>2, BoundedIdle
<1>6. CASE ShutdownBegins
  <2>1. /\ UNCHANGED defs
        /\ \A p \in Pipelines : queue(p)' = <<>> /\ waitListByPipeline'[p] = <<>>
    BY <1>6, ShutdownMove
  <2>2. \A p \in Pipelines : defs[p] \in PipelineDef /\ validate(defs[p])
    BY DEF RunnerInv, TypeOK, PipelinesDef, DefinitionsOK
  <2>3. PICK po2 : po2 = jobPartition'
    OBVIOUS
  <2>4. \A p \in Pipelines : withinLimits(defs[p], <<>>, po2)
    BY <2>2, EmptyWithin
  <2> QED
    BY <2>1, <2>3, <2>4 DEF QueuesBounded
<1> QED
  BY <1>1, <1>2, <1>3, <1>4, <1>5, <1>6, StartBounded, ScheduleBounded DEF Move

\* A step that does not change the definitions lowers no limit.
LEMMA StepKeepsLimits ==
  ASSUME RunnerInv, [LimitsKept]_vars
  PROVE  LimitsKept
<1>1. CASE UNCHANGED vars
  <2> SUFFICES ASSUME NEW p \in Pipelines
               PROVE  /\ notLowered(defs[p].QueueLimit, defs[p].QueueLimit)
                      /\ notLowered(defs[p].QueuePartitionLimit, defs[p].QueuePartitionLimit)
    BY <1>1 DEF LimitsKept, vars
  <2>1. defs[p] \in PipelineDef
    BY DEF RunnerInv, TypeOK, PipelinesDef, DefinitionsOK
  <2> QED
    BY <2>1 DEF PipelineDef, notLowered
<1> QED
  BY <1>1

(***************************************************************************)
(* The queue strategies keep every wait list within queue_limit and every  *)
(* partition of it within queue_partition_limit: canAcceptJob looks at the *)
(* list before the new job is on it, modifyWaitList afterwards, and the    *)
(* list startJobsOnWaitList holds meanwhile never grows.  A reload that    *)
(* lowers a limit is excluded: ReplaceDefinitions trims no list.           *)
(***************************************************************************)
THEOREM WaitListsAreBounded == WellBehaved => (Spec /\ LimitsNotLowered => []WaitListBounded)
<1> SUFFICES ASSUME WellBehaved PROVE Spec /\ LimitsNotLowered => []WaitListBounded
  OBVIOUS
<1>1. Init => RunnerInv /\ QueuesBounded
  <2> SUFFICES ASSUME Init PROVE QueuesBounded
    BY InitInv
  <2>1. RunnerInv
    BY InitInv
  <2>2. \A p \in Pipelines : defs[p] \in PipelineDef /\ validate(defs[p])
    BY <2>1 DEF RunnerInv, TypeOK, PipelinesDef, DefinitionsOK
  <2>3. \A p \in Pipelines : waitListByPipeline[p] = <<>> /\ queue(p) = <<>>
    BY DEF Init, queue, mutexFree
  <2> QED
    BY <2>2, <2>3, EmptyWithin DEF QueuesBounded
<1>2. RunnerInv /\ QueuesBounded /\ [Next]_vars /\ [LimitsKept]_vars => RunnerInv' /\ QueuesBounded'
  BY NextInv, NextBounded, StepKeepsLimits
<1>3. RunnerInv /\ QueuesBounded => WaitListBounded
  BY DEF RunnerInv, DefinitionsOK, QueuesBounded, WaitListBounded
<1> QED
  BY <1>1, <1>2, <1>3, PTL DEF Spec, LimitsNotLowered, LimitsKept

=============================================================================
