------------------------------ MODULE ApiProofs ------------------------------
(***************************************************************************)
(* Theorems about the HTTP API, for any number of clients and jobs, in a   *)
(* WellBehaved environment: what a client is told about its job never goes *)
(* back, and a cancel does what its answer says.                           *)
(***************************************************************************)
EXTENDS Api, PipelineRunnerLife

-----------------------------------------------------------------------------
\* Every job points to the scheduler at work as long as its goroutine is alive.
Scheduled == \A j \in Jobs : alive(j) => schedulerAtWork(j)

\* Job j is in the phases in which a cancel that was asked for cannot be lost.
early(j) == goroutine[j] \in {"main", "failed", "built"}

\* The answers there are: none yet, 404, or the fields of a job.
answers == {notAsked, notFound} \cup {jobToResult(200, rec) : rec \in PipelineJob}

\* An answer about a job rec as it is now, or as it was when less had happened.
tellsPast(answer, rec) ==
  /\ answer.Start => rec.Start
  /\ answer.Completed \/ answer.Canceled => answer = jobToResult(200, rec)

(***************************************************************************)
(* The client follows an accepted job, or has not asked for any; it was    *)
(* told what the job is or once was; and if it was told that the job is    *)
(* gone, it is gone for good.                                              *)
(***************************************************************************)
ClientOK ==
  /\ seen \in answers
  /\ followed # NoJob => followed \in Jobs /\ created(job[followed])
  /\ followed = NoJob => request = "idle" /\ seen = notAsked
  /\ seen.status = 200 => tellsPast(seen, job[followed])
  /\ seen = notFound => followed \notin jobsByID

(***************************************************************************)
(* What the client was told about a cancel holds of its job, whatever      *)
(* comes after.                                                            *)
(***************************************************************************)
CancelOK ==
  /\ cancelAnswer \in {0, 200, 404, 500}
  /\ cancelAnswer # 0 => followed # NoJob
  /\ cancelAnswer = 200 =>
       settled(job[followed]) \/ (alive(followed) /\ (early(followed) => underCancel(followed)))
  /\ cancelAnswer = 500 => job[followed].Completed /\ ~job[followed].Canceled
  /\ cancelAnswer = 404 => followed \notin jobsByID

ApiInv == LifeInv /\ Scheduled /\ ClientOK /\ CancelOK

-----------------------------------------------------------------------------
(***************************************************************************)
(* Every step of the API is a step of the runner, or none.                 *)
(***************************************************************************)
LEMMA ApiStep ==
  ASSUME [NextApi]_allVars
  PROVE  [Next]_vars
<1>1. CASE UNCHANGED allVars
  BY <1>1 DEF allVars
<1>2. ASSUME NEW j \in Jobs, pipelinesSchedule(j) PROVE Next
  BY <1>2 DEF pipelinesSchedule, Next
<1>3. ASSUME NEW j \in Jobs, jobCancel(j) PROVE [Next]_vars
  BY <1>3 DEF jobCancel, Next
<1>4. ASSUME NEW handler \in {"detail", "logs"}, ReadBegins(handler) PROVE UNCHANGED vars
  BY <1>4 DEF ReadBegins
<1>5. CASE jobDetail \/ jobLogs \/ Reader
  BY <1>5 DEF jobDetail, jobLogs, Reader
<1>6. CASE Handlers
  BY <1>6 DEF Handlers, Next, PersistLoop, Shutdown
<1>7. CASE Saves
  BY <1>7 DEF Saves, Next, PersistLoop, Shutdown
<1>8. CASE Stopped
  BY <1>8 DEF Stopped, allVars
<1> QED
  BY <1>1, <1>2, <1>3, <1>4, <1>5, <1>6, <1>7, <1>8 DEF NextApi

LEMMA ApiSpec == SpecApi => Spec
<1>1. InitApi => Init
  BY DEF InitApi
<1>2. [NextApi]_allVars => [Next]_vars
  BY ApiStep
<1> QED
  BY <1>1, <1>2, PTL DEF SpecApi, Spec

(***************************************************************************)
(* What a step leaves behind for job k if its goroutine is alive after it: *)
(* the scheduler at work and, if the job was executing before, the cancel  *)
(* it was under, unless on_error has taken over.                           *)
(***************************************************************************)
staysAtWork(k) ==
  alive(k)' =>
    /\ schedulerAtWork(k)'
    /\ alive(k) /\ (early(k) => underCancel(k)) /\ early(k)' => underCancel(k)'

\* A step that leaves the goroutine and the scheduler of job k alone, and no cancel of it undone.
LEMMA SameAtWork ==
  ASSUME Scheduled, NEW k \in Jobs, goroutine'[k] = goroutine[k], job'[k].sched = job[k].sched,
         underCancel(k) => underCancel(k)'
  PROVE  staysAtWork(k)
  BY DEF Scheduled, staysAtWork, schedulerAtWork, alive, early

\* cancelJobInternal adds cancel goroutines.
LEMMA CancelAtWork ==
  ASSUME RunnerInv, Scheduled, NEW S, cancelJobInternal(S), UNCHANGED runVars, NEW k \in Jobs
  PROVE  staysAtWork(k)
<1>1. job[k] \in PipelineJob
  BY DEF RunnerInv, TypeOK
<1>2. [job[k] EXCEPT !.Canceled = TRUE].sched = job[k].sched
  BY <1>1 DEF PipelineJob
<1>3. job'[k] = job[k] \/ job'[k] = [job[k] EXCEPT !.Canceled = TRUE]
  BY DEF cancelJobInternal
<1>4. underCancel(k) => underCancel(k)'
  BY DEF cancelJobInternal, runVars, underCancel
<1> QED
  BY <1>2, <1>3, <1>4, SameAtWork DEF runVars

\* startJob gives job j its scheduler with its goroutine; the others stay as they are.
LEMMA StartAtWork ==
  ASSUME Scheduled, goroutine \in [Jobs -> goroutineStates], UNCHANGED <<cancelled, cancelGo>>,
         NEW js \in [Jobs -> PipelineJob], NEW j \in Jobs, NEW ids, NEW stack,
         js[j].buildable, ~js[j].Canceled, ~alive(j), startJob(j, js, ids, stack),
         \A i \in Jobs : i # j => js[i] = job[i],
         NEW k \in Jobs
  PROVE  staysAtWork(k)
<1>1. goroutine' = [goroutine EXCEPT ![j] = "main"]
  BY DEF startJob
<1>2. job'[j].sched = "main" /\ \A i \in Jobs : i # j => job'[i] = js[i]
  BY Started
<1>3. CASE k = j
  BY <1>1, <1>2, <1>3 DEF staysAtWork, schedulerAtWork
<1>4. CASE k # j
  <2>1. goroutine'[k] = goroutine[k] /\ job'[k] = job[k]
    BY <1>1, <1>2, <1>4
  <2> QED
    BY <2>1, SameAtWork DEF underCancel
<1> QED
  BY <1>3, <1>4

\* The next job of a wait list is started.
LEMMA WaitListAtWork ==
  ASSUME RunnerInv, Scheduled, WaitListStart, NEW k \in Jobs
  PROVE  staysAtWork(k)
<1> DEFINE top == Head(calls)
           j   == Head(top.todo)
           new == [top EXCEPT !.todo = Tail(@), !.freeSlots = @ - 1]
<1>1. /\ ~mutexFree /\ top.todo # <<>> /\ canBeStarted(job[j]) /\ UNCHANGED <<cancelled, cancelGo>>
      /\ startJob(j, job, jobsByID, <<new>> \o Tail(calls))
  BY DEF WaitListStart
<1>2. j \in Jobs
  <2>1. top.todo \in Seq(Jobs)
    BY <1>1, LoopState
  <2> HIDE DEF top
  <2> QED
    BY <1>1, <2>1
<1>3. PICK i, stack : i \in Jobs /\ i = j /\ startJob(i, job, jobsByID, stack)
  BY <1>1, <1>2
<1>4. job[i].buildable /\ ~job[i].Canceled /\ ~alive(i)
  BY <1>1, <1>3 DEF RunnerInv, FlagsOK, CountsWhatRuns, isRunning, canBeStarted
<1>5. job \in [Jobs -> PipelineJob] /\ goroutine \in [Jobs -> goroutineStates]
  BY DEF RunnerInv, TypeOK
<1> QED
  BY <1>1, <1>3, <1>4, <1>5, StartAtWork

\* A new job is started or made to wait, and may replace one that waits.
LEMMA ScheduleAtWork ==
  ASSUME WellBehaved, RunnerInv, Scheduled, NEW p \in Pipelines, NEW j \in Jobs,
         NEW q \in Partitions, NEW b \in Buildability, ScheduleAsync(p, j, q, b), NEW k \in Jobs
  PROVE  staysAtWork(k)
<1> DEFINE n   == newJob(p, q, b)
           js  == [job EXCEPT ![j] = n]
           ids == jobsByID \cup {j}
<1>1. /\ mutexFree /\ ~created(job[j]) /\ p \in DOMAIN defs /\ UNCHANGED <<cancelled, cancelGo>>
      /\ startJob(j, js, ids, calls) \/ enqueue(p, j, js)
  BY DEF ScheduleAsync
<1>2. TypeOK /\ job \in [Jobs -> PipelineJob] /\ goroutine \in [Jobs -> goroutineStates]
  BY DEF RunnerInv, TypeOK
<1>3. n.buildable = b /\ ~n.Canceled
  BY <1>2, NewJobFields
<1>4. b = TRUE
  BY DEF WellBehaved, AllBuildable
<1>5. n \in PipelineJob
  BY <1>1, <1>2, <1>4, NewJobType
<1>6. ~alive(j)
  BY <1>1 DEF RunnerInv, CountsWhatRuns, FlagsOK
<1> HIDE DEF n
<1>7. js \in [Jobs -> PipelineJob] /\ js[j] = n /\ \A i \in Jobs : i # j => js[i] = job[i]
  BY <1>2, <1>5
<1> HIDE DEF js
<1>8. CASE startJob(j, js, ids, calls)
  BY <1>1, <1>2, <1>3, <1>4, <1>6, <1>7, <1>8, StartAtWork
<1>9. CASE enqueue(p, j, js)
  <2>1. UNCHANGED goroutine
    BY <1>9 DEF enqueue
  <2>2. CASE k = j
    BY <1>6, <2>1, <2>2 DEF staysAtWork, alive
  <2>3. CASE k # j
    <3> DEFINE u == [job[k] EXCEPT !.Canceled = TRUE, !.startTimer = FALSE]
    <3>1. job'[k] = u \/ job'[k] = job[k]
      BY <1>7, <1>9, <2>3 DEF enqueue
    <3>2. u.sched = job[k].sched
      BY <1>2 DEF PipelineJob
    <3> HIDE DEF u
    <3> QED
      BY <1>1, <2>1, <3>1, <3>2, SameAtWork DEF underCancel
  <2> QED
    BY <2>2, <2>3
<1> QED
  BY <1>1, <1>8, <1>9

\* The goroutine of a job goes on.
LEMMA GoroutineAtWork ==
  ASSUME RunnerInv, Scheduled, NEW j \in Jobs, JobGoroutine(j), NEW k \in Jobs
  PROVE  staysAtWork(k)
<1>1. /\ job \in [Jobs -> PipelineJob] /\ goroutine \in [Jobs -> goroutineStates]
      /\ cancelled \in [Jobs -> BOOLEAN]
  BY DEF RunnerInv, TypeOK
<1>2. ASSUME NEW err \in {"nil", "failed", "canceled"}, ScheduleReturns(j, err)
      PROVE  staysAtWork(k)
  BY <1>1, <1>2
     DEF ScheduleReturns, jobVars, Scheduled, staysAtWork, schedulerAtWork, alive, early, underCancel
<1>3. CASE buildErrorGraph(j)
  BY <1>1, <1>3
     DEF buildErrorGraph, jobVars, Scheduled, staysAtWork, schedulerAtWork, alive, early, underCancel
<1>4. CASE ErrorGraphReturns(j)
  BY <1>1, <1>4
     DEF ErrorGraphReturns, jobVars, Scheduled, staysAtWork, schedulerAtWork, alive, early, underCancel
<1>5. CASE initErrorScheduler(j)
  <2> DEFINE u == [job[j] EXCEPT !.sched = "error"]
  <2>1. /\ job' = [job EXCEPT ![j] = u] /\ goroutine' = [goroutine EXCEPT ![j] = "handler"]
        /\ cancelled' = [cancelled EXCEPT ![j] = FALSE] /\ UNCHANGED cancelGo
    BY <1>5 DEF initErrorScheduler
  <2>2. u.sched = "error"
    BY <1>1 DEF PipelineJob
  <2> HIDE DEF u
  <2>3. CASE k = j
    <3>1. job'[k].sched = "error" /\ goroutine'[k] = "handler"
      BY <1>1, <2>1, <2>2, <2>3
    <3> QED
      BY <3>1 DEF staysAtWork, schedulerAtWork, early
  <2>4. CASE k # j
    BY <1>1, <2>1, <2>4, SameAtWork DEF underCancel
  <2> QED
    BY <2>3, <2>4
<1>6. CASE JobCompleted(j)
  <2>1. /\ goroutine' = [goroutine EXCEPT ![j] = "done"] /\ UNCHANGED cancelGo
        /\ cancelled' = [cancelled EXCEPT ![j] = FALSE]
        /\ \A i \in Jobs : i # j => job'[i] = job[i]
    BY <1>1, <1>6 DEF JobCompleted
  <2>2. CASE k = j
    BY <1>1, <2>1, <2>2 DEF staysAtWork, alive
  <2>3. CASE k # j
    BY <1>1, <2>1, <2>3, SameAtWork DEF underCancel
  <2> QED
    BY <2>2, <2>3
<1> QED
  BY <1>2, <1>3, <1>4, <1>5, <1>6 DEF JobGoroutine

\* Cancel of a scheduler reaches the tasks if the job still points to it.
LEMMA SchedulerCancelAtWork ==
  ASSUME RunnerInv, Scheduled, NEW j \in Jobs, NEW s \in Schedulers, SchedulerCancel(j, s),
         NEW k \in Jobs
  PROVE  staysAtWork(k)
<1>1. /\ cancelGo' = [cancelGo EXCEPT ![j] = @ \ {s}]
      /\ cancelled' = [cancelled EXCEPT ![j] = @ \/ job[j].sched = s]
      /\ UNCHANGED <<job, goroutine>>
  BY DEF SchedulerCancel, jobVars
<1>2. cancelGo \in [Jobs -> SUBSET Schedulers] /\ cancelled \in [Jobs -> BOOLEAN]
  BY DEF RunnerInv, TypeOK
<1>3. CASE k = j
  <2>1. cancelled'[k] = (cancelled[k] \/ job[k].sched = s) /\ cancelGo'[k] = cancelGo[k] \ {s}
    BY <1>1, <1>2, <1>3
  <2> QED
    BY <1>1, <2>1
       DEF Scheduled, staysAtWork, schedulerAtWork, alive, early, underCancel
<1>4. CASE k # j
  BY <1>1, <1>2, <1>4, SameAtWork DEF underCancel
<1> QED
  BY <1>3, <1>4

(***************************************************************************)
(* No step takes the scheduler from a job whose goroutine goes on, and no  *)
(* step before on_error takes back a cancel.                               *)
(***************************************************************************)
LEMMA StepAtWork ==
  ASSUME WellBehaved, RunnerInv, Scheduled, [Next]_vars, NEW k \in Jobs
  PROVE  staysAtWork(k)
<1>1. ASSUME UNCHANGED <<job, goroutine, cancelled, cancelGo>> PROVE staysAtWork(k)
  BY <1>1, SameAtWork DEF underCancel
<1>2. CASE UNCHANGED vars
  BY <1>1, <1>2 DEF vars, jobVars, runVars
<1>3. CASE WaitListLoop
  BY <1>1, <1>3, WaitListAtWork DEF WaitListLoop, WaitListKeep, WaitListReturn, jobVars, runVars
<1>4. ASSUME NEW j \in Jobs, NEW p \in Pipelines, NEW q \in Partitions, NEW b \in Buildability,
             ScheduleAsync(p, j, q, b)
      PROVE  staysAtWork(k)
  BY <1>4, ScheduleAtWork
<1>5. ASSUME NEW S, cancelJobInternal(S), UNCHANGED runVars PROVE staysAtWork(k)
  BY <1>5, CancelAtWork
<1>6. ASSUME NEW j \in Jobs, CancelJob(j) \/ \E errored \in BOOLEAN : HandleTaskChange(j, errored)
      PROVE  staysAtWork(k)
  BY <1>5, <1>6 DEF CancelJob, HandleTaskChange
<1>7. ASSUME NEW j \in Jobs, NEW s \in Schedulers, SchedulerCancel(j, s) PROVE staysAtWork(k)
  BY <1>7, SchedulerCancelAtWork
<1>8. ASSUME NEW j \in Jobs, JobGoroutine(j) PROVE staysAtWork(k)
  BY <1>8, GoroutineAtWork
<1>9. ASSUME NEW j \in Jobs, StartTimer(j) PROVE staysAtWork(k)
  <2> DEFINE u == [job[j] EXCEPT !.startTimer = FALSE]
  <2>1. job \in [Jobs -> PipelineJob]
    BY DEF RunnerInv, TypeOK
  <2>2. UNCHANGED <<goroutine, cancelled, cancelGo>> /\ (UNCHANGED job \/ job' = [job EXCEPT ![j] = u])
    BY <1>9, <2>1 DEF StartTimer, TimerFires, StartDelayedJob, jobVars, runVars
  <2>3. u.sched = job[j].sched
    BY <2>1 DEF PipelineJob
  <2> HIDE DEF u
  <2>4. job'[k].sched = job[k].sched
    BY <2>1, <2>2, <2>3
  <2> QED
    BY <2>2, <2>4, SameAtWork DEF underCancel
<1>10. ASSUME NEW D \in ReloadDefs, ReplaceDefinitions(D) PROVE staysAtWork(k)
  BY <1>1, <1>10 DEF ReplaceDefinitions, jobVars, runVars
<1>11. CASE PersistLoop \/ Signal \/ ShutdownPolls \/ ShutdownWakes \/ ShutdownEnds
  BY <1>1, <1>11 DEF PersistLoop, PersistRequested, SaveToStore, PersistLoopStops, Signal,
                     ShutdownPolls, ShutdownWakes, ShutdownEnds, jobVars, runVars
<1>12. CASE ShutdownBegins
  <2> DEFINE u == [job[k] EXCEPT !.Canceled = TRUE]
  <2>1. UNCHANGED <<goroutine, cancelled, cancelGo>> /\ (job'[k] = job[k] \/ job'[k] = u)
    BY <1>12 DEF ShutdownBegins, runVars
  <2>2. u.sched = job[k].sched
    BY DEF RunnerInv, TypeOK, PipelineJob
  <2> HIDE DEF u
  <2> QED
    BY <2>1, <2>2, SameAtWork DEF underCancel
<1>13. CASE ShutdownForced
  BY <1>5, <1>13 DEF ShutdownForced
<1>14. CASE Terminated
  BY <1>2, <1>14 DEF Terminated
<1> QED
  BY <1>2, <1>3, <1>4, <1>6, <1>7, <1>8, <1>9, <1>10, <1>11, <1>12, <1>13, <1>14 DEF Next, Shutdown

\* A job whose goroutine is alive keeps a scheduler at work.
LEMMA ScheduledKept ==
  ASSUME WellBehaved, RunnerInv, Scheduled, [Next]_vars
  PROVE  Scheduled'
  BY StepAtWork DEF Scheduled, staysAtWork

\* What is true of the past of an accepted job stays true.
LEMMA PastKept ==
  ASSUME LifeInv, Effect, NEW k \in Jobs, created(job[k]), NEW answer, tellsPast(answer, job[k])
  PROVE  created(job'[k]) /\ tellsPast(answer, job'[k])
<1>1. \/ untouched(k) \/ marked(k) \/ Starts(k) \/ Finishes(k)
  BY DEF Effect, Cancels, Starts, Finishes, Launches, Accepts, Redefines
<1>2. CASE untouched(k)
  BY <1>2 DEF untouched, sameJob, created, tellsPast, jobToResult
<1>3. ASSUME ~job[k].Completed, ~job[k].Canceled
      PROVE  ~(answer.Completed \/ answer.Canceled)
  BY <1>3 DEF tellsPast, jobToResult
<1>4. CASE marked(k)
  <2>1. ~job[k].Completed /\ ~job[k].Canceled /\ ~job[k].Start
    BY <1>4 DEF marked, waits, LifeInv, RunnerInv, FlagsOK
  <2> QED
    BY <1>3, <1>4, <2>1 DEF marked, sameJob, created, tellsPast
<1>5. CASE Starts(k)
  <2>1. ~job[k].Completed /\ ~job[k].Canceled
    BY <1>5 DEF Starts, waits, LifeInv, RunnerInv, FlagsOK
  <2> QED
    BY <1>3, <1>5, <2>1 DEF Starts, sameJob, created, tellsPast, isRunning
<1>6. CASE Finishes(k)
  <2>1. ~job[k].Completed /\ ~job[k].Canceled
    BY <1>6, Phases DEF Finishes, isRunning, LifeInv
  <2> QED
    BY <1>3, <1>6, <2>1 DEF Finishes, sameJob, created, tellsPast
<1> QED
  BY <1>1, <1>2, <1>4, <1>5, <1>6

\* A job that retention has dropped does not come back.
LEMMA GoneForGood ==
  ASSUME LifeInv, [Next]_vars, NEW k \in Jobs, created(job[k]), k \notin jobsByID
  PROVE  k \notin jobsByID'
<1>1. ASSUME UNCHANGED jobsByID PROVE k \notin jobsByID'
  BY <1>1
<1>2. CASE UNCHANGED vars
  BY <1>2 DEF vars, jobVars
<1>3. CASE WaitListLoop
  BY <1>3 DEF WaitListLoop, WaitListStart, WaitListKeep, WaitListReturn, jobVars
<1>4. ASSUME NEW j \in Jobs, NEW p \in Pipelines, NEW q \in Partitions, NEW b \in Buildability,
             ScheduleAsync(p, j, q, b)
      PROVE  k \notin jobsByID'
  BY <1>4 DEF ScheduleAsync
<1>5. ASSUME NEW j \in Jobs,
             \/ CancelJob(j)
             \/ \E s \in Schedulers : SchedulerCancel(j, s)
             \/ \E errored \in BOOLEAN : HandleTaskChange(j, errored)
      PROVE  UNCHANGED jobsByID
  BY <1>5 DEF CancelJob, SchedulerCancel, HandleTaskChange, jobVars
<1>6. ASSUME NEW j \in Jobs, JobGoroutine(j) \/ StartTimer(j)
      PROVE  UNCHANGED jobsByID
  BY <1>6 DEF JobGoroutine, ScheduleReturns, buildErrorGraph, initErrorScheduler,
              ErrorGraphReturns, JobCompleted, StartTimer, TimerFires, StartDelayedJob, jobVars
<1>7. ASSUME NEW D \in ReloadDefs, ReplaceDefinitions(D)
      PROVE  UNCHANGED jobsByID
  BY <1>7 DEF ReplaceDefinitions, jobVars
<1>8. CASE PersistRequested \/ PersistLoopStops \/ Signal \/ ShutdownBegins \/ ShutdownPolls
           \/ ShutdownWakes \/ ShutdownForced \/ Terminated
  BY <1>8 DEF PersistRequested, PersistLoopStops, Signal, ShutdownBegins, ShutdownPolls,
              ShutdownWakes, ShutdownForced, Terminated, vars, jobVars
<1>9. CASE SaveToStore \/ ShutdownEnds
  BY <1>9 DEF SaveToStore, ShutdownEnds, removeExpiredJobs
<1> QED
  BY <1>1, <1>2, <1>3, <1>4, <1>5, <1>6, <1>7, <1>8, <1>9 DEF Next, PersistLoop, Shutdown

-----------------------------------------------------------------------------
(***************************************************************************)
(* What a client is told.                                                  *)
(***************************************************************************)

\* The answers differ in their status.
LEMMA Answers ==
  ASSUME NEW a \in answers
  PROVE  /\ a.status \in {0, 200, 404}
         /\ a.status = 0 <=> a = notAsked
         /\ a.status = 404 <=> a = notFound
<1>1. notAsked.status = 0 /\ notFound.status = 404
  BY DEF notAsked, notFound, jobToResult
<1>2. \A rec \in PipelineJob : jobToResult(200, rec).status = 200
  BY DEF jobToResult
<1> QED
  BY <1>1, <1>2 DEF answers

\* What MonotoneReads asks of a step.
Monotone ==
  /\ progress(seen') >= progress(seen)
  /\ progress(seen) = 3 /\ progress(seen') = 3 => seen' = seen
  /\ seen' = notFound => settled(job[followed])

\* A followed job that is not known any more is settled.
LEMMA GoneIsSettled ==
  ASSUME LifeInv, ClientOK, followed # NoJob, followed \notin jobsByID
  PROVE  settled(job[followed])
<1>1. followed \in Jobs /\ created(job[followed])
  BY DEF ClientOK
<1>2. ~alive(followed) /\ ~waits(followed)
  BY <1>1 DEF LifeInv, RunnerInv, CountsWhatRuns, FlagsOK
<1> QED
  BY <1>1, <1>2, Phases DEF LifeInv

\* An answer that does not change is monotone.
LEMMA SameAnswer ==
  ASSUME LifeInv, ClientOK, seen' = seen
  PROVE  Monotone
<1>1. progress(seen') = progress(seen) /\ progress(seen) \in 0 .. 4
  BY DEF progress
<1>2. ASSUME seen' = notFound PROVE settled(job[followed])
  <2>1. seen = notFound /\ notFound # notAsked
    BY <1>2 DEF notFound, notAsked, jobToResult
  <2>2. followed # NoJob /\ followed \notin jobsByID
    BY <2>1 DEF ClientOK
  <2> QED
    BY <2>2, GoneIsSettled
<1> QED
  BY <1>1, <1>2 DEF Monotone

\* A step of the runner that leaves the client alone.
LEMMA RunnerStepClient ==
  ASSUME WellBehaved, LifeInv, ClientOK, [Next]_vars, UNCHANGED <<followed, seen>>,
         followed = NoJob => request' = "idle"
  PROVE  ClientOK'
<1>1. Effect
  BY StepHasEffect DEF LifeInv
<1>2. CASE followed = NoJob
  <2>1. seen = notAsked /\ notAsked.status = 0 /\ notAsked # notFound
    BY <1>2 DEF ClientOK, notAsked, notFound, jobToResult
  <2> QED
    BY <1>2, <2>1 DEF ClientOK
<1>3. CASE followed # NoJob
  <2>1. followed \in Jobs /\ created(job[followed]) /\ followed' = followed /\ seen' = seen
    BY <1>3 DEF ClientOK
  <2>2. PICK k \in Jobs : k = followed
    BY <2>1
  <2>3. created(job'[k])
    <3>1. \/ untouched(k) \/ marked(k) \/ Starts(k) \/ Finishes(k)
      BY <1>1, <2>1, <2>2 DEF Effect, Cancels, Starts, Finishes, Launches, Accepts, Redefines
    <3> QED
      BY <2>1, <2>2, <3>1 DEF untouched, marked, Starts, Finishes, sameJob, created
  <2>4. seen.status = 200 => tellsPast(seen, job'[k])
    BY <1>1, <2>1, <2>2, PastKept DEF ClientOK
  <2>5. seen = notFound => k \notin jobsByID'
    BY <2>1, <2>2, GoneForGood DEF ClientOK
  <2> QED
    BY <1>3, <2>1, <2>2, <2>3, <2>4, <2>5 DEF ClientOK
<1> QED
  BY <1>2, <1>3

\* POST /pipelines/schedule: the client may follow the new job.
LEMMA ScheduleClient ==
  ASSUME WellBehaved, LifeInv, LifeInv', ClientOK, NEW j \in Jobs, pipelinesSchedule(j)
  PROVE  ClientOK' /\ Monotone
<1>1. [Next]_vars
  BY DEF pipelinesSchedule, Next
<1>2. UNCHANGED <<request, seen>> /\ followed' \in {followed, IF followed = NoJob THEN j ELSE followed}
  BY DEF pipelinesSchedule
<1>3. Monotone
  BY <1>2, SameAnswer
<1>4. CASE followed' = followed
  <2>1. followed = NoJob => request' = "idle"
    BY <1>2 DEF ClientOK
  <2> QED
    BY <1>1, <1>2, <1>3, <1>4, <2>1, RunnerStepClient
<1>5. CASE followed = NoJob /\ followed' = j
  <2>1. created(job'[j])
    <3>1. j \in jobsByID'
      BY DEF pipelinesSchedule, ScheduleAsync
    <3> QED
      BY <3>1 DEF LifeInv, RunnerInv, FlagsOK
  <2>2. seen' = notAsked /\ seen \in answers /\ request' = "idle"
    BY <1>2, <1>5 DEF ClientOK
  <2>3. notAsked.status = 0 /\ notAsked # notFound
    BY DEF notAsked, notFound, jobToResult
  <2> QED
    BY <1>2, <1>3, <1>5, <2>1, <2>2, <2>3 DEF ClientOK
<1> QED
  BY <1>2, <1>4, <1>5

\* An answer about the job as it is now is as good as any earlier one.
LEMMA AnswerNow ==
  ASSUME LifeInv, ClientOK, followed # NoJob, followed \in jobsByID,
         seen' = jobToResult(200, job[followed])
  PROVE  Monotone /\ tellsPast(seen', job[followed]) /\ seen' \in answers /\ seen' # notFound
<1>1. PICK rec \in PipelineJob : rec = job[followed]
  BY DEF ClientOK, LifeInv, RunnerInv, TypeOK
<1>2. /\ seen'.status = 200 /\ seen'.Start = rec.Start
      /\ seen'.Completed = rec.Completed /\ seen'.Canceled = rec.Canceled
      /\ seen' \in answers
  BY <1>1 DEF jobToResult, answers
<1>3. seen' # notFound
  BY <1>2 DEF notFound, jobToResult
<1>4. tellsPast(seen', rec)
  BY <1>1, <1>2 DEF tellsPast
<1>5. seen \in answers /\ seen # notFound
  BY DEF ClientOK
<1>6. seen = notAsked \/ seen.status = 200
  BY <1>5, Answers
<1>7. CASE seen = notAsked
  <2>1. progress(seen) = 0 /\ progress(seen') \in 0 .. 4
    BY <1>7 DEF progress, notAsked, jobToResult
  <2> QED
    BY <1>1, <1>2, <1>3, <1>4, <2>1 DEF Monotone
<1>8. CASE seen.status = 200
  <2>1. tellsPast(seen, rec)
    BY <1>1, <1>8 DEF ClientOK
  <2>2. CASE seen.Completed \/ seen.Canceled
    <3>1. seen' = seen
      BY <1>1, <2>1, <2>2 DEF tellsPast
    <3> QED
      BY <1>1, <1>2, <1>3, <1>4, <3>1, SameAnswer
  <2>3. CASE ~(seen.Completed \/ seen.Canceled)
    <3>1. progress(seen) = IF seen.Start THEN 2 ELSE 1
      BY <1>8, <2>3 DEF progress
    <3>2. progress(seen') = IF rec.Completed \/ rec.Canceled THEN 3 ELSE IF rec.Start THEN 2 ELSE 1
      BY <1>2 DEF progress
    <3>3. progress(seen') >= progress(seen) /\ progress(seen) # 3
      BY <2>1, <3>1, <3>2 DEF tellsPast
    <3> QED
      BY <1>1, <1>2, <1>3, <1>4, <3>3 DEF Monotone
  <2> QED
    BY <2>2, <2>3
<1> QED
  BY <1>6, <1>7, <1>8

\* An answer that the job is gone is the last one.
LEMMA AnswerGone ==
  ASSUME LifeInv, ClientOK, followed # NoJob, followed \notin jobsByID, seen' = notFound
  PROVE  Monotone /\ seen' \in answers
<1>1. progress(seen') = 4 /\ progress(seen) \in 0 .. 4
  BY DEF progress, notFound, jobToResult
<1>2. settled(job[followed])
  BY GoneIsSettled
<1> QED
  BY <1>1, <1>2 DEF Monotone, answers

\* The steps of the client's own reads.
LEMMA ReadClient ==
  ASSUME LifeInv, ClientOK,
         (\E handler \in {"detail", "logs"} : ReadBegins(handler)) \/ jobDetail \/ jobLogs \/ Reader
  PROVE  ClientOK' /\ Monotone
<1>1. UNCHANGED <<vars, followed>> /\ followed # NoJob
  BY DEF ReadBegins, jobDetail, jobLogs, Reader, ClientOK
<1>2. UNCHANGED <<job, jobsByID>>
  BY <1>1 DEF vars, jobVars
<1>3. CASE seen' = seen
  BY <1>1, <1>2, <1>3, SameAnswer DEF ClientOK
<1>4. CASE followed \in jobsByID /\ seen' = jobToResult(200, job[followed])
  BY <1>1, <1>2, <1>4, AnswerNow DEF ClientOK
<1>5. CASE followed \notin jobsByID /\ seen' = notFound
  <2>1. Monotone /\ seen' \in answers /\ notFound.status = 404
    BY <1>1, <1>5, AnswerGone DEF notFound, jobToResult
  <2> QED
    BY <1>1, <1>2, <1>5, <2>1 DEF ClientOK
<1> QED
  BY <1>3, <1>4, <1>5 DEF ReadBegins, jobDetail, jobLogs, Reader

\* Every step of the API.
LEMMA NextClient ==
  ASSUME WellBehaved, LifeInv, LifeInv', ClientOK, [NextApi]_allVars
  PROVE  ClientOK' /\ [Monotone]_allVars
<1>1. [Next]_vars
  BY ApiStep
<1>2. CASE UNCHANGED allVars
  <2>1. UNCHANGED <<followed, seen, request>>
    BY <1>2 DEF allVars, apiVars
  <2>2. followed = NoJob => request' = "idle"
    BY <2>1 DEF ClientOK
  <2> QED
    BY <1>1, <1>2, <2>1, <2>2, RunnerStepClient
<1>3. ASSUME NEW j \in Jobs, pipelinesSchedule(j) PROVE ClientOK' /\ Monotone
  BY <1>3, ScheduleClient
<1>4. CASE (\E handler \in {"detail", "logs"} : ReadBegins(handler)) \/ jobDetail \/ jobLogs \/ Reader
  BY <1>4, ReadClient
<1>5. CASE (\E j \in Jobs : jobCancel(j)) \/ Handlers \/ Saves
  <2>1. UNCHANGED <<followed, seen>> /\ (followed = NoJob => request' = "idle")
    BY <1>5 DEF jobCancel, Handlers, Saves, apiVars, ClientOK, reading
  <2> QED
    BY <1>1, <2>1, RunnerStepClient, SameAnswer
<1>6. CASE Stopped
  BY <1>2, <1>6 DEF Stopped
<1> QED
  BY <1>2, <1>3, <1>4, <1>5, <1>6 DEF NextApi

-----------------------------------------------------------------------------
(***************************************************************************)
(* What a cancel was answered.                                             *)
(***************************************************************************)

\* A settled job is left alone.
LEMMA SettledUntouched ==
  ASSUME LifeInv, Effect, NEW k \in Jobs, settled(job[k])
  PROVE  untouched(k)
<1>1. created(job[k]) /\ ~alive(k) /\ ~waits(k)
  BY Phases DEF LifeInv
<1> QED
  BY <1>1 DEF Effect, Cancels, Starts, Finishes, Launches, Accepts, Redefines, marked

\* A step of the runner leaves the last answer true.
LEMMA RunnerStepCancel ==
  ASSUME WellBehaved, LifeInv, Scheduled, ClientOK, CancelOK, [Next]_vars,
         UNCHANGED <<followed, cancelAnswer>>
  PROVE  CancelOK'
<1>1. CASE cancelAnswer = 0
  BY <1>1 DEF CancelOK
<1>2. CASE cancelAnswer # 0
  <2>1. PICK k \in Jobs : k = followed /\ created(job[k])
    BY <1>2 DEF CancelOK, ClientOK
  <2>2. Effect
    BY StepHasEffect DEF LifeInv
  <2>3. ASSUME settled(job[k])
        PROVE  /\ settled(job'[k])
               /\ job'[k].Completed = job[k].Completed /\ job'[k].Canceled = job[k].Canceled
    BY <2>2, <2>3, SettledUntouched DEF untouched, settled
  <2>4. ASSUME alive(k), early(k) => underCancel(k)
        PROVE  settled(job'[k]) \/ (alive(k)' /\ (early(k)' => underCancel(k)'))
    <3>1. CASE alive(k)'
      BY <2>4, <3>1, StepAtWork DEF staysAtWork, LifeInv
    <3>2. CASE ~alive(k)'
      <4>1. Finishes(k)
        BY <2>1, <2>2, <2>4, <3>2, Phases
           DEF Effect, Cancels, Starts, Finishes, Launches, Accepts, Redefines, untouched, marked, LifeInv
      <4> QED
        BY <4>1 DEF Finishes, settled
    <3> QED
      BY <3>1, <3>2
  <2>5. cancelAnswer = 200 =>
          settled(job'[k]) \/ (alive(k)' /\ (early(k)' => underCancel(k)'))
    BY <2>1, <2>3, <2>4 DEF CancelOK
  <2>6. cancelAnswer = 500 => job'[k].Completed /\ ~job'[k].Canceled
    BY <2>1, <2>3 DEF CancelOK, settled
  <2>7. cancelAnswer = 404 => k \notin jobsByID'
    BY <2>1, GoneForGood DEF CancelOK
  <2> QED
    BY <1>2, <2>1, <2>5, <2>6, <2>7 DEF CancelOK, alive, early, underCancel
<1> QED
  BY <1>1, <1>2

\* The client's own cancel: the answer is true when it is given.
LEMMA OwnCancel ==
  ASSUME LifeInv, Scheduled, ClientOK, NEW j \in Jobs, j = followed,
         IF j \in openJobs({j}) THEN CancelJob(j) ELSE UNCHANGED vars,
         cancelAnswer' = jobCancelStatus(j), followed' = followed
  PROVE  CancelOK'
<1>1. followed # NoJob /\ created(job[j])
  BY NoJobAssumption DEF ClientOK
<1>2. j \in openJobs({j}) <=> j \in jobsByID /\ ~job[j].Canceled /\ ~job[j].Completed
  BY DEF openJobs
<1>3. CASE j \notin jobsByID
  <2>1. cancelAnswer' = 404 /\ UNCHANGED vars
    BY <1>2, <1>3 DEF jobCancelStatus
  <2> QED
    BY <1>1, <1>3, <2>1 DEF CancelOK, vars, jobVars
<1>4. CASE j \in jobsByID /\ job[j].Completed /\ ~job[j].Canceled
  <2>1. cancelAnswer' = 500 /\ UNCHANGED vars
    BY <1>2, <1>4 DEF jobCancelStatus
  <2> QED
    BY <1>1, <1>4, <2>1 DEF CancelOK, vars, jobVars
<1>5. CASE j \in jobsByID /\ job[j].Canceled
  <2>1. cancelAnswer' = 200 /\ UNCHANGED vars
    BY <1>2, <1>5 DEF jobCancelStatus
  <2>2. settled(job[j])
    <3>1. ~alive(j) /\ ~waits(j)
      BY <1>5, Phases DEF LifeInv, isRunning, waits
    <3> QED
      BY <1>1, <3>1, Phases DEF LifeInv
  <2>3. settled(job'[followed'])
    BY <2>1, <2>2 DEF vars, jobVars
  <2> QED
    BY <1>1, <2>1, <2>3 DEF CancelOK
<1>6. CASE j \in jobsByID /\ ~job[j].Completed /\ ~job[j].Canceled
  <2>1. cancelAnswer' = 200 /\ j \in openJobs({j}) /\ cancelJobInternal({j}) /\ UNCHANGED runVars
    BY <1>2, <1>6 DEF jobCancelStatus, CancelJob
  <2>2. job[j] \in PipelineJob
    BY DEF LifeInv, RunnerInv, TypeOK
  <2>3. CASE ~job[j].Start
    <3> DEFINE u == [job[j] EXCEPT !.Canceled = TRUE]
    <3>1. job'[j] = u
      BY <2>1, <2>3 DEF cancelJobInternal
    <3>2. u.Canceled /\ ~u.Start
      BY <2>2, <2>3 DEF PipelineJob
    <3> HIDE DEF u
    <3>3. settled(job'[followed'])
      BY <3>1, <3>2 DEF settled
    <3> QED
      BY <1>1, <2>1, <3>3 DEF CancelOK
  <2>4. CASE job[j].Start
    <3>1. alive(j) /\ schedulerAtWork(j)
      BY <1>6, <2>4 DEF LifeInv, StartedOK, Scheduled
    <3>2. cancelGo'[j] = cancelGo[j] \cup ({job[j].sched} \ {"nil"})
      BY <2>1, <2>4 DEF cancelJobInternal
    <3>3. alive(j)' /\ (early(j)' => underCancel(j)')
      BY <2>1, <3>1, <3>2 DEF runVars, alive, early, underCancel, schedulerAtWork
    <3>4. alive(followed)' /\ (early(followed)' => underCancel(followed)')
      BY <3>3 DEF alive, early, underCancel
    <3> QED
      BY <1>1, <2>1, <3>4 DEF CancelOK
  <2> QED
    BY <2>3, <2>4
<1> QED
  BY <1>3, <1>4, <1>5, <1>6

\* Every step of the API.
LEMMA NextCancel ==
  ASSUME WellBehaved, LifeInv, Scheduled, ClientOK, CancelOK, [NextApi]_allVars
  PROVE  CancelOK'
<1>1. [Next]_vars
  BY ApiStep
<1>2. CASE UNCHANGED <<followed, cancelAnswer>>
  BY <1>1, <1>2, RunnerStepCancel
<1>3. ASSUME NEW j \in Jobs, pipelinesSchedule(j) PROVE CancelOK'
  <2>1. UNCHANGED cancelAnswer /\ followed' \in {followed, IF followed = NoJob THEN j ELSE followed}
    BY <1>3 DEF pipelinesSchedule
  <2>2. CASE followed' = followed
    BY <1>2, <2>1, <2>2
  <2>3. CASE followed = NoJob
    BY <2>1, <2>3 DEF CancelOK
  <2> QED
    BY <2>1, <2>2, <2>3
<1>4. ASSUME NEW j \in Jobs, jobCancel(j) PROVE CancelOK'
  <2>1. CASE UNCHANGED cancelAnswer
    BY <1>2, <1>4, <2>1 DEF jobCancel
  <2>2. CASE j = followed /\ cancelAnswer' = jobCancelStatus(j)
    BY <1>4, <2>2, OwnCancel DEF jobCancel
  <2> QED
    BY <1>4, <2>1, <2>2 DEF jobCancel
<1>5. CASE \/ \E handler \in {"detail", "logs"} : ReadBegins(handler)
           \/ jobDetail \/ jobLogs \/ Reader \/ Handlers \/ Saves \/ Stopped
           \/ UNCHANGED allVars
  BY <1>2, <1>5 DEF ReadBegins, jobDetail, jobLogs, Reader, Handlers, Saves, Stopped, allVars, apiVars
<1> QED
  BY <1>3, <1>4, <1>5 DEF NextApi

-----------------------------------------------------------------------------
(***************************************************************************)
(* ApiInv holds in every state of the API.                                 *)
(***************************************************************************)
THEOREM ApiInvariant == WellBehaved => (SpecApi => []ApiInv)
<1> SUFFICES ASSUME WellBehaved PROVE SpecApi => []ApiInv
  OBVIOUS
<1>1. InitApi => Scheduled /\ ClientOK /\ CancelOK
  <2> SUFFICES ASSUME InitApi PROVE Scheduled /\ ClientOK /\ CancelOK
    OBVIOUS
  <2>1. Scheduled
    BY DEF InitApi, Init, Scheduled, alive
  <2>2. followed = NoJob /\ request = "idle" /\ seen = notAsked /\ cancelAnswer = 0
    BY DEF InitApi
  <2>3. notAsked.status = 0 /\ notAsked # notFound /\ notAsked \in answers
    BY DEF notAsked, notFound, jobToResult, answers
  <2> QED
    BY <2>1, <2>2, <2>3 DEF ClientOK, CancelOK
<1>2. ApiInv /\ LifeInv' /\ [NextApi]_allVars => Scheduled' /\ ClientOK' /\ CancelOK'
  BY ApiStep, ScheduledKept, NextClient, NextCancel DEF ApiInv, LifeInv
<1>3. SpecApi => []LifeInv
  BY ApiSpec, LifeInvariant, PTL
<1> QED
  BY <1>1, <1>2, <1>3, PTL DEF SpecApi, ApiInv

(***************************************************************************)
(* A cancel does what its answer says: it always finds the scheduler at    *)
(* work; a job whose cancel was accepted is over or has its scheduler      *)
(* cancelled until on_error takes over, and never waits or starts again;   *)
(* one whose cancel was refused has completed, for good.                   *)
(***************************************************************************)
THEOREM CancelsAreHonoured == WellBehaved => (SpecApi => []CancelIsHonoured)
<1>1. ApiInv => CancelIsHonoured
  <2> SUFFICES ASSUME ApiInv PROVE CancelIsHonoured
    OBVIOUS
  <2>1. ASSUME NEW j \in openJobs(Jobs), job[j].Start PROVE schedulerAtWork(j)
    <3>1. j \in Jobs /\ alive(j)
      BY <2>1 DEF openJobs, ApiInv, LifeInv, StartedOK
    <3> QED
      BY <3>1 DEF ApiInv, Scheduled
  <2> QED
    BY <2>1 DEF CancelIsHonoured, ApiInv, CancelOK, early
<1> QED
  BY <1>1, ApiInvariant, PTL

(***************************************************************************)
(* The answers a client gets about its job never go back, how the job      *)
(* ended never changes, and only a job that is over is ever gone.          *)
(***************************************************************************)
THEOREM ReadsAreMonotone == WellBehaved => (SpecApi => MonotoneReads)
<1> SUFFICES ASSUME WellBehaved PROVE SpecApi => MonotoneReads
  OBVIOUS
<1>1. ApiInv /\ LifeInv' /\ [NextApi]_allVars => [Monotone]_allVars
  BY NextClient DEF ApiInv
<1>2. SpecApi => []ApiInv /\ []LifeInv
  BY ApiInvariant, ApiSpec, LifeInvariant, PTL
<1> QED
  BY <1>1, <1>2, PTL DEF SpecApi, MonotoneReads, Monotone

==============================================================================
