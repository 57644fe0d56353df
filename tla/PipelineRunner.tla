--------------------------- MODULE PipelineRunner ---------------------------
(***************************************************************************)
(* The PipelineRunner of prunner.go: which jobs exist, wait, run and are   *)
(* settled; the goroutine that runs each job; delayed starts; cancellation *)
(* (explicit and fail-fast); the on_error handler; definition reload; the  *)
(* persist loop with retention; and shutdown.                              *)
(*                                                                         *)
(* What the tasks of a job do is abstracted to the value Schedule returns  *)
(* and to the task failures it reports (module JobExecution has the        *)
(* detail).                                                                *)
(*                                                                         *)
(* Atomicity.  Every handler runs under r.mx, so a handler is one step,    *)
(* with one exception: startJobsOnWaitList may call startJob, which may    *)
(* call startJobsOnWaitList again, while the outer loop still holds its    *)
(* own copy of the wait list and of the free slot count.  The loop is      *)
(* therefore stepped, one wait list entry at a time, over an explicit      *)
(* stack of activations, "calls".  A non-empty stack means r.mx is held:   *)
(* no other step is enabled until the loop has returned.  (The steps that  *)
(* do not take r.mx in the code neither read nor write what the loop       *)
(* touches, so letting them wait for the end of the loop loses nothing.)   *)
(***************************************************************************)
EXTENDS WaitList, FiniteSets

CONSTANTS
  Jobs,          \* job identities (UUIDs)
  Pipelines,     \* pipeline names
  Partitions,    \* queue partitions a client may name
  Buildability,  \* subset of BOOLEAN: can buildPipelineGraph succeed / fail?
  InitDefs,      \* definitions the runner may be started with
  ReloadDefs     \* definitions a reload may find on disk

\* A set of definitions: some of the pipelines, each with a valid definition.
PipelinesDef(D) ==
  /\ DOMAIN D \subseteq Pipelines
  /\ \A p \in DOMAIN D : D[p] \in PipelineDef /\ validate(D[p])

ASSUME ConstantsAssumption ==
  /\ IsFiniteSet(Jobs)
  /\ Pipelines # {} /\ Partitions # {}
  /\ Buildability \subseteq BOOLEAN
  /\ \A D \in InitDefs \cup ReloadDefs : PipelinesDef(D)

VARIABLES
  defs,                \* r.defs.Pipelines: pipeline name -> PipelineDef
  jobsByID,            \* the jobs in r.jobsByID (and in r.jobsByPipeline)
  waitListByPipeline,  \* r.waitListByPipeline
  job,                 \* the PipelineJob structs, known to the runner or not
  timer,               \* the AfterFunc timer of a delayed job
  goroutine,           \* where the goroutine started by startJob is
  result,              \* its lastErr
  cancelGo,            \* schedulers with a started, unfinished Cancel goroutine
  cancelled,           \* has the job's current scheduler been cancelled?
  calls,               \* activations of startJobsOnWaitList, innermost first
  persistRequests,     \* is a request buffered in r.persistRequests?
  persistLoop,         \* the goroutine of NewPipelineRunner
  shutdown             \* progress of Shutdown

jobVars     == <<jobsByID, waitListByPipeline, job>>
runVars     == <<goroutine, result, cancelled>>
persistVars == <<persistRequests, persistLoop>>

vars == <<defs, jobVars, timer, runVars, cancelGo, calls, persistVars, shutdown>>

-----------------------------------------------------------------------------
(***************************************************************************)
(* PipelineJob.  Times are reduced to what is compared: Created is the     *)
(* rank of the job in creation order (0: not created yet), Start and       *)
(* StartDelay are the tests Start # nil and StartDelay > 0.  sched names   *)
(* the scheduler instance the job points to: the one of the task graph,    *)
(* the one of the on_error graph, or nil.  buildable is whether            *)
(* buildPipelineGraph accepts the job's tasks and variables.               *)
(***************************************************************************)
Schedulers == {"main", "error"}
Errors     == {"nil", "failed", "canceled", "graph"}

PipelineJob ==
  [ Pipeline       : Pipelines,
    queuePartition : Partitions,
    buildable      : BOOLEAN,
    StartDelay     : BOOLEAN,
    startTimer     : BOOLEAN,
    Created        : Nat,
    Start          : BOOLEAN,
    Completed      : BOOLEAN,
    Canceled       : BOOLEAN,
    LastError      : Errors,
    sched          : Schedulers \cup {"nil"} ]

created(rec)   == rec.Created # 0
isRunning(rec) == rec.Start /\ ~rec.Completed /\ ~rec.Canceled
settled(rec)   == rec.Completed \/ (rec.Canceled /\ ~rec.Start)

canBeStarted(rec) ==
  /\ ~(rec.StartDelay /\ rec.startTimer)
  /\ ~rec.Start
  /\ ~rec.Canceled

\* The jobs runningJobsCount counts, in the job table js and job map ids.
runningJobs(p, js, ids) == {k \in ids : js[k].Pipeline = p /\ isRunning(js[k])}

\* A pipeline that is no longer defined reads as the zero PipelineDef.
concurrency(p) == IF p \in DOMAIN defs THEN defs[p].Concurrency ELSE 0

\* Mutant: one job more than the concurrency limit may run.
freeSlotsOffByOne(p, js, ids) == concurrency(p) - Cardinality(runningJobs(p, js, ids)) + 1

freeSlots(p, js, ids) == concurrency(p) - Cardinality(runningJobs(p, js, ids))

mutexFree      == calls = <<>>

isShuttingDown == shutdown \in {"polling", "sleeping", "waiting", "done"}

(***************************************************************************)
(* The stack after a call of startJobsOnWaitList: one more activation, or  *)
(* none if the pipeline has no free slot.                                  *)
(***************************************************************************)
startJobsOnWaitList(p, js, ids, stack) ==
  IF freeSlots(p, js, ids) <= 0
  THEN stack
  ELSE <<[ pipeline  |-> p,
           todo      |-> waitListByPipeline[p],
           kept      |-> <<>>,
           freeSlots |-> freeSlots(p, js, ids) ]>> \o stack

\* Mutant: a start that fails does not make room for another job.
startJobGivesUp(j, js, ids, stack) ==
  /\ persistRequests' = TRUE
  /\ calls' = stack
  /\ job' = IF js[j].buildable
            THEN [js EXCEPT ![j].sched = "main", ![j].Start = TRUE]
            ELSE [js EXCEPT ![j].LastError = "graph", ![j].Canceled = TRUE]
  /\ goroutine' = [goroutine EXCEPT ![j] = IF js[j].buildable THEN "main" ELSE @]

(***************************************************************************)
(* startJob on the job table js: give the job a scheduler and either start *)
(* its goroutine or, if its graph cannot be built, cancel it and look for  *)
(* another job to start.                                                   *)
(***************************************************************************)
startJob(j, js, ids, stack) ==
  LET built  == [js EXCEPT ![j].sched = "main", ![j].Start = TRUE]
      failed == [js EXCEPT ![j].sched = "main", ![j].LastError = "graph",
                           ![j].Canceled = TRUE]
  IN  /\ persistRequests' = IF js[j].Canceled THEN persistRequests ELSE TRUE
      /\ IF js[j].Canceled
         THEN job' = js /\ calls' = stack /\ UNCHANGED goroutine
         ELSE IF js[j].buildable
              THEN /\ job' = built
                   /\ goroutine' = [goroutine EXCEPT ![j] = "main"]
                   /\ calls' = stack
              ELSE /\ job' = failed
                   /\ calls' = startJobsOnWaitList(js[j].Pipeline, failed, ids, stack)
                   /\ UNCHANGED goroutine

-----------------------------------------------------------------------------
\* A job identity that is not in use yet.
noJob ==
  [ Pipeline       |-> CHOOSE p \in Pipelines : TRUE,
    queuePartition |-> CHOOSE q \in Partitions : TRUE,
    buildable      |-> TRUE,
    StartDelay     |-> FALSE,
    startTimer     |-> FALSE,
    Created        |-> 0,
    Start          |-> FALSE,
    Completed      |-> FALSE,
    Canceled       |-> FALSE,
    LastError      |-> "nil",
    sched          |-> "nil" ]

newJob(p, q, b) ==
  [ Pipeline       |-> p,
    queuePartition |-> q,
    buildable      |-> b,
    StartDelay     |-> defs[p].StartDelay > 0,
    startTimer     |-> defs[p].StartDelay > 0,
    Created        |-> Cardinality({k \in Jobs : created(job[k])}) + 1,
    Start          |-> FALSE,
    Completed      |-> FALSE,
    Canceled       |-> FALSE,
    LastError      |-> "nil",
    sched          |-> "nil" ]

(***************************************************************************)
(* The end of ScheduleAsync for a job that is not started right away: arm  *)
(* the timer of a delayed job and let the queue strategy change the wait   *)
(* list.  A replaced job is cancelled and its timer stopped; a timer that  *)
(* has already fired cannot be stopped.  If modifyWaitList panics, the     *)
(* deferred calls still run: the job stays in jobsByID only.               *)
(***************************************************************************)
enqueue(p, j, js) ==
  LET def         == defs[p]
      wl          == waitListByPipeline[p]
      partitionOf == [k \in Jobs |-> js[k].queuePartition]
      replaced    == IF modifyPanics(def) THEN {} ELSE replacedJobs(def, wl, partitionOf, j)
  IN  /\ waitListByPipeline' =
           IF modifyPanics(def)
           THEN waitListByPipeline
           ELSE [waitListByPipeline EXCEPT ![p] = modifyWaitList(def, wl, partitionOf, j)]
      /\ job' = [k \in Jobs |-> IF k \in replaced
                                THEN [js[k] EXCEPT !.Canceled = TRUE, !.startTimer = FALSE]
                                ELSE js[k]]
      /\ timer' = [k \in Jobs |->
                     IF k = j
                     THEN IF js[j].StartDelay THEN "armed" ELSE "off"
                     ELSE IF k \in replaced /\ js[k].startTimer /\ timer[k] = "armed"
                          THEN "off"
                          ELSE timer[k]]
      /\ persistRequests' = TRUE
      /\ UNCHANGED <<goroutine, calls>>

ScheduleAsync(p, j, q, b) ==
  /\ mutexFree
  /\ ~isShuttingDown
  /\ p \in DOMAIN defs
  /\ canAcceptJob(defs[p], waitListByPipeline[p]) = "nil"
  /\ ~created(job[j])
  /\ LET js  == [job EXCEPT ![j] = newJob(p, q, b)]
         ids == jobsByID \cup {j}
     IN  /\ jobsByID' = ids
         /\ IF ~js[j].StartDelay /\ freeSlots(p, js, ids) > 0
            THEN startJob(j, js, ids, calls) /\ UNCHANGED <<waitListByPipeline, timer>>
            ELSE enqueue(p, j, js)
  /\ UNCHANGED <<defs, result, cancelled, cancelGo, persistLoop, shutdown>>

-----------------------------------------------------------------------------
(***************************************************************************)
(* The loop of startJobsOnWaitList, run by the innermost activation over   *)
(* its copy of the wait list: start the next job or keep it on the new     *)
(* wait list; at the end, write the new wait list back and return.         *)
(***************************************************************************)
\* Mutant: the free slots are not counted down.
WaitListStartUncounted ==
  /\ ~mutexFree
  /\ LET top == Head(calls)
         j   == Head(top.todo)
     IN  /\ top.todo # <<>>
         /\ canBeStarted(job[j])
         /\ startJob(j, job, jobsByID, <<[top EXCEPT !.todo = Tail(@)]>> \o Tail(calls))
  /\ UNCHANGED <<defs, jobsByID, waitListByPipeline, timer, result, cancelled, cancelGo,
                 persistLoop, shutdown>>

WaitListStart ==
  /\ ~mutexFree
  /\ LET top == Head(calls)
         j   == Head(top.todo)
     IN  /\ top.todo # <<>>
         /\ canBeStarted(job[j]) /\ top.freeSlots > 0
         /\ startJob(j, job, jobsByID,
                     <<[top EXCEPT !.todo = Tail(@), !.freeSlots = @ - 1]>> \o Tail(calls))
  /\ UNCHANGED <<defs, jobsByID, waitListByPipeline, timer, result, cancelled, cancelGo,
                 persistLoop, shutdown>>

\* Mutant: a job that cannot be started now is dropped from the wait list.
WaitListKeepDrops ==
  /\ ~mutexFree
  /\ LET top == Head(calls)
     IN  /\ top.todo # <<>>
         /\ ~(canBeStarted(job[Head(top.todo)]) /\ top.freeSlots > 0)
         /\ calls' = <<[top EXCEPT !.todo = Tail(@)]>> \o Tail(calls)
  /\ UNCHANGED <<defs, jobVars, timer, runVars, cancelGo, persistVars, shutdown>>

WaitListKeep ==
  /\ ~mutexFree
  /\ LET top == Head(calls)
         j   == Head(top.todo)
     IN  /\ top.todo # <<>>
         /\ ~(canBeStarted(job[j]) /\ top.freeSlots > 0)
         /\ calls' = <<[top EXCEPT !.todo = Tail(@), !.kept = Append(@, j)]>> \o Tail(calls)
  /\ UNCHANGED <<defs, jobVars, timer, runVars, cancelGo, persistVars, shutdown>>

WaitListReturn ==
  /\ ~mutexFree
  /\ Head(calls).todo = <<>>
  /\ waitListByPipeline' = [waitListByPipeline EXCEPT ![Head(calls).pipeline] = Head(calls).kept]
  /\ calls' = Tail(calls)
  /\ UNCHANGED <<defs, jobsByID, job, timer, runVars, cancelGo, persistVars, shutdown>>

-----------------------------------------------------------------------------
\* The runtime fires the AfterFunc timer: its callback now waits for r.mx.
TimerFires(j) ==
  /\ mutexFree
  /\ timer[j] = "armed"
  /\ timer' = [timer EXCEPT ![j] = "fired"]
  /\ UNCHANGED <<defs, jobVars, runVars, cancelGo, calls, persistVars, shutdown>>

StartDelayedJob(j) ==
  /\ mutexFree
  /\ timer[j] = "fired"
  /\ timer' = [timer EXCEPT ![j] = "off"]
  /\ IF j \notin jobsByID \/ job[j].Canceled
     THEN UNCHANGED <<job, calls>>
     ELSE /\ job' = [job EXCEPT ![j].startTimer = FALSE]
          /\ calls' = startJobsOnWaitList(job[j].Pipeline, job', jobsByID, calls)
  /\ UNCHANGED <<defs, jobsByID, waitListByPipeline, runVars, cancelGo, persistVars, shutdown>>

-----------------------------------------------------------------------------
(***************************************************************************)
(* cancelJobInternal, for every job of a set: a waiting job is marked as   *)
(* cancelled, where it stands on its wait list; for a running job a        *)
(* goroutine is started that will cancel the scheduler the job points to   *)
(* now.                                                                    *)
(***************************************************************************)
openJobs(S) == {k \in S \cap jobsByID : ~job[k].Canceled /\ ~job[k].Completed}

cancelJobInternal(S) ==
  /\ job' = [k \in Jobs |-> IF k \in openJobs(S) /\ ~job[k].Start
                            THEN [job[k] EXCEPT !.Canceled = TRUE]
                            ELSE job[k]]
  /\ cancelGo' = [k \in Jobs |-> IF k \in openJobs(S) /\ job[k].Start
                                 THEN cancelGo[k] \cup ({job[k].sched} \ {"nil"})
                                 ELSE cancelGo[k]]

\* cancelJobInternal asks for a save only if it marked a waiting job.
requestsPersist(S) == \E k \in openJobs(S) : ~job[k].Start

\* CancelJob, for a job it can still do something about.
CancelJob(j) ==
  /\ mutexFree
  /\ j \in openJobs({j})
  /\ cancelJobInternal({j})
  /\ persistRequests' = (persistRequests \/ requestsPersist({j}))
  /\ UNCHANGED <<defs, jobsByID, waitListByPipeline, timer, runVars, calls, persistLoop, shutdown>>

(***************************************************************************)
(* The goroutine started by cancelJobInternal runs Cancel of scheduler s.  *)
(* Cancel then waits for the tasks of that scheduler; it is not held back  *)
(* here, since the job's own goroutine waits for the same tasks and        *)
(* Shutdown waits for both.                                                *)
(***************************************************************************)
SchedulerCancel(j, s) ==
  /\ mutexFree
  /\ s \in cancelGo[j]
  /\ cancelGo' = [cancelGo EXCEPT ![j] = @ \ {s}]
  /\ cancelled' = [cancelled EXCEPT ![j] = @ \/ job[j].sched = s]
  /\ UNCHANGED <<defs, jobVars, timer, goroutine, result, calls, persistVars, shutdown>>

(***************************************************************************)
(* HandleTaskChange.  If the task failed by itself (errored) and unless    *)
(* the pipeline definition says to continue, the other tasks of the job    *)
(* are cancelled.                                                          *)
(***************************************************************************)
HandleTaskChange(j, errored) ==
  /\ mutexFree
  /\ goroutine[j] \in {"main", "handler"}
  /\ j \in jobsByID
  /\ LET p == job[j].Pipeline
         S == IF errored /\ p \in DOMAIN defs /\ ~defs[p].ContinueRunningTasksAfterFailure
              THEN {j} ELSE {}
     IN  cancelJobInternal(S)
  /\ persistRequests' = TRUE
  /\ UNCHANGED <<defs, jobsByID, waitListByPipeline, timer, runVars, calls, persistLoop, shutdown>>

-----------------------------------------------------------------------------
(***************************************************************************)
(* The goroutine of startJob:                                              *)
(*   main      in Schedule(graph)                                          *)
(*   failed    Schedule returned an error, RunJobErrorHandler is next      *)
(*   built     the on_error graph is built, its scheduler is not set yet   *)
(*   handler   in Schedule(errorGraph)                                     *)
(*   returning about to call JobCompleted                                  *)
(*   done      JobCompleted has run                                        *)
(***************************************************************************)
goroutineStates == {"none", "main", "failed", "built", "handler", "returning", "done"}

alive(j) == goroutine[j] \notin {"none", "done"}

(***************************************************************************)
(* Schedule(graph) returns.  It can return context.Canceled only if its    *)
(* scheduler was cancelled; a cancelled scheduler may also return nil or   *)
(* the error of a task that failed by itself.                              *)
(***************************************************************************)
ScheduleReturns(j, err) ==
  /\ mutexFree
  /\ goroutine[j] = "main"
  /\ err = "canceled" => cancelled[j]
  /\ result' = [result EXCEPT ![j] = err]
  /\ goroutine' = [goroutine EXCEPT ![j] = IF err = "nil" THEN "returning" ELSE "failed"]
  /\ UNCHANGED <<defs, jobVars, timer, cancelled, cancelGo, calls, persistVars, shutdown>>

\* Mutant: the scheduler of the tasks is given up before the on_error graph has one.
buildErrorGraphUnscheduled(j) ==
  /\ mutexFree
  /\ goroutine[j] = "failed"
  /\ LET p == job[j].Pipeline
     IN  goroutine' = [goroutine EXCEPT
                         ![j] = IF p \in DOMAIN defs /\ defs[p].OnError
                                THEN "built" ELSE "returning"]
  /\ job' = [job EXCEPT ![j].sched = "nil"]
  /\ UNCHANGED <<defs, jobsByID, waitListByPipeline, timer, result, cancelled, cancelGo, calls,
                 persistVars, shutdown>>

\* RunJobErrorHandler, first critical section: is there an on_error graph?
buildErrorGraph(j) ==
  /\ mutexFree
  /\ goroutine[j] = "failed"
  /\ LET p == job[j].Pipeline
     IN  goroutine' = [goroutine EXCEPT
                         ![j] = IF p \in DOMAIN defs /\ defs[p].OnError
                                THEN "built" ELSE "returning"]
  /\ UNCHANGED <<defs, jobVars, timer, result, cancelled, cancelGo, calls, persistVars, shutdown>>

\* RunJobErrorHandler, second critical section: a fresh scheduler.
initErrorScheduler(j) ==
  /\ mutexFree
  /\ goroutine[j] = "built"
  /\ job' = [job EXCEPT ![j].sched = "error"]
  /\ cancelled' = [cancelled EXCEPT ![j] = FALSE]
  /\ goroutine' = [goroutine EXCEPT ![j] = "handler"]
  /\ UNCHANGED <<defs, jobsByID, waitListByPipeline, timer, result, cancelGo, calls,
                 persistVars, shutdown>>

\* Schedule(errorGraph) returns; its error is only logged.
ErrorGraphReturns(j) ==
  /\ mutexFree
  /\ goroutine[j] = "handler"
  /\ goroutine' = [goroutine EXCEPT ![j] = "returning"]
  /\ UNCHANGED <<defs, jobVars, timer, result, cancelled, cancelGo, calls, persistVars, shutdown>>

\* Mutant: a completed job does not make room for a waiting one.
JobCompletedIdle(j) ==
  /\ mutexFree
  /\ goroutine[j] = "returning"
  /\ job' = [job EXCEPT ![j].sched     = "nil",
                        ![j].Completed = TRUE,
                        ![j].LastError = result[j],
                        ![j].Canceled  = @ \/ result[j] = "canceled"]
  /\ goroutine' = [goroutine EXCEPT ![j] = "done"]
  /\ result' = [result EXCEPT ![j] = "nil"]
  /\ cancelled' = [cancelled EXCEPT ![j] = FALSE]
  /\ persistRequests' = TRUE
  /\ UNCHANGED <<defs, jobsByID, waitListByPipeline, timer, cancelGo, calls, persistLoop, shutdown>>

JobCompleted(j) ==
  /\ mutexFree
  /\ goroutine[j] = "returning"
  /\ LET js == [job EXCEPT ![j].sched     = "nil",
                           ![j].Completed = TRUE,
                           ![j].LastError = result[j],
                           ![j].Canceled  = @ \/ result[j] = "canceled"]
     IN  /\ job' = js
         /\ calls' = startJobsOnWaitList(job[j].Pipeline, js, jobsByID, calls)
  /\ goroutine' = [goroutine EXCEPT ![j] = "done"]
  /\ result' = [result EXCEPT ![j] = "nil"]
  /\ cancelled' = [cancelled EXCEPT ![j] = FALSE]
  /\ persistRequests' = TRUE
  /\ UNCHANGED <<defs, jobsByID, waitListByPipeline, timer, cancelGo, persistLoop, shutdown>>

-----------------------------------------------------------------------------
\* ReplaceDefinitions: nothing but r.defs changes.
ReplaceDefinitions(D) ==
  /\ mutexFree
  /\ shutdown # "done"
  /\ defs' = D
  /\ UNCHANGED <<jobVars, timer, runVars, cancelGo, calls, persistVars, shutdown>>

\* Mutant: jobs are sorted oldest first.
indexAscending(j) ==
  Cardinality({k \in jobsByID : job[k].Pipeline = job[j].Pipeline /\ job[k].Created < job[j].Created})

(***************************************************************************)
(* determineIfJobShouldBeRemoved.  index is the position of the job among  *)
(* the known jobs of its pipeline, newest first; age is the Created rank   *)
(* up to which jobs are older than the retention period.                   *)
(***************************************************************************)
index(j) ==
  Cardinality({k \in jobsByID : job[k].Pipeline = job[j].Pipeline /\ job[k].Created > job[j].Created})

\* Mutant: jobs that have not finished are dropped as well.
determineIfJobShouldBeRemovedUnfinished(j, age) ==
  LET p == job[j].Pipeline
  IN  p \in DOMAIN defs =>
        /\ job[j].Start \/ job[j].Canceled
        /\ \/ defs[p].RetentionPeriod > 0 /\ job[j].Created <= age
           \/ defs[p].RetentionCount > 0 /\ index(j) >= defs[p].RetentionCount

determineIfJobShouldBeRemoved(j, age) ==
  LET p == job[j].Pipeline
  IN  \/ p \notin DOMAIN defs
      \/ /\ job[j].Start \/ job[j].Canceled
         /\ job[j].Completed \/ job[j].Canceled
         /\ \/ defs[p].RetentionPeriod > 0 /\ job[j].Created <= age
            \/ defs[p].RetentionCount > 0 /\ index(j) >= defs[p].RetentionCount

\* The part of SaveToStore that runs under the read lock.
removeExpiredJobs ==
  \E age \in [Pipelines -> 0 .. Cardinality(Jobs)] :
    jobsByID' = {j \in jobsByID : ~determineIfJobShouldBeRemoved(j, age[job[j].Pipeline])}

\* The persist loop takes a request off the channel ...
PersistRequested ==
  /\ mutexFree
  /\ persistLoop = "select" /\ persistRequests
  /\ persistLoop' = "saving"
  /\ persistRequests' = FALSE
  /\ UNCHANGED <<defs, jobVars, timer, runVars, cancelGo, calls, shutdown>>

\* ... and saves.
SaveToStore ==
  /\ mutexFree
  /\ persistLoop = "saving"
  /\ removeExpiredJobs
  /\ persistLoop' = "select"
  /\ UNCHANGED <<defs, waitListByPipeline, job, timer, runVars, cancelGo, calls,
                 persistRequests, shutdown>>

\* The context of the persist loop ends with the signal that ends prunner.
PersistLoopStops ==
  /\ mutexFree
  /\ shutdown # "no" /\ persistLoop = "select"
  /\ persistLoop' = "stopped"
  /\ UNCHANGED <<defs, jobVars, timer, runVars, cancelGo, calls, persistRequests, shutdown>>

-----------------------------------------------------------------------------
(***************************************************************************)
(* Shutdown: "no" before the signal, "signaled" after it, "polling" for    *)
(* running jobs, "sleeping" between two polls, "waiting" for goroutines    *)
(* (r.wg) and for the persist loop, "done" after the final save.           *)
(***************************************************************************)
shutdownStates == {"no", "signaled", "polling", "sleeping", "waiting", "done"}

Signal ==
  /\ mutexFree
  /\ shutdown = "no"
  /\ shutdown' = "signaled"
  /\ UNCHANGED <<defs, jobVars, timer, runVars, cancelGo, calls, persistVars>>

waitingJobs == UNION {ToSet(waitListByPipeline[p]) : p \in Pipelines}

\* Mutant: every known job is marked as cancelled, not only the waiting ones.
ShutdownBeginsMarkingAll ==
  /\ mutexFree
  /\ shutdown = "signaled"
  /\ shutdown' = "polling"
  /\ job' = [k \in Jobs |-> IF k \in jobsByID THEN [job[k] EXCEPT !.Canceled = TRUE] ELSE job[k]]
  /\ waitListByPipeline' = [p \in Pipelines |-> <<>>]
  /\ UNCHANGED <<defs, jobsByID, timer, runVars, cancelGo, calls, persistVars>>

\* Refuse new jobs, cancel and forget every job on a wait list.
ShutdownBegins ==
  /\ mutexFree
  /\ shutdown = "signaled"
  /\ shutdown' = "polling"
  /\ job' = [k \in Jobs |-> IF k \in waitingJobs
                            THEN [job[k] EXCEPT !.Canceled = TRUE]
                            ELSE job[k]]
  /\ waitListByPipeline' = [p \in Pipelines |-> <<>>]
  /\ UNCHANGED <<defs, jobsByID, timer, runVars, cancelGo, calls, persistVars>>

\* Mutant: jobs that were cancelled before they started count as running.
hasUnfinishedPipelines == \E j \in jobsByID : ~job[j].Completed

hasRunningPipelines == \E j \in jobsByID : isRunning(job[j])

ShutdownPolls ==
  /\ mutexFree
  /\ shutdown = "polling"
  /\ shutdown' = IF hasRunningPipelines THEN "sleeping" ELSE "waiting"
  /\ UNCHANGED <<defs, jobVars, timer, runVars, cancelGo, calls, persistVars>>

\* The poll interval has passed.
ShutdownWakes ==
  /\ mutexFree
  /\ shutdown = "sleeping"
  /\ shutdown' = "polling"
  /\ UNCHANGED <<defs, jobVars, timer, runVars, cancelGo, calls, persistVars>>

\* The forced shutdown context is done (SIGTERM): cancel every known job.
ShutdownForced ==
  /\ mutexFree
  /\ shutdown = "sleeping"
  /\ cancelJobInternal(jobsByID)
  /\ persistRequests' = (persistRequests \/ requestsPersist(jobsByID))
  /\ shutdown' = "waiting"
  /\ UNCHANGED <<defs, jobsByID, waitListByPipeline, timer, runVars, calls, persistLoop>>

\* Mutant: Shutdown does not wait for r.wg.
ShutdownEndsEarly ==
  /\ mutexFree
  /\ shutdown = "waiting"
  /\ persistLoop = "stopped"
  /\ removeExpiredJobs
  /\ shutdown' = "done"
  /\ UNCHANGED <<defs, waitListByPipeline, job, timer, runVars, cancelGo, calls, persistVars>>

\* r.wg is zero and the persist loop has ended: final SaveToStore.
ShutdownEnds ==
  /\ mutexFree
  /\ shutdown = "waiting"
  /\ \A j \in Jobs : ~alive(j) /\ cancelGo[j] = {}
  /\ persistLoop = "stopped"
  /\ removeExpiredJobs
  /\ shutdown' = "done"
  /\ UNCHANGED <<defs, waitListByPipeline, job, timer, runVars, cancelGo, calls, persistVars>>

-----------------------------------------------------------------------------
\* NewPipelineRunner on an empty store.
Init ==
  /\ defs \in InitDefs
  /\ jobsByID = {}
  /\ waitListByPipeline = [p \in Pipelines |-> <<>>]
  /\ job = [j \in Jobs |-> noJob]
  /\ timer = [j \in Jobs |-> "off"]
  /\ goroutine = [j \in Jobs |-> "none"]
  /\ result = [j \in Jobs |-> "nil"]
  /\ cancelGo = [j \in Jobs |-> {}]
  /\ cancelled = [j \in Jobs |-> FALSE]
  /\ calls = <<>>
  /\ persistRequests = FALSE
  /\ persistLoop = "select"
  /\ shutdown = "no"

\* prunner has exited.
Terminated == shutdown = "done" /\ UNCHANGED vars

WaitListLoop == WaitListStart \/ WaitListKeep \/ WaitListReturn

\* The goroutine of job j.
JobGoroutine(j) ==
  \/ \E err \in {"nil", "failed", "canceled"} : ScheduleReturns(j, err)
  \/ buildErrorGraph(j)
  \/ initErrorScheduler(j)
  \/ ErrorGraphReturns(j)
  \/ JobCompleted(j)

StartTimer(j) == TimerFires(j) \/ StartDelayedJob(j)

PersistLoop == PersistRequested \/ SaveToStore \/ PersistLoopStops

Shutdown == ShutdownBegins \/ ShutdownPolls \/ ShutdownWakes \/ ShutdownEnds

Next ==
  \/ WaitListLoop
  \/ \E j \in Jobs :
       \/ \E p \in Pipelines, q \in Partitions, b \in Buildability : ScheduleAsync(p, j, q, b)
       \/ CancelJob(j)
       \/ \E s \in Schedulers : SchedulerCancel(j, s)
       \/ \E errored \in BOOLEAN : HandleTaskChange(j, errored)
       \/ JobGoroutine(j)
       \/ StartTimer(j)
  \/ \E D \in ReloadDefs : ReplaceDefinitions(D)
  \/ PersistLoop
  \/ Signal
  \/ Shutdown
  \/ ShutdownForced
  \/ Terminated

Spec == Init /\ [][Next]_vars

-----------------------------------------------------------------------------
Activation ==
  [ pipeline : Pipelines, todo : Seq(Jobs), kept : Seq(Jobs), freeSlots : Int ]

\* Every variable of the runner keeps the type of the Go value it models.
TypeOK ==
  /\ PipelinesDef(defs)
  /\ jobsByID \subseteq Jobs
  /\ waitListByPipeline \in [Pipelines -> Seq(Jobs)]
  /\ job \in [Jobs -> PipelineJob]
  /\ timer \in [Jobs -> {"off", "armed", "fired"}]
  /\ goroutine \in [Jobs -> goroutineStates]
  /\ result \in [Jobs -> Errors]
  /\ cancelGo \in [Jobs -> SUBSET Schedulers]
  /\ cancelled \in [Jobs -> BOOLEAN]
  /\ calls \in Seq(Activation)
  /\ persistRequests \in BOOLEAN
  /\ persistLoop \in {"select", "saving", "stopped"}
  /\ shutdown \in shutdownStates

-----------------------------------------------------------------------------
\* The jobs of pipeline p whose goroutine really exists, known to the runner or not.
executing(p) == {j \in Jobs : alive(j) /\ job[j].Pipeline = p}

\* No pipeline has more jobs executing than before, or none more than its concurrency.
WithinLimit ==
  \A p \in Pipelines :
    executing(p)' \subseteq executing(p) \/ Cardinality(executing(p)') <= concurrency(p)

\* The jobs that wait for a slot: created, and neither started nor cancelled.
waits(j) == created(job[j]) /\ ~job[j].Start /\ ~job[j].Canceled

(***************************************************************************)
(* ScheduleAsync and startJobsOnWaitList count jobs by their flags and     *)
(* carry a free slot count through a loop; whatever they count, a step     *)
(* that starts job goroutines never leaves more of them alive than the     *)
(* concurrency the pipeline is defined with at that time.                  *)
(***************************************************************************)
StartsWithinLimit == [][WithinLimit]_vars

(***************************************************************************)
(* runningJobsCount, which every decision about free slots rests on, sees  *)
(* flags, not goroutines.  The two agree: a job whose goroutine is alive   *)
(* is known to the runner and has the flags of a running job, and no other *)
(* job has.                                                                *)
(***************************************************************************)
CountsWhatRuns ==
  \A j \in Jobs : alive(j) <=> j \in jobsByID /\ isRunning(job[j])

(***************************************************************************)
(* No accepted job gets lost: while no handler is running, every job that  *)
(* was neither started nor cancelled stands on the wait list of its        *)
(* pipeline, exactly once, and is known to the runner.                     *)
(***************************************************************************)
NoLostJob ==
  mutexFree =>
    \A j \in Jobs : waits(j) =>
      LET wl == waitListByPipeline[job[j].Pipeline]
      IN  /\ Cardinality({i \in DOMAIN wl : wl[i] = j}) = 1
          /\ j \in jobsByID

(***************************************************************************)
(* JobCompleted, StartDelayedJob and a failed start are the only places    *)
(* that look for a waiting job to start.  They suffice: between two        *)
(* handlers no startable job waits while its pipeline has a free slot.     *)
(***************************************************************************)
WorkConserving ==
  mutexFree =>
    \A j \in Jobs : waits(j) /\ canBeStarted(job[j]) =>
      Cardinality(executing(job[j].Pipeline)) >= concurrency(job[j].Pipeline)

(***************************************************************************)
(* First come, first served: a step that starts a job leaves no older job  *)
(* of that pipeline waiting that could have been started instead.          *)
(***************************************************************************)
StartsInOrder ==
  [][\A j, k \in Jobs :
       /\ ~alive(j) /\ alive(j)'
       /\ job[k].Pipeline = job'[j].Pipeline
       /\ waits(k) /\ canBeStarted(job[k])
       /\ waits(k)'
       => job[k].Created > job'[j].Created]_vars

\* A wait list within the limits of a definition.
withinLimits(def, wl, partitionOf) ==
  /\ def.QueueLimit # NoLimit => Len(wl) <= def.QueueLimit
  /\ def.QueuePartitionLimit # NoLimit =>
       \A q \in Partitions :
         Cardinality(partitionSlots(wl, partitionOf, q)) <= def.QueuePartitionLimit

jobPartition == [k \in Jobs |-> job[k].queuePartition]

(***************************************************************************)
(* The queue strategies keep the wait list within queue_limit, and each    *)
(* partition within queue_partition_limit.                                 *)
(***************************************************************************)
WaitListBounded ==
  \A p \in DOMAIN defs : withinLimits(defs[p], waitListByPipeline[p], jobPartition)

\* The waiting jobs that a step cancels in favour of a newly accepted one.
displaced(j) ==
  {k \in Jobs : /\ waits(k) /\ job'[k].Canceled
                /\ ~created(job[j]) /\ created(job'[j])}

(***************************************************************************)
(* modifyWaitList gives up the last slot only: a new job displaces at most *)
(* one waiting job, of its own pipeline and (with partitioned_replace) its *)
(* own partition, and the most recent one there, so that a tenant never    *)
(* loses a job to another tenant and an older job never to a newer one.    *)
(***************************************************************************)
DisplacesNewestOfPartition ==
  [][\A j \in Jobs : \A k \in displaced(j) :
       LET partitioned == defs[job[k].Pipeline].QueueStrategy = "partitioned_replace"
           rivals      == {i \in Jobs : /\ waits(i) /\ job[i].Pipeline = job[k].Pipeline
                                        /\ partitioned =>
                                             job[i].queuePartition = job[k].queuePartition}
       IN  /\ displaced(j) = {k}
           /\ job[k].Pipeline = job'[j].Pipeline
           /\ partitioned => job[k].queuePartition = job'[j].queuePartition
           /\ \A i \in rivals : job[i].Created <= job[k].Created]_vars

(***************************************************************************)
(* What the runner reports of a settled job is final: no later step of any *)
(* handler changes its flags or its error.                                 *)
(***************************************************************************)
SettledIsFinal ==
  [][\A j \in Jobs : settled(job[j]) =>
       /\ job'[j].Start     = job[j].Start
       /\ job'[j].Completed = job[j].Completed
       /\ job'[j].Canceled  = job[j].Canceled
       /\ job'[j].LastError = job[j].LastError]_vars

(***************************************************************************)
(* From the moment Shutdown has marked the waiting jobs none waits any     *)
(* more, so that nothing starts, whatever timers, completions and requests *)
(* were waiting for the mutex; and when Shutdown has returned no goroutine *)
(* is left and every job the runner ever accepted is settled.              *)
(***************************************************************************)
ShutdownIsComplete ==
  /\ isShuttingDown => \A j \in Jobs : ~waits(j)
  /\ shutdown = "done" =>
       \A j \in Jobs :
         /\ ~alive(j) /\ cancelGo[j] = {}
         /\ created(job[j]) => settled(job[j])

\* The phase of a job, as its clients see it.
phaseOf(j) ==
  IF ~created(job[j]) THEN "absent"
  ELSE IF alive(j) THEN "running"
  ELSE IF settled(job[j]) THEN "settled" ELSE "waiting"

Lifecycle == INSTANCE JobLifecycle
             WITH phase    <- [j \in Jobs |-> phaseOf(j)],
                  of       <- [j \in Jobs |-> job[j].Pipeline],
                  capacity <- [p \in Pipelines |-> concurrency(p)]

(***************************************************************************)
(* The runner implements the life of a job promised by module              *)
(* JobLifecycle: every step of a handler, goroutine, timer or shutdown is  *)
(* a step of that life, or none.                                           *)
(***************************************************************************)
ImplementsLifecycle == Lifecycle!Spec

-----------------------------------------------------------------------------
(***************************************************************************)
(* Why the runner is right.  The proofs of PipelineRunnerSafety need three *)
(* conditions on the definitions and the jobs; README.md (Findings) has    *)
(* what happens without them.                                              *)
(***************************************************************************)
NoneRemoved      == \A D \in InitDefs \cup ReloadDefs : DOMAIN D = Pipelines
AllBuildable     == Buildability \subseteq {TRUE}
ReplaceIsLimited == \A D \in InitDefs \cup ReloadDefs : \A p \in DOMAIN D : ~modifyPanics(D[p])

WellBehaved == NoneRemoved /\ AllBuildable /\ ReplaceIsLimited

(***************************************************************************)
(* The wait list of p as the code will have it once r.mx is released: a    *)
(* running startJobsOnWaitList will write back what it has kept and what   *)
(* it has not looked at, less what it starts.                              *)
(***************************************************************************)
queue(p) ==
  IF ~mutexFree /\ Head(calls).pipeline = p
  THEN Head(calls).kept \o Head(calls).todo
  ELSE waitListByPipeline[p]

\* A sequence of different jobs.
distinct(s) == \A i, k \in DOMAIN s : s[i] = s[k] => i = k

\* The reloads leave every pipeline defined, and none that makes modifyWaitList panic.
DefinitionsOK == DOMAIN defs = Pipelines /\ \A p \in Pipelines : ~modifyPanics(defs[p])

\* The flags of a job record agree with each other and with the job map.
FlagsOK ==
  \A j \in Jobs :
    /\ job[j].buildable
    /\ job[j].Completed => job[j].Start
    /\ j \in jobsByID => created(job[j])
    /\ waits(j) => j \in jobsByID

\* A queue holds created, unstarted jobs of its pipeline, none of them twice.
QueuesOK ==
  \A p \in Pipelines :
    /\ distinct(queue(p))
    /\ \A i \in DOMAIN queue(p) :
         LET rec == job[queue(p)[i]]
         IN  created(rec) /\ rec.Pipeline = p /\ ~rec.Start

\* Every waiting job is in the queue of its pipeline.
QueuesComplete ==
  \A j \in Jobs, p \in Pipelines :
    waits(j) /\ job[j].Pipeline = p => \E i \in DOMAIN queue(p) : queue(p)[i] = j

\* startJobsOnWaitList does not re-enter itself, and its free slots are those left.
SlotsOK ==
  ~mutexFree =>
    /\ Len(calls) = 1
    /\ Head(calls).freeSlots >= 0
    /\ \A p \in Pipelines :
         Head(calls).pipeline = p =>
           Cardinality(executing(p)) + Head(calls).freeSlots = concurrency(p)

(***************************************************************************)
(* The inductive invariant behind CountsWhatRuns, NoLostJob and            *)
(* StartsWithinLimit.  The flags alone are not inductive: a job that was   *)
(* started must be on no list any more (else shutdown or the queue         *)
(* strategy would mark it as cancelled while it runs), and the copy of the *)
(* list a running startJobsOnWaitList holds must be as good as the list    *)
(* itself.                                                                 *)
(***************************************************************************)
RunnerInv ==
  /\ TypeOK
  /\ DefinitionsOK
  /\ CountsWhatRuns
  /\ FlagsOK
  /\ QueuesOK
  /\ QueuesComplete
  /\ SlotsOK

-----------------------------------------------------------------------------
(***************************************************************************)
(* Why the wait lists are right.  Which job is displaced and which one is  *)
(* started is decided by positions on a list; the properties speak of when *)
(* jobs were created.  The two agree because a list stays in creation      *)
(* order through all that rewrites it.                                     *)
(***************************************************************************)

\* Created is a rank: no job has a higher one than there are jobs.
RanksOK == \A j \in Jobs : job[j].Created <= Cardinality({k \in Jobs : created(job[k])})

\* A sequence of jobs in creation order.
ordered(s, js) == \A i, k \in DOMAIN s : i < k => js[s[i]].Created < js[s[k]].Created

QueuesOrdered == \A p \in Pipelines : ordered(queue(p), job)

\* While startJobsOnWaitList has a free slot it has kept no job that could use it.
KeptOK ==
  ~mutexFree =>
    \/ Head(calls).freeSlots = 0
    \/ \A i \in DOMAIN Head(calls).kept : ~canBeStarted(job[Head(calls).kept[i]])

(***************************************************************************)
(* The inductive invariant behind DisplacesNewestOfPartition and, with the *)
(* ones below, behind WorkConserving, StartsInOrder and WaitListBounded.   *)
(***************************************************************************)
WaitListInv == RunnerInv /\ RanksOK /\ QueuesOrdered /\ KeptOK

(***************************************************************************)
(* No startable job of p waits while p has a free slot: true of every      *)
(* pipeline but the one startJobsOnWaitList is busy with, unless a reload  *)
(* makes room, which no handler looks for.                                 *)
(***************************************************************************)
conserving(p) ==
  \A j \in Jobs : waits(j) /\ canBeStarted(job[j]) /\ job[j].Pipeline = p =>
    Cardinality(executing(p)) >= concurrency(p)

OthersConserving ==
  \A p \in Pipelines : mutexFree \/ Head(calls).pipeline # p => conserving(p)

\* No reload raises a concurrency: ReplaceDefinitions starts no waiting job.
ConcurrencyNotRaised == [][\A p \in Pipelines : concurrency(p)' <= concurrency(p)]_vars

(***************************************************************************)
(* Every wait list is within its limits, as it is stored and as            *)
(* startJobsOnWaitList will write it back, unless a reload lowers them.    *)
(***************************************************************************)
QueuesBounded ==
  \A p \in Pipelines : /\ withinLimits(defs[p], waitListByPipeline[p], jobPartition)
                       /\ withinLimits(defs[p], queue(p), jobPartition)

notLowered(new, old) == new # NoLimit => old # NoLimit /\ new >= old

\* No reload lowers a limit: ReplaceDefinitions takes no job off a list.
LimitsNotLowered ==
  [][\A p \in Pipelines :
       /\ notLowered(defs'[p].QueueLimit, defs[p].QueueLimit)
       /\ notLowered(defs'[p].QueuePartitionLimit, defs[p].QueuePartitionLimit)]_vars

=============================================================================
