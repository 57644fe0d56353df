---------------------------- MODULE JobExecution ----------------------------
(***************************************************************************)
(* The execution of one job, from the moment startJob has started its      *)
(* goroutine until JobCompleted: the Scheduler that walks the task graph   *)
(* (taskctl/scheduler.go), the TaskRunner that runs one task per goroutine *)
(* (taskctl/runner.go), the callbacks into the PipelineRunner              *)
(* (HandleStageChange, HandleTaskChange), cancellation, by a client or     *)
(* because a task failed, and the on_error task.                           *)
(*                                                                         *)
(* A callback runs under r.mx and is one step together with the change it  *)
(* reports.  A script is reduced to how it ends.                           *)
(***************************************************************************)
EXTENDS Integers, FiniteSets

CONSTANTS
  Tasks,        \* the tasks of the pipeline
  OnErrorTask,  \* the task named OnErrorTaskName
  Graphs,       \* the depends_on relations of the pipelines considered
  FailFast,     \* subset of BOOLEAN: values of ~ContinueRunningTasksAfterFailure
  OnError,      \* subset of BOOLEAN: is an on_error task defined?
  NoTask

\* depends_on is acyclic: otherwise NewExecutionGraph refuses the graph.
acyclic(g) ==
  \A S \in SUBSET Tasks : S # {} => \E t \in S : g[t] \cap S = {}

ASSUME GraphsAssumption ==
  /\ IsFiniteSet(Tasks) /\ OnErrorTask \notin Tasks /\ NoTask \notin Tasks \cup {OnErrorTask}
  /\ FailFast \subseteq BOOLEAN /\ OnError \subseteq BOOLEAN
  /\ \A g \in Graphs : g \in [Tasks -> SUBSET Tasks] /\ acyclic(g)

AllTasks == Tasks \cup {OnErrorTask}

VARIABLES
  dependsOn,    \* the graph of the job
  allowFailure, \* the tasks with allow_failure
  failFast,     \* ~ContinueRunningTasksAfterFailure of the pipeline
  onError,      \* does the pipeline have an on_error task?
  stage,        \* status of the stages of the graph being executed
  worker,       \* where the goroutine of a stage is
  taskErr,      \* the error Run returned
  jt,           \* the jobTask structs: what the API shows of a task
  firstFailedTask,
  pc,           \* where the goroutine of the job is
  toVisit,      \* stages the current round of Schedule still has to look at
  lastErr,      \* lastErr of the current call of Schedule
  result,       \* what Schedule(graph) returned
  sched,        \* job.sched
  cancelled,    \* Scheduler.cancelled
  ctxDone,      \* is the context of the scheduler's TaskRunner cancelled?
  cancelGo,     \* goroutines in Scheduler.Cancel: their next steps
  job,          \* Completed, Canceled, LastError
  requested     \* history: did a client cancel the job while it ran?

config  == <<dependsOn, allowFailure, failFast, onError>>
taskVars == <<stage, worker, taskErr, jt, firstFailedTask>>
loopVars == <<pc, toVisit, lastErr, result>>
cancelVars == <<cancelled, ctxDone, cancelGo>>
vars == <<config, taskVars, loopVars, sched, cancelVars, job, requested>>

Schedulers  == {"main", "error"}
stageStates == {"waiting", "running", "done", "error", "canceled"}
errors      == {"nil", "failed", "canceled"}

\* The stages of the graph the job's scheduler executes.
nodes == IF sched = "main" THEN Tasks ELSE {OnErrorTask}
deps(t) == IF t = OnErrorTask THEN {} ELSE dependsOn[t]

-----------------------------------------------------------------------------
(***************************************************************************)
(* Callbacks into the PipelineRunner.                                      *)
(***************************************************************************)

\* Mutant: toStatus does not know the status.
HandleStageChangeUnknown(t, st) == [jt EXCEPT ![t].Status = ""]

\* Mutant: the status of the stage is shown for a cancelled task too.
HandleStageChangePlain(t, st) == [jt EXCEPT ![t].Status = st]

\* HandleStageChange: the status the API shows of task t, whose stage is now st.
HandleStageChange(t, st) ==
  [jt EXCEPT ![t].Status = IF jt[t].Canceled THEN "canceled" ELSE st]

\* cancelJobInternal on a started job: a goroutine that will run Cancel.
cancelJobInternal ==
  cancelGo' = IF job.Canceled \/ job.Completed \/ sched = "nil"
              THEN cancelGo
              ELSE [cancelGo EXCEPT ![sched] = @ \cup {"store"}]

\* Mutant: a failed task does not stop the others.
HandleTaskChangeNoFailFast(t, err) ==
  /\ jt' = [jt EXCEPT ![t].Canceled = @ \/ err = "canceled", ![t].Errored = @ \/ err = "failed"]
  /\ firstFailedTask' = IF err = "failed" /\ firstFailedTask = NoTask THEN t ELSE firstFailedTask
  /\ UNCHANGED cancelGo

(***************************************************************************)
(* HandleTaskChange: err is t.Error.  A task cancelled through the context *)
(* is marked as cancelled, a task that failed by itself as errored; the    *)
(* first one that failed is remembered, and a fail-fast pipeline cancels   *)
(* the job.                                                                *)
(***************************************************************************)
HandleTaskChange(t, err) ==
  /\ jt' = [jt EXCEPT ![t].Canceled = @ \/ err = "canceled",
                      ![t].Errored  = IF err = "canceled" THEN @ ELSE err = "failed"]
  /\ firstFailedTask' = IF err = "failed" /\ firstFailedTask = NoTask THEN t ELSE firstFailedTask
  /\ IF err = "failed" /\ failFast THEN cancelJobInternal ELSE UNCHANGED cancelGo

-----------------------------------------------------------------------------
(***************************************************************************)
(* Schedule: rounds over the waiting stages until all are done or the      *)
(* scheduler is cancelled; then wait for the stages that still run.        *)
(***************************************************************************)
isDone == \A t \in nodes : stage[t] \notin {"waiting", "running"}

ScheduleLoop ==
  /\ pc = "loop"
  /\ LET waiting == {t \in nodes : stage[t] = "waiting"}
     IN  IF isDone \/ cancelled[sched]
         THEN pc' = "wait" /\ UNCHANGED toVisit
         ELSE waiting # {} /\ pc' = "visit" /\ toVisit' = waiting
  /\ UNCHANGED <<config, taskVars, lastErr, result, sched, cancelVars, job, requested>>

\* Mutant: the stage of a task with a failed dependency stays waiting.
blockedNever(t) == FALSE

\* checkStatus: does a dependency rule out that the stage will ever run?
blocked(t) ==
  \E d \in deps(t) : stage[d] = "canceled" \/ (stage[d] = "error" /\ d \notin allowFailure)

\* Mutant: a dependency that ended in any way is good enough.
readyAfterAnyEnd(t) == \A d \in deps(t) : stage[d] \in {"done", "error"}

\* checkStatus: may the stage run now?
ready(t) ==
  \A d \in deps(t) : stage[d] = "done" \/ (stage[d] = "error" /\ d \in allowFailure)

VisitStage(t) ==
  /\ pc = "visit" /\ t \in toVisit
  /\ toVisit' = toVisit \ {t}
  /\ pc' = IF toVisit = {t} THEN "loop" ELSE "visit"
  /\ \/ /\ blocked(t)
        /\ stage' = [stage EXCEPT ![t] = "canceled"]
        /\ UNCHANGED <<worker, jt>>
     \/ /\ ready(t)
        /\ stage' = [stage EXCEPT ![t] = "running"]
        /\ jt' = HandleStageChange(t, "running")
        /\ worker' = [worker EXCEPT ![t] = "starting"]
     \/ /\ ~blocked(t) /\ ~ready(t)
        /\ UNCHANGED <<stage, worker, jt>>
  /\ UNCHANGED <<config, taskErr, firstFailedTask, lastErr, result, sched, cancelVars, job, requested>>

\* Mutant: Schedule does not wait for the stages that still run.
ScheduleReturnsEarly ==
  /\ pc = "wait"
  /\ IF sched = "main"
     THEN result' = lastErr /\ pc' = IF lastErr = "nil" THEN "returning" ELSE "failed"
     ELSE pc' = "returning" /\ UNCHANGED result
  /\ UNCHANGED <<config, taskVars, toVisit, lastErr, sched, cancelVars, job, requested>>

\* wg.Wait is over.  The error of the on_error graph is only logged.
ScheduleReturns ==
  /\ pc = "wait"
  /\ \A t \in nodes : worker[t] \in {"none", "ended"}
  /\ IF sched = "main"
     THEN result' = lastErr /\ pc' = IF lastErr = "nil" THEN "returning" ELSE "failed"
     ELSE pc' = "returning" /\ UNCHANGED result
  /\ UNCHANGED <<config, taskVars, toVisit, lastErr, sched, cancelVars, job, requested>>

-----------------------------------------------------------------------------
(***************************************************************************)
(* The goroutine of a stage:                                               *)
(*   starting   in Run, before execute                                     *)
(*   executing  in execute, the script runs                                *)
(*   returned   Run has returned                                           *)
(*   recording  the stage has failed, lastErr is not set yet               *)
(*   tolerated  the stage has failed, and may                              *)
(***************************************************************************)
workerStates == {"none", "starting", "executing", "returned", "recording", "tolerated", "ended"}

\* Run gives up: the context is cancelled, or no script or output could be set up.
RunRefuses(t) ==
  /\ worker[t] = "starting"
  /\ taskErr' = [taskErr EXCEPT ![t] = IF ctxDone[sched] THEN "canceled" ELSE "failed"]
  /\ worker' = [worker EXCEPT ![t] = "returned"]
  /\ UNCHANGED <<config, stage, jt, firstFailedTask, loopVars, sched, cancelVars, job, requested>>

\* Run calls execute, which reports the start of the task.
RunExecutes(t) ==
  /\ worker[t] = "starting"
  /\ ~ctxDone[sched]
  /\ worker' = [worker EXCEPT ![t] = "executing"]
  /\ HandleTaskChange(t, "nil")
  /\ UNCHANGED <<config, stage, taskErr, loopVars, sched, cancelled, ctxDone, job, requested>>

(***************************************************************************)
(* The script ends: well, with an exit status, with another error, or      *)
(* interrupted.  An interrupted process may still exit in its own way, and *)
(* an exit status is no error for a task with allow_failure.               *)
(***************************************************************************)
ExecuteReturns(t, outcome) ==
  /\ worker[t] = "executing"
  /\ outcome = "canceled" => ctxDone[sched]
  /\ LET err == CASE outcome = "ok" -> "nil"
                  [] outcome = "exit" -> IF t \in allowFailure THEN "nil" ELSE "failed"
                  [] outcome = "error" -> "failed"
                  [] outcome = "canceled" -> "canceled"
     IN  /\ taskErr' = [taskErr EXCEPT ![t] = err]
         /\ HandleTaskChange(t, err)
  /\ worker' = [worker EXCEPT ![t] = "returned"]
  /\ UNCHANGED <<config, stage, loopVars, sched, cancelled, ctxDone, job, requested>>

\* Run returned an error.
StageFails(t) ==
  /\ worker[t] = "returned" /\ taskErr[t] # "nil"
  /\ stage' = [stage EXCEPT ![t] = "error"]
  /\ jt' = HandleStageChange(t, "error")
  /\ worker' = [worker EXCEPT ![t] = IF t \in allowFailure THEN "tolerated" ELSE "recording"]
  /\ UNCHANGED <<config, taskErr, firstFailedTask, loopVars, sched, cancelVars, job, requested>>

\* Mutant: the error of a task is not reported to Schedule.
StageEndsSilently(t) ==
  /\ worker[t] = "recording"
  /\ worker' = [worker EXCEPT ![t] = "ended"]
  /\ UNCHANGED <<config, stage, taskErr, jt, firstFailedTask, loopVars, sched, cancelVars, job,
                 requested>>

\* The last goroutine to get here decides what Schedule returns.
StageRecordsError(t) ==
  /\ worker[t] = "recording"
  /\ lastErr' = taskErr[t]
  /\ worker' = [worker EXCEPT ![t] = "ended"]
  /\ UNCHANGED <<config, stage, taskErr, jt, firstFailedTask, pc, toVisit, result, sched,
                 cancelVars, job, requested>>

StageDone(t) ==
  /\ \/ worker[t] = "returned" /\ taskErr[t] = "nil"
     \/ worker[t] = "tolerated"
  /\ stage' = [stage EXCEPT ![t] = "done"]
  /\ jt' = HandleStageChange(t, "done")
  /\ worker' = [worker EXCEPT ![t] = "ended"]
  /\ UNCHANGED <<config, taskErr, firstFailedTask, loopVars, sched, cancelVars, job, requested>>

-----------------------------------------------------------------------------
\* CancelJob by a client, while the job runs.
CancelJob ==
  /\ ~job.Completed /\ ~job.Canceled
  /\ cancelJobInternal
  /\ requested' = TRUE
  /\ UNCHANGED <<config, taskVars, loopVars, sched, cancelled, ctxDone, job>>

\* Scheduler.Cancel, first step: no further stage is started ...
CancelStores(s) ==
  /\ "store" \in cancelGo[s]
  /\ cancelled' = [cancelled EXCEPT ![s] = TRUE]
  /\ cancelGo' = [cancelGo EXCEPT ![s] = (@ \ {"store"}) \cup {"cancel"}]
  /\ UNCHANGED <<config, taskVars, loopVars, sched, ctxDone, job, requested>>

\* Mutant: the context of the running tasks is not cancelled.
TaskRunnerCancelLost(s) ==
  /\ "cancel" \in cancelGo[s]
  /\ cancelGo' = [cancelGo EXCEPT ![s] = @ \ {"cancel"}]
  /\ UNCHANGED <<config, taskVars, loopVars, sched, cancelled, ctxDone, job, requested>>

\* ... second step: the TaskRunner cancels the context of the running tasks.
TaskRunnerCancel(s) ==
  /\ "cancel" \in cancelGo[s]
  /\ ctxDone' = [ctxDone EXCEPT ![s] = TRUE]
  /\ cancelGo' = [cancelGo EXCEPT ![s] = @ \ {"cancel"}]
  /\ UNCHANGED <<config, taskVars, loopVars, sched, cancelled, job, requested>>

-----------------------------------------------------------------------------
\* RunJobErrorHandler, first critical section: the on_error task joins the job.
buildErrorGraph ==
  /\ pc = "failed"
  /\ pc' = IF onError THEN "built" ELSE "returning"
  /\ UNCHANGED <<config, taskVars, toVisit, lastErr, result, sched, cancelVars, job, requested>>

\* Mutant: the on_error task is run by the scheduler of the tasks.
initErrorSchedulerReused ==
  /\ pc = "built"
  /\ sched' = "error"
  /\ cancelled' = [cancelled EXCEPT !["error"] = cancelled["main"]]
  /\ ctxDone' = [ctxDone EXCEPT !["error"] = ctxDone["main"]]
  /\ pc' = "loop"
  /\ lastErr' = "nil"
  /\ UNCHANGED <<config, taskVars, toVisit, result, cancelGo, job, requested>>

\* Second critical section: a fresh scheduler; then Schedule(errorGraph).
initErrorScheduler ==
  /\ pc = "built"
  /\ sched' = "error"
  /\ pc' = "loop"
  /\ lastErr' = "nil"
  /\ UNCHANGED <<config, taskVars, toVisit, result, cancelVars, job, requested>>

\* Mutant: every error counts as a cancellation.
JobCompletedCanceled ==
  /\ pc = "returning"
  /\ sched' = "nil"
  /\ job' = [Completed |-> TRUE, Canceled |-> result # "nil", LastError |-> result]
  /\ pc' = "done"
  /\ UNCHANGED <<config, taskVars, toVisit, lastErr, result, cancelVars, requested>>

JobCompleted ==
  /\ pc = "returning"
  /\ sched' = "nil"
  /\ job' = [Completed |-> TRUE,
             Canceled  |-> job.Canceled \/ result = "canceled",
             LastError |-> result]
  /\ pc' = "done"
  /\ UNCHANGED <<config, taskVars, toVisit, lastErr, result, cancelVars, requested>>

-----------------------------------------------------------------------------
\* startJob has started the goroutine of the job.
Init ==
  /\ dependsOn \in Graphs
  /\ allowFailure \in SUBSET Tasks
  /\ failFast \in FailFast
  /\ onError \in OnError
  /\ stage = [t \in AllTasks |-> "waiting"]
  /\ worker = [t \in AllTasks |-> "none"]
  /\ taskErr = [t \in AllTasks |-> "nil"]
  /\ jt = [t \in AllTasks |-> [Status |-> "waiting", Errored |-> FALSE, Canceled |-> FALSE]]
  /\ firstFailedTask = NoTask
  /\ pc = "loop"
  /\ toVisit = {}
  /\ lastErr = "nil"
  /\ result = "nil"
  /\ sched = "main"
  /\ cancelled = [s \in Schedulers |-> FALSE]
  /\ ctxDone = [s \in Schedulers |-> FALSE]
  /\ cancelGo = [s \in Schedulers |-> {}]
  /\ job = [Completed |-> FALSE, Canceled |-> FALSE, LastError |-> "nil"]
  /\ requested = FALSE

Schedule == ScheduleLoop \/ (\E t \in AllTasks : VisitStage(t)) \/ ScheduleReturns

JobGoroutine == Schedule \/ buildErrorGraph \/ initErrorScheduler \/ JobCompleted

outcomes == {"ok", "exit", "error", "canceled"}

ScriptEnds(t) == \E outcome \in outcomes : ExecuteReturns(t, outcome)

\* The steps of a stage's goroutine that do not wait for its script.
StageGoroutine(t) ==
  RunRefuses(t) \/ RunExecutes(t) \/ StageFails(t) \/ StageRecordsError(t) \/ StageDone(t)

Cancel(s) == CancelStores(s) \/ TaskRunnerCancel(s)

Terminated == pc = "done" /\ (\A s \in Schedulers : cancelGo[s] = {}) /\ UNCHANGED vars

Next ==
  \/ JobGoroutine
  \/ \E t \in AllTasks : StageGoroutine(t) \/ ScriptEnds(t)
  \/ CancelJob
  \/ \E s \in Schedulers : Cancel(s)
  \/ Terminated

Spec == Init /\ [][Next]_vars

(***************************************************************************)
(* Fairness: goroutines are scheduled.  A script need not end by itself,   *)
(* but it does once the context is cancelled: the executor kills its       *)
(* process group after the kill timeout.                                   *)
(***************************************************************************)
Fairness ==
  /\ WF_vars(JobGoroutine)
  /\ \A t \in AllTasks :
       WF_vars(StageGoroutine(t)) /\ WF_vars(sched # "nil" /\ ctxDone[sched] /\ ScriptEnds(t))
  /\ \A s \in Schedulers : WF_vars(CancelStores(s)) /\ WF_vars(TaskRunnerCancel(s))

FairSpec == Spec /\ Fairness

\* All scripts end by themselves.
ScriptsEnd == \A t \in AllTasks : WF_vars(ScriptEnds(t))

-----------------------------------------------------------------------------
\* Every variable keeps the type of the Go value it models.
TypeOK ==
  /\ dependsOn \in Graphs /\ allowFailure \subseteq Tasks
  /\ failFast \in BOOLEAN /\ onError \in BOOLEAN
  /\ stage \in [AllTasks -> stageStates]
  /\ worker \in [AllTasks -> workerStates]
  /\ taskErr \in [AllTasks -> errors]
  /\ jt \in [AllTasks -> [Status : stageStates, Errored : BOOLEAN, Canceled : BOOLEAN]]
  /\ firstFailedTask \in AllTasks \cup {NoTask}
  /\ pc \in {"loop", "visit", "wait", "failed", "built", "returning", "done"}
  /\ toVisit \subseteq AllTasks
  /\ lastErr \in errors /\ result \in errors
  /\ sched \in Schedulers \cup {"nil"}
  /\ cancelled \in [Schedulers -> BOOLEAN]
  /\ ctxDone \in [Schedulers -> BOOLEAN]
  /\ cancelGo \in [Schedulers -> SUBSET {"store", "cancel"}]
  /\ job \in [Completed : BOOLEAN, Canceled : BOOLEAN, LastError : errors]
  /\ requested \in BOOLEAN

busy(t) == worker[t] \notin {"none", "ended"}

(***************************************************************************)
(* depends_on: while a task is at work, every task it depends on, directly *)
(* or not, has ended, and none of them failed unless it was allowed to.    *)
(* Schedule decides this from statuses other goroutines change meanwhile.  *)
(***************************************************************************)
DependenciesHold ==
  \A t \in Tasks : worker[t] # "none" =>
    \A d \in dependsOn[t] :
      /\ worker[d] \in {"ended", "tolerated"}
      /\ taskErr[d] = "nil" \/ d \in allowFailure

(***************************************************************************)
(* JobCompleted is the end: no task of the job is at work any more, and    *)
(* the on_error task starts only when all other tasks have ended.          *)
(***************************************************************************)
NothingOutlivesSchedule ==
  /\ pc \in {"failed", "built", "returning", "done"} => \A t \in AllTasks : ~busy(t)
  /\ busy(OnErrorTask) => \A t \in Tasks : ~busy(t)

(***************************************************************************)
(* A failure is never swallowed: if a task without allow_failure did not   *)
(* end well, the completed job has an error; and if the failure was seen   *)
(* by HandleTaskChange, on_error gets to know a task that really failed.   *)
(***************************************************************************)
FailureIsReported ==
  /\ pc = "done" /\ (\E t \in Tasks \ allowFailure : taskErr[t] # "nil") => job.LastError # "nil"
  /\ firstFailedTask # NoTask => jt[firstFailedTask].Errored
  /\ pc = "built" /\ (\E t \in Tasks : jt[t].Errored) => firstFailedTask \in Tasks

(***************************************************************************)
(* A task that failed by itself under fail-fast: the scheduler is being    *)
(* cancelled or is cancelled, so no task that was waiting then outlasts    *)
(* the failure by waiting for its turn.                                    *)
(***************************************************************************)
FailFastCancels ==
  failFast =>
    \A t \in Tasks : jt[t].Errored =>
      cancelled["main"] \/ "store" \in cancelGo["main"]

(***************************************************************************)
(* The on_error task gets a scheduler of its own: a cancel that was meant  *)
(* for the tasks (fail-fast) does not keep it from running.                *)
(***************************************************************************)
OnErrorIsNotCancelledByFailFast ==
  ~requested /\ ~jt[OnErrorTask].Errored => ~cancelled["error"] /\ ~ctxDone["error"]

(***************************************************************************)
(* What the API shows of a task whose goroutine has ended agrees with how  *)
(* it ended.                                                               *)
(***************************************************************************)
StatusIsFinal ==
  \A t \in AllTasks : worker[t] = "ended" =>
    /\ jt[t].Status = IF jt[t].Canceled THEN "canceled" ELSE stage[t]
    /\ jt[t].Status = "done" => taskErr[t] = "nil" \/ t \in allowFailure
    /\ jt[t].Errored => taskErr[t] = "failed"

\* If all scripts end, the job completes, whoever cancels what and when.
JobCompletes == ScriptsEnd => <>(pc = "done")

\* Without on_error, a cancelled job completes even if its scripts would run forever.
CancelEndsPlainJob == requested /\ ~onError ~> pc = "done"

(***************************************************************************)
(* A job is marked as cancelled only if a client cancelled it or a task    *)
(* failed under fail-fast, and the on_error task runs only after one of    *)
(* the two or a failure: no error path takes one for the other.            *)
(***************************************************************************)
NothingWithoutCause ==
  /\ job.Canceled => requested \/ (failFast /\ firstFailedTask \in Tasks)
  /\ busy(OnErrorTask) => requested \/ \E t \in Tasks : taskErr[t] = "failed"

=============================================================================
