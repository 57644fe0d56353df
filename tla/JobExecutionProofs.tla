------------------------- MODULE JobExecutionProofs -------------------------
(***************************************************************************)
(* Proofs about JobExecution, for every set of tasks, every set of graphs  *)
(* over it and every setting of the pipeline: the type invariant and all   *)
(* the safety invariants the runs check.                                   *)
(*                                                                         *)
(* The invariants are not inductive: what a task's goroutine may do next   *)
(* depends on the status of its stage, on the error Run returned and on    *)
(* what the API shows of it, and what Schedule returns on who has recorded *)
(* an error.  Inv says how these belong together; it has one part for a    *)
(* task by itself, one for the goroutine of the job, one for the errors on *)
(* their way to Schedule's result and one for who asked for a cancel.      *)
(***************************************************************************)
EXTENDS JobExecution, TLAPS

\* The goroutine of a task, the stage, the error and what the API shows go
\* together: which statuses and errors each place of the goroutine allows.
TaskState(t) ==
  /\ worker[t] = "none" =>
       stage[t] \in {"waiting", "canceled"} /\ taskErr[t] = "nil" /\ ~jt[t].Errored
  /\ worker[t] \in {"starting", "executing"} =>
       stage[t] = "running" /\ taskErr[t] = "nil" /\ ~jt[t].Errored
  /\ worker[t] = "returned" => stage[t] = "running"
  /\ worker[t] = "recording" =>
       /\ stage[t] = "error" /\ taskErr[t] # "nil" /\ t \notin allowFailure
       /\ jt[t].Status = IF jt[t].Canceled THEN "canceled" ELSE "error"
  /\ worker[t] = "tolerated" => stage[t] = "error" /\ t \in allowFailure
  /\ worker[t] = "ended" =>
       /\ \/ stage[t] = "done" /\ (taskErr[t] = "nil" \/ t \in allowFailure)
          \/ stage[t] = "error" /\ taskErr[t] # "nil" /\ t \notin allowFailure
       /\ jt[t].Status = IF jt[t].Canceled THEN "canceled" ELSE stage[t]
  /\ jt[t].Errored => taskErr[t] = "failed"

TaskInv == \A t \in AllTasks : TaskState(t)

\* The goroutine of the job: which stages it looks at, which of its tasks may
\* be at work, and what the job already shows.
JobInv ==
  /\ pc = "visit" => \A t \in toVisit : t \in nodes /\ stage[t] = "waiting"
  /\ sched = "main" => worker[OnErrorTask] = "none"
  /\ sched # "main" => \A t \in Tasks : ~busy(t)
  /\ pc \in {"failed", "built", "returning", "done"} => \A t \in AllTasks : ~busy(t)
  /\ pc \in {"failed", "built"} => sched = "main"
  /\ sched = "nil" <=> pc = "done"
  /\ job.Completed <=> pc = "done"
  /\ job.Canceled => pc = "done" /\ result = "canceled"
  /\ pc = "done" => job.LastError = result

\* Somebody asked for the cancel: a client, or a task that failed under fail-fast.
cause == requested \/ (failFast /\ firstFailedTask \in Tasks)

\* What a run of on_error goes back to.
origin == requested \/ \E t \in Tasks : taskErr[t] = "failed"

\* From the error of a task to the result of Schedule.
ErrorInv ==
  /\ sched = "main" => \A t \in Tasks :
       worker[t] = "ended" /\ stage[t] = "error" => lastErr # "nil"
  /\ pc \in {"failed", "built"} \/ sched = "error" => result # "nil"
  /\ pc \in {"returning", "done"} => \A t \in Tasks : stage[t] = "error" => result # "nil"
  /\ sched = "main" /\ lastErr # "nil" => origin
  /\ result # "nil" => origin
  /\ \A t \in Tasks : taskErr[t] = "canceled" => cause
  /\ sched = "main" /\ lastErr = "canceled" => cause
  /\ result = "canceled" => cause

\* From a failure to the schedulers that are cancelled, and back.
BlameInv ==
  /\ firstFailedTask # NoTask => jt[firstFailedTask].Errored
  /\ \A t \in AllTasks : jt[t].Errored => firstFailedTask # NoTask
  /\ FailFastCancels
  /\ cancelled["main"] \/ ctxDone["main"] \/ cancelGo["main"] # {} => cause
  /\ ~requested /\ ~jt[OnErrorTask].Errored =>
       ~cancelled["error"] /\ ~ctxDone["error"] /\ cancelGo["error"] = {}

Inv == TypeOK /\ TaskInv /\ DependenciesHold /\ JobInv /\ ErrorInv /\ BlameInv

-----------------------------------------------------------------------------
\* The tasks of the graph and the on_error task are different things, and a
\* task depends on tasks of the graph only.
LEMMA TaskFacts ==
  ASSUME TypeOK
  PROVE  /\ OnErrorTask \in AllTasks /\ OnErrorTask \notin Tasks /\ NoTask \notin AllTasks
         /\ \A t \in AllTasks : t \in Tasks \/ t = OnErrorTask
         /\ Tasks \subseteq AllTasks
         /\ \A t \in Tasks : dependsOn[t] \subseteq Tasks
         /\ OnErrorTask \notin allowFailure
BY GraphsAssumption DEF AllTasks, TypeOK

\* HandleStageChange sets the status of one task and nothing else.
LEMMA StageChangeFields ==
  ASSUME TypeOK, NEW t \in AllTasks, NEW st \in stageStates, jt' = HandleStageChange(t, st)
  PROVE  /\ jt' \in [AllTasks -> [Status : stageStates, Errored : BOOLEAN, Canceled : BOOLEAN]]
         /\ \A u \in AllTasks :
              jt'[u].Errored = jt[u].Errored /\ jt'[u].Canceled = jt[u].Canceled
         /\ \A u \in AllTasks \ {t} : jt'[u] = jt[u]
         /\ jt'[t].Status = IF jt'[t].Canceled THEN "canceled" ELSE st
<1>1. jt \in [AllTasks -> [Status : stageStates, Errored : BOOLEAN, Canceled : BOOLEAN]]
  BY DEF TypeOK
<1>2. "canceled" \in stageStates
  BY DEF stageStates
<1>3. jt' = [jt EXCEPT ![t].Status = IF jt[t].Canceled THEN "canceled" ELSE st]
  BY DEF HandleStageChange
<1> QED
  BY <1>1, <1>2, <1>3

\* HandleTaskChange on the struct of the task.
LEMMA TaskChangeFields ==
  ASSUME TypeOK, NEW t \in AllTasks, NEW err \in errors, HandleTaskChange(t, err)
  PROVE  /\ jt' \in [AllTasks -> [Status : stageStates, Errored : BOOLEAN, Canceled : BOOLEAN]]
         /\ \A u \in AllTasks : jt'[u].Status = jt[u].Status
         /\ \A u \in AllTasks \ {t} : jt'[u] = jt[u]
         /\ jt'[t].Errored = (IF err = "canceled" THEN jt[t].Errored ELSE err = "failed")
<1>1. jt \in [AllTasks -> [Status : stageStates, Errored : BOOLEAN, Canceled : BOOLEAN]]
  BY DEF TypeOK
<1>2. jt' = [jt EXCEPT ![t].Canceled = @ \/ err = "canceled",
                       ![t].Errored  = IF err = "canceled" THEN @ ELSE err = "failed"]
  BY DEF HandleTaskChange
<1> QED
  BY <1>1, <1>2

\* A step that leaves the tasks alone leaves the invariants about them alone.
LEMMA TasksKept ==
  ASSUME TaskInv, DependenciesHold, UNCHANGED <<config, taskVars>>
  PROVE  TaskInv' /\ DependenciesHold'
BY DEF TaskInv, TaskState, DependenciesHold, config, taskVars

-----------------------------------------------------------------------------
\* Schedule at the head of its loop.
LEMMA ScheduleLoopStep ==
  ASSUME Inv, ScheduleLoop
  PROVE  Inv'
<1>1. /\ pc = "loop" /\ pc' \in {"wait", "visit"}
      /\ pc' = "visit" => toVisit' = {t \in nodes : stage[t] = "waiting"}
      /\ pc' = "wait" => toVisit' = toVisit
      /\ UNCHANGED <<config, taskVars, lastErr, result, sched, cancelVars, job, requested>>
  BY DEF ScheduleLoop
<1>2. TypeOK'
  <2>1. {t \in nodes : stage[t] = "waiting"} \subseteq AllTasks
    BY DEF nodes, AllTasks
  <2> QED BY <1>1, <2>1 DEF Inv, TypeOK, config, taskVars, cancelVars
<1>3. TaskInv' /\ DependenciesHold'
  BY <1>1, TasksKept DEF Inv
<1>4. JobInv'
  BY <1>1 DEF Inv, JobInv, nodes, busy, taskVars
<1>5. ErrorInv'
  BY <1>1 DEF Inv, ErrorInv, origin, cause, taskVars, config
<1>6. BlameInv'
  BY <1>1 DEF Inv, BlameInv, FailFastCancels, cause, taskVars, config, cancelVars
<1> QED BY <1>2, <1>3, <1>4, <1>5, <1>6 DEF Inv

\* Schedule looks at a stage: it is ruled out, it starts, or it has to wait.
LEMMA VisitStep ==
  ASSUME Inv, NEW t \in AllTasks, VisitStage(t)
  PROVE  Inv'
<1>1. /\ pc = "visit" /\ t \in toVisit /\ toVisit' = toVisit \ {t}
      /\ pc' = IF toVisit = {t} THEN "loop" ELSE "visit"
      /\ UNCHANGED <<config, taskErr, firstFailedTask, lastErr, result, sched, cancelVars, job,
                     requested>>
  BY DEF VisitStage
<1>2. t \in nodes /\ stage[t] = "waiting" /\ worker[t] = "none"
  <2>1. t \in nodes /\ stage[t] = "waiting"
    BY <1>1 DEF Inv, JobInv
  <2>2. worker[t] \in workerStates /\ TaskState(t)
    BY DEF Inv, TypeOK, TaskInv
  <2> QED BY <2>1, <2>2 DEF TaskState, workerStates
<1>3. (sched = "main" /\ t \in Tasks) \/ (sched = "error" /\ t = OnErrorTask)
  BY <1>1, <1>2, TaskFacts DEF Inv, JobInv, nodes, TypeOK, Schedulers
<1>4. \/ ready(t) /\ stage' = [stage EXCEPT ![t] = "running"]
                  /\ jt' = HandleStageChange(t, "running")
                  /\ worker' = [worker EXCEPT ![t] = "starting"]
      \/ stage' = [stage EXCEPT ![t] = "canceled"] /\ UNCHANGED <<worker, jt>>
      \/ UNCHANGED <<stage, worker, jt>>
  BY DEF VisitStage
<1>5. /\ jt' \in [AllTasks -> [Status : stageStates, Errored : BOOLEAN, Canceled : BOOLEAN]]
      /\ \A u \in AllTasks : jt'[u].Errored = jt[u].Errored
      /\ \A u \in AllTasks \ {t} : jt'[u] = jt[u]
  <2>1. CASE jt' = HandleStageChange(t, "running")
    BY <2>1, StageChangeFields DEF Inv, stageStates
  <2>2. CASE UNCHANGED jt
    BY <2>2 DEF Inv, TypeOK
  <2> QED BY <1>4, <2>1, <2>2
<1>6. /\ stage' \in [AllTasks -> stageStates] /\ worker' \in [AllTasks -> workerStates]
      /\ \A u \in AllTasks \ {t} : stage'[u] = stage[u] /\ worker'[u] = worker[u]
      /\ \/ ready(t) /\ stage'[t] = "running" /\ worker'[t] = "starting"
         \/ stage'[t] \in {"waiting", "canceled"} /\ worker'[t] = "none"
  BY <1>2, <1>4 DEF Inv, TypeOK, stageStates, workerStates
<1>7. TypeOK'
  BY <1>1, <1>5, <1>6 DEF Inv, TypeOK, config, cancelVars
<1>8. TaskInv'
  <2>1. TaskState(t)'
    BY <1>1, <1>2, <1>5, <1>6 DEF Inv, TaskInv, TaskState
  <2>2. ASSUME NEW u \in AllTasks \ {t}
        PROVE  TaskState(u)'
    BY <1>1, <1>5, <1>6 DEF Inv, TaskInv, TaskState, config
  <2> QED BY <2>1, <2>2 DEF TaskInv
<1>9. DependenciesHold'
  <2> SUFFICES ASSUME NEW u \in Tasks, worker'[u] # "none", NEW d \in dependsOn[u]
               PROVE  worker'[d] \in {"ended", "tolerated"} /\ (taskErr[d] = "nil" \/ d \in allowFailure)
    BY <1>1 DEF DependenciesHold, config
  <2>1. u \in AllTasks /\ d \in AllTasks
    BY TaskFacts DEF Inv
  <2>2. worker[d] \in {"ended", "tolerated"} /\ (taskErr[d] = "nil" \/ d \in allowFailure)
    <3>1. CASE u # t
      BY <3>1, <2>1, <1>6 DEF Inv, DependenciesHold
    <3>2. CASE u = t
      <4>1. stage[d] = "done" \/ (stage[d] = "error" /\ d \in allowFailure)
        BY <3>2, <1>6, TaskFacts DEF ready, deps, Inv
      <4>2. TaskState(d) /\ worker[d] \in workerStates
        BY <2>1 DEF Inv, TaskInv, TypeOK
      <4> QED BY <4>1, <4>2 DEF TaskState, workerStates
    <3> QED BY <3>1, <3>2
  <2>3. d # t
    BY <2>2, <1>2
  <2> QED BY <2>1, <2>2, <2>3, <1>6
<1>10. JobInv'
  <2>1. pc' = "visit" => \A u \in toVisit' : u \in nodes' /\ stage'[u] = "waiting"
    <3>1. \A u \in toVisit' : u \in AllTasks \ {t} /\ u \in nodes /\ stage[u] = "waiting"
      BY <1>1 DEF Inv, JobInv, TypeOK
    <3> QED BY <3>1, <1>1, <1>6 DEF nodes
  <2>2. /\ sched = "main" => worker'[OnErrorTask] = "none"
        /\ sched # "main" => \A u \in Tasks : ~busy(u)'
    BY <1>3, <1>6, TaskFacts DEF Inv, JobInv, busy
  <2> QED BY <2>1, <2>2, <1>1 DEF Inv, JobInv
<1>11. ErrorInv'
  <2>1. \A u \in Tasks : stage'[u] = "error" => stage[u] = "error" /\ worker'[u] = worker[u]
    BY <1>6, TaskFacts DEF Inv
  <2> QED BY <1>1, <2>1 DEF Inv, ErrorInv, origin, cause, config
<1>12. BlameInv'
  <2>1. firstFailedTask # NoTask => firstFailedTask \in AllTasks
    BY DEF Inv, TypeOK
  <2> QED BY <1>1, <1>5, <2>1, TaskFacts
          DEF Inv, BlameInv, FailFastCancels, cause, config, cancelVars
<1> QED BY <1>7, <1>8, <1>9, <1>10, <1>11, <1>12 DEF Inv

\* All stages of the graph have come to rest: Schedule returns.
LEMMA ScheduleReturnsStep ==
  ASSUME Inv, ScheduleReturns
  PROVE  Inv'
<1>1. /\ pc = "wait" /\ pc' \in {"returning", "failed"}
      /\ \A t \in nodes : ~busy(t)
      /\ \/ /\ sched = "main" /\ result' = lastErr
            /\ pc' = IF lastErr = "nil" THEN "returning" ELSE "failed"
         \/ sched # "main" /\ pc' = "returning" /\ result' = result
      /\ UNCHANGED <<config, taskVars, toVisit, lastErr, sched, cancelVars, job, requested>>
  BY DEF ScheduleReturns, busy
<1>2. \A t \in AllTasks : ~busy(t)
  BY <1>1, TaskFacts DEF Inv, JobInv, nodes, busy
<1>3. TypeOK'
  BY <1>1 DEF Inv, TypeOK, config, taskVars, cancelVars
<1>4. TaskInv' /\ DependenciesHold'
  BY <1>1, TasksKept DEF Inv
<1>5. JobInv'
  BY <1>1, <1>2 DEF Inv, JobInv, busy, taskVars
<1>6. ErrorInv'
  <2>1. \A t \in Tasks : stage[t] = "error" => worker[t] = "ended"
    BY <1>2, TaskFacts DEF Inv, TaskInv, TaskState, busy
  <2> QED BY <1>1, <2>1 DEF Inv, ErrorInv, JobInv, TypeOK, Schedulers, origin, cause, taskVars, config
<1>7. BlameInv'
  BY <1>1 DEF Inv, BlameInv, FailFastCancels, cause, taskVars, config, cancelVars
<1> QED BY <1>3, <1>4, <1>5, <1>6, <1>7 DEF Inv

-----------------------------------------------------------------------------
\* Whose task is at work tells which graph is executed.
LEMMA WhoIsBusy ==
  ASSUME Inv, NEW t \in AllTasks, busy(t)
  PROVE  /\ (sched = "main" /\ t \in Tasks) \/ (sched = "error" /\ t = OnErrorTask)
         /\ pc \in {"loop", "visit", "wait"}
         /\ ~job.Completed /\ ~job.Canceled
         /\ t \in Tasks => sched = "main"
         /\ t = OnErrorTask => sched = "error"
<1>1. pc \in {"loop", "visit", "wait"}
  BY DEF Inv, TypeOK, JobInv
<1>2. sched \in {"main", "error"}
  BY <1>1 DEF Inv, TypeOK, JobInv, Schedulers
<1>3. worker[OnErrorTask] = "none" => ~busy(OnErrorTask)
  BY DEF busy
<1> QED BY <1>1, <1>2, <1>3, TaskFacts DEF Inv, JobInv

\* A stage's goroutine that moves on without changing its stage or what the
\* API shows: the other tasks, and those that wait for it, see no difference.
LEMMA WorkerMoves ==
  ASSUME Inv, NEW t \in AllTasks, NEW w \in workerStates \ {"none"}, busy(t),
         worker[t] = "tolerated" => w \in {"tolerated", "ended"},
         worker' = [worker EXCEPT ![t] = w],
         \A u \in AllTasks \ {t} :
           stage'[u] = stage[u] /\ taskErr'[u] = taskErr[u] /\ jt'[u] = jt[u],
         taskErr'[t] = taskErr[t] \/ worker[t] \in {"starting", "executing"},
         TaskState(t)', UNCHANGED config
  PROVE  TaskInv' /\ DependenciesHold'
<1>1. \A u \in AllTasks \ {t} : worker'[u] = worker[u]
  BY DEF Inv, TypeOK
<1>2. worker'[t] = w
  BY DEF Inv, TypeOK
<1>3. TaskInv'
  BY <1>1 DEF Inv, TaskInv, TaskState, config
<1>4. DependenciesHold'
  <2> SUFFICES ASSUME NEW u \in Tasks, worker'[u] # "none", NEW d \in dependsOn[u]
               PROVE  worker'[d] \in {"ended", "tolerated"} /\ (taskErr'[d] = "nil" \/ d \in allowFailure)
    BY DEF DependenciesHold, config
  <2>1. u \in AllTasks /\ d \in AllTasks
    BY TaskFacts DEF Inv
  <2>2. worker[u] # "none"
    BY <1>1, <2>1 DEF busy
  <2>3. worker[d] \in {"ended", "tolerated"} /\ (taskErr[d] = "nil" \/ d \in allowFailure)
    BY <2>2 DEF Inv, DependenciesHold
  <2>4. CASE d # t
    BY <2>1, <2>3, <2>4, <1>1
  <2>5. CASE d = t
    BY <2>3, <2>5, <1>2 DEF busy
  <2> QED BY <2>4, <2>5
<1> QED BY <1>3, <1>4

\* Nor does the goroutine of the job, which waits for the task.
LEMMA WorkerLeavesJob ==
  ASSUME Inv, NEW t \in AllTasks, NEW w \in workerStates, busy(t),
         worker' = [worker EXCEPT ![t] = w],
         \A u \in AllTasks \ {t} : stage'[u] = stage[u],
         UNCHANGED <<pc, toVisit, result, sched, job>>
  PROVE  JobInv'
<1>1. \A u \in AllTasks \ {t} : worker'[u] = worker[u]
  BY DEF Inv, TypeOK
<1>2. pc' = "visit" => \A u \in toVisit' : u \in nodes' /\ stage'[u] = "waiting"
  <2>1. stage[t] # "waiting"
    BY DEF Inv, TaskInv, TaskState, busy, TypeOK, workerStates
  <2> QED BY <2>1 DEF Inv, JobInv, TypeOK, nodes
<1>3. pc \in {"loop", "visit", "wait"}
  BY WhoIsBusy
<1>4. sched = "main" => worker'[OnErrorTask] = "none"
  BY <1>1, WhoIsBusy, TaskFacts DEF Inv, JobInv
<1>5. sched # "main" => \A u \in Tasks : ~busy(u)'
  BY <1>1, WhoIsBusy, TaskFacts DEF Inv, JobInv, busy
<1> QED BY <1>2, <1>3, <1>4, <1>5 DEF Inv, JobInv

\* Run gives up before the script starts.
LEMMA RunRefusesStep ==
  ASSUME Inv, NEW t \in AllTasks, RunRefuses(t)
  PROVE  Inv'
<1>1. /\ worker[t] = "starting" /\ worker' = [worker EXCEPT ![t] = "returned"]
      /\ taskErr' = [taskErr EXCEPT ![t] = IF ctxDone[sched] THEN "canceled" ELSE "failed"]
      /\ UNCHANGED <<config, stage, jt, firstFailedTask, loopVars, sched, cancelVars, job, requested>>
  BY DEF RunRefuses
<1>2. busy(t) /\ TaskState(t) /\ taskErr[t] = "nil"
  BY <1>1 DEF busy, Inv, TaskInv, TaskState
<1>3. /\ taskErr' \in [AllTasks -> errors] /\ worker' \in [AllTasks -> workerStates]
      /\ \A u \in AllTasks \ {t} : taskErr'[u] = taskErr[u] /\ worker'[u] = worker[u]
      /\ taskErr'[t] = (IF ctxDone[sched] THEN "canceled" ELSE "failed")
      /\ worker'[t] = "returned"
  BY <1>1 DEF Inv, TypeOK, errors, workerStates
<1>4. TypeOK'
  BY <1>1, <1>3 DEF Inv, TypeOK, config, loopVars, cancelVars
<1>5. TaskInv' /\ DependenciesHold'
  <2>1. TaskState(t)'
    BY <1>1, <1>2, <1>3 DEF TaskState
  <2> QED BY <2>1, <1>1, <1>2, <1>3, WorkerMoves DEF workerStates
<1>6. JobInv'
  BY <1>1, <1>2, WorkerLeavesJob DEF workerStates, loopVars
<1>7. ErrorInv'
  <2>1. origin => origin'
    BY <1>1, <1>2, <1>3, TaskFacts DEF origin, Inv
  <2>2. taskErr'[t] = "canceled" /\ t \in Tasks => cause
    BY <1>2, <1>3, WhoIsBusy DEF Inv, BlameInv
  <2>3. \A u \in Tasks : worker'[u] = "ended" => worker[u] = "ended"
    BY <1>3, TaskFacts DEF Inv
  <2>4. \A u \in Tasks : taskErr'[u] = "canceled" => cause
    BY <1>3, <2>2, TaskFacts DEF Inv, ErrorInv
  <2> QED BY <1>1, <2>1, <2>3, <2>4 DEF Inv, ErrorInv, cause, config, loopVars
<1>8. BlameInv'
  BY <1>1 DEF Inv, BlameInv, FailFastCancels, cause, config, cancelVars
<1> QED BY <1>4, <1>5, <1>6, <1>7, <1>8 DEF Inv

(***************************************************************************)
(* HandleTaskChange for a task whose Run has not returned yet: the first   *)
(* failure is remembered, and under fail-fast a failure cancels the        *)
(* scheduler that runs the task, and only that one.                        *)
(***************************************************************************)
LEMMA BlameStep ==
  ASSUME Inv, NEW t \in AllTasks, NEW err \in errors,
         worker[t] \in {"starting", "executing"}, HandleTaskChange(t, err),
         UNCHANGED <<config, sched, cancelled, ctxDone, requested>>
  PROVE  /\ BlameInv'
         /\ cause => cause'
         /\ firstFailedTask' \in AllTasks \cup {NoTask}
         /\ cancelGo' \in [Schedulers -> SUBSET {"store", "cancel"}]
<1>1. busy(t) /\ ~jt[t].Errored
  BY DEF busy, Inv, TaskInv, TaskState
<1>2. /\ ~job.Completed /\ ~job.Canceled
      /\ (sched = "main" /\ t \in Tasks) \/ (sched = "error" /\ t = OnErrorTask)
  BY <1>1, WhoIsBusy
<1>3. /\ \A u \in AllTasks \ {t} : jt'[u] = jt[u]
      /\ jt'[t].Errored = (err = "failed")
  BY <1>1, TaskChangeFields DEF Inv, errors
<1>4. /\ firstFailedTask' = IF err = "failed" /\ firstFailedTask = NoTask THEN t ELSE firstFailedTask
      /\ cancelGo' = IF err = "failed" /\ failFast THEN [cancelGo EXCEPT ![sched] = @ \cup {"store"}]
                                                   ELSE cancelGo
  BY <1>2 DEF HandleTaskChange, cancelJobInternal
<1>5. /\ firstFailedTask' \in AllTasks \cup {NoTask}
      /\ cancelGo' \in [Schedulers -> SUBSET {"store", "cancel"}]
  BY <1>2, <1>4 DEF Inv, TypeOK, Schedulers
<1>6. /\ t \in Tasks => cancelGo'["error"] = cancelGo["error"]
      /\ t = OnErrorTask => cancelGo'["main"] = cancelGo["main"]
      /\ t \in Tasks /\ err = "failed" /\ failFast => "store" \in cancelGo'["main"]
      /\ "store" \in cancelGo["main"] => "store" \in cancelGo'["main"]
      /\ cancelGo'["main"] # cancelGo["main"] => t \in Tasks /\ err = "failed" /\ failFast
  BY <1>2, <1>4, TaskFacts DEF Inv, TypeOK, Schedulers
<1>7. firstFailedTask # NoTask => firstFailedTask' = firstFailedTask /\ firstFailedTask # t
  BY <1>1, <1>4 DEF Inv, BlameInv
<1>8. t \in Tasks => firstFailedTask # OnErrorTask
  <2> SUFFICES ASSUME t \in Tasks, firstFailedTask = OnErrorTask
               PROVE  FALSE
    OBVIOUS
  <2>1. worker[OnErrorTask] = "none"
    BY <1>2, TaskFacts DEF Inv, JobInv
  <2> QED BY <2>1, TaskFacts DEF Inv, BlameInv, TaskInv, TaskState
<1>9. cause => cause'
  BY <1>7, TaskFacts DEF cause, config, Inv
<1>10. firstFailedTask' # NoTask => jt'[firstFailedTask'].Errored
  <2>1. CASE firstFailedTask # NoTask
    BY <2>1, <1>3, <1>7 DEF Inv, BlameInv, TypeOK
  <2>2. CASE firstFailedTask = NoTask
    BY <2>2, <1>3, <1>4
  <2> QED BY <2>1, <2>2
<1>11. \A u \in AllTasks : jt'[u].Errored => firstFailedTask' # NoTask
  BY <1>3, <1>4, TaskFacts DEF Inv, BlameInv
<1>12. FailFastCancels'
  <2> SUFFICES ASSUME failFast, NEW u \in Tasks, jt'[u].Errored
               PROVE  cancelled["main"] \/ "store" \in cancelGo'["main"]
    BY DEF FailFastCancels, config
  <2>1. CASE u = t
    BY <2>1, <1>3, <1>6
  <2>2. CASE u # t
    BY <2>2, <1>3, <1>6, TaskFacts DEF Inv, BlameInv, FailFastCancels
  <2> QED BY <2>1, <2>2
<1>13. cancelled["main"] \/ ctxDone["main"] \/ cancelGo'["main"] # {} => cause'
  <2>1. CASE cancelGo'["main"] = cancelGo["main"]
    BY <2>1, <1>9 DEF Inv, BlameInv
  <2>2. CASE cancelGo'["main"] # cancelGo["main"]
    <3>1. t \in Tasks /\ err = "failed" /\ failFast
      BY <2>2, <1>6
    <3>2. firstFailedTask' \in Tasks
      BY <3>1, <1>4, <1>8, TaskFacts DEF Inv, TypeOK, AllTasks
    <3> QED BY <3>1, <3>2 DEF cause, config
  <2> QED BY <2>1, <2>2
<1>14. ~requested /\ ~jt'[OnErrorTask].Errored =>
         ~cancelled["error"] /\ ~ctxDone["error"] /\ cancelGo'["error"] = {}
  <2>1. CASE t = OnErrorTask
    BY <2>1, <1>1, <1>3, <1>4 DEF Inv, BlameInv
  <2>2. CASE t # OnErrorTask
    BY <2>2, <1>2, <1>3, <1>6, TaskFacts DEF Inv, BlameInv
  <2> QED BY <2>1, <2>2
<1> QED BY <1>5, <1>9, <1>10, <1>11, <1>12, <1>13, <1>14 DEF BlameInv

\* Run starts the script.
LEMMA RunExecutesStep ==
  ASSUME Inv, NEW t \in AllTasks, RunExecutes(t)
  PROVE  Inv'
<1>1. /\ worker[t] = "starting" /\ worker' = [worker EXCEPT ![t] = "executing"]
      /\ HandleTaskChange(t, "nil")
      /\ UNCHANGED <<config, stage, taskErr, loopVars, sched, cancelled, ctxDone, job, requested>>
  BY DEF RunExecutes
<1>2. busy(t) /\ TaskState(t)
  BY <1>1 DEF busy, Inv, TaskInv
<1>3. /\ jt' \in [AllTasks -> [Status : stageStates, Errored : BOOLEAN, Canceled : BOOLEAN]]
      /\ \A u \in AllTasks \ {t} : jt'[u] = jt[u]
      /\ ~jt'[t].Errored
  BY <1>1, TaskChangeFields DEF Inv, errors
<1>4. /\ BlameInv' /\ (cause => cause')
      /\ firstFailedTask' \in AllTasks \cup {NoTask}
      /\ cancelGo' \in [Schedulers -> SUBSET {"store", "cancel"}]
  BY <1>1, BlameStep DEF errors
<1>5. /\ worker' \in [AllTasks -> workerStates] /\ worker'[t] = "executing"
      /\ \A u \in AllTasks \ {t} : worker'[u] = worker[u]
  BY <1>1 DEF Inv, TypeOK, workerStates
<1>6. TypeOK'
  BY <1>1, <1>3, <1>4, <1>5 DEF Inv, TypeOK, config, loopVars
<1>7. TaskInv' /\ DependenciesHold'
  <2>1. TaskState(t)'
    BY <1>1, <1>2, <1>3, <1>5 DEF TaskState
  <2> QED BY <2>1, <1>1, <1>2, <1>3, WorkerMoves DEF workerStates
<1>8. JobInv'
  BY <1>1, <1>2, WorkerLeavesJob DEF workerStates, loopVars
<1>9. ErrorInv'
  <2>1. \A u \in Tasks : worker'[u] = "ended" => worker[u] = "ended"
    BY <1>5, TaskFacts DEF Inv
  <2> QED BY <1>1, <1>4, <2>1 DEF Inv, ErrorInv, origin, loopVars
<1> QED BY <1>4, <1>6, <1>7, <1>8, <1>9 DEF Inv

\* The script has ended, in one way or another.
LEMMA ExecuteReturnsStep ==
  ASSUME Inv, NEW t \in AllTasks, NEW outcome \in outcomes, ExecuteReturns(t, outcome)
  PROVE  Inv'
<1> DEFINE err == CASE outcome = "ok" -> "nil"
                    [] outcome = "exit" -> IF t \in allowFailure THEN "nil" ELSE "failed"
                    [] outcome = "error" -> "failed"
                    [] outcome = "canceled" -> "canceled"
<1>1. /\ worker[t] = "executing" /\ worker' = [worker EXCEPT ![t] = "returned"]
      /\ outcome = "canceled" => ctxDone[sched]
      /\ taskErr' = [taskErr EXCEPT ![t] = err]
      /\ HandleTaskChange(t, err)
      /\ UNCHANGED <<config, stage, loopVars, sched, cancelled, ctxDone, job, requested>>
  BY DEF ExecuteReturns
<1>2. err \in errors /\ (err = "canceled" => ctxDone[sched])
  BY <1>1 DEF outcomes, errors
<1> HIDE DEF err
<1>3. busy(t) /\ TaskState(t) /\ taskErr[t] = "nil" /\ ~jt[t].Errored
  BY <1>1 DEF busy, Inv, TaskInv, TaskState
<1>4. /\ jt' \in [AllTasks -> [Status : stageStates, Errored : BOOLEAN, Canceled : BOOLEAN]]
      /\ \A u \in AllTasks \ {t} : jt'[u] = jt[u]
      /\ jt'[t].Errored = (err = "failed")
  BY <1>1, <1>2, <1>3, TaskChangeFields DEF Inv
<1>5. /\ BlameInv' /\ (cause => cause')
      /\ firstFailedTask' \in AllTasks \cup {NoTask}
      /\ cancelGo' \in [Schedulers -> SUBSET {"store", "cancel"}]
  BY <1>1, <1>2, BlameStep
<1>6. /\ taskErr' \in [AllTasks -> errors] /\ worker' \in [AllTasks -> workerStates]
      /\ \A u \in AllTasks \ {t} : taskErr'[u] = taskErr[u] /\ worker'[u] = worker[u]
      /\ taskErr'[t] = err /\ worker'[t] = "returned"
  BY <1>1, <1>2 DEF Inv, TypeOK, workerStates
<1>7. TypeOK'
  BY <1>1, <1>4, <1>5, <1>6 DEF Inv, TypeOK, config, loopVars
<1>8. TaskInv' /\ DependenciesHold'
  <2>1. TaskState(t)'
    BY <1>1, <1>3, <1>4, <1>6 DEF TaskState
  <2> QED BY <2>1, <1>1, <1>3, <1>4, <1>6, WorkerMoves DEF workerStates
<1>9. JobInv'
  BY <1>1, <1>3, WorkerLeavesJob DEF workerStates, loopVars
<1>10. ErrorInv'
  <2>1. origin => origin'
    BY <1>1, <1>3, <1>6, TaskFacts DEF origin, Inv
  <2>2. taskErr'[t] = "canceled" /\ t \in Tasks => cause
    BY <1>2, <1>3, <1>6, WhoIsBusy DEF Inv, BlameInv
  <2>3. \A u \in Tasks : worker'[u] = "ended" => worker[u] = "ended"
    BY <1>6, TaskFacts DEF Inv
  <2>4. \A u \in Tasks : taskErr'[u] = "canceled" => cause
    BY <1>6, <2>2, TaskFacts DEF Inv, ErrorInv
  <2> QED BY <1>1, <1>5, <2>1, <2>3, <2>4 DEF Inv, ErrorInv, loopVars
<1> QED BY <1>5, <1>7, <1>8, <1>9, <1>10 DEF Inv

\* Run returned an error: the stage has failed.
LEMMA StageFailsStep ==
  ASSUME Inv, NEW t \in AllTasks, StageFails(t)
  PROVE  Inv'
<1> DEFINE w == IF t \in allowFailure THEN "tolerated" ELSE "recording"
<1>1. /\ worker[t] = "returned" /\ taskErr[t] # "nil"
      /\ worker' = [worker EXCEPT ![t] = w]
      /\ stage' = [stage EXCEPT ![t] = "error"]
      /\ jt' = HandleStageChange(t, "error")
      /\ UNCHANGED <<config, taskErr, firstFailedTask, loopVars, sched, cancelVars, job, requested>>
  BY DEF StageFails
<1>2. busy(t) /\ TaskState(t) /\ w \in {"tolerated", "recording"}
  BY <1>1 DEF busy, Inv, TaskInv
<1>3. /\ jt' \in [AllTasks -> [Status : stageStates, Errored : BOOLEAN, Canceled : BOOLEAN]]
      /\ \A u \in AllTasks : jt'[u].Errored = jt[u].Errored
      /\ \A u \in AllTasks \ {t} : jt'[u] = jt[u]
      /\ jt'[t].Status = IF jt'[t].Canceled THEN "canceled" ELSE "error"
  BY <1>1, StageChangeFields DEF Inv, stageStates
<1>4. /\ stage' \in [AllTasks -> stageStates] /\ worker' \in [AllTasks -> workerStates]
      /\ \A u \in AllTasks \ {t} : stage'[u] = stage[u] /\ worker'[u] = worker[u]
      /\ stage'[t] = "error" /\ worker'[t] = w
  BY <1>1 DEF Inv, TypeOK, stageStates, workerStates
<1>5. TypeOK'
  BY <1>1, <1>3, <1>4 DEF Inv, TypeOK, config, loopVars, cancelVars
<1>6. TaskInv' /\ DependenciesHold'
  <2>1. TaskState(t)'
    BY <1>1, <1>2, <1>3, <1>4 DEF TaskState, config
  <2> QED BY <2>1, <1>1, <1>2, <1>3, <1>4, WorkerMoves DEF workerStates
<1>7. JobInv'
  BY <1>1, <1>2, <1>4, WorkerLeavesJob DEF workerStates, loopVars
<1>8. ErrorInv'
  <2>1. \A u \in Tasks : worker'[u] = "ended" /\ stage'[u] = "error" =>
                           worker[u] = "ended" /\ stage[u] = "error"
    BY <1>2, <1>4, TaskFacts DEF Inv
  <2>2. pc \notin {"returning", "done"}
    BY <1>2, WhoIsBusy
  <2> QED BY <1>1, <2>1, <2>2 DEF Inv, ErrorInv, origin, cause, config, loopVars
<1>9. BlameInv'
  BY <1>1, <1>3, TaskFacts DEF Inv, TypeOK, BlameInv, FailFastCancels, cause, config, cancelVars
<1> QED BY <1>5, <1>6, <1>7, <1>8, <1>9 DEF Inv

\* The error reaches lastErr.
LEMMA StageRecordsErrorStep ==
  ASSUME Inv, NEW t \in AllTasks, StageRecordsError(t)
  PROVE  Inv'
<1>1. /\ worker[t] = "recording" /\ worker' = [worker EXCEPT ![t] = "ended"]
      /\ lastErr' = taskErr[t]
      /\ UNCHANGED <<config, stage, taskErr, jt, firstFailedTask, pc, toVisit, result, sched,
                     cancelVars, job, requested>>
  BY DEF StageRecordsError
<1>2. busy(t) /\ TaskState(t) /\ taskErr[t] # "nil" /\ taskErr[t] \in errors
  BY <1>1 DEF busy, Inv, TaskInv, TaskState, TypeOK
<1>3. /\ worker' \in [AllTasks -> workerStates] /\ worker'[t] = "ended"
      /\ \A u \in AllTasks \ {t} : worker'[u] = worker[u]
  BY <1>1 DEF Inv, TypeOK, workerStates
<1>4. TypeOK'
  BY <1>1, <1>2, <1>3 DEF Inv, TypeOK, config, cancelVars
<1>5. TaskInv' /\ DependenciesHold'
  <2>1. TaskState(t)'
    BY <1>1, <1>2, <1>3 DEF TaskState, config
  <2> QED BY <2>1, <1>1, <1>2, WorkerMoves DEF workerStates
<1>6. JobInv'
  BY <1>1, <1>2, WorkerLeavesJob DEF workerStates
<1>7. ErrorInv'
  <2>1. sched = "main" => t \in Tasks
    BY <1>2, WhoIsBusy
  <2>2. sched = "main" /\ lastErr' = "canceled" => cause
    BY <1>1, <2>1 DEF Inv, ErrorInv
  <2>3. cause => origin
    BY TaskFacts DEF Inv, BlameInv, TaskInv, TaskState, cause, origin
  <2>4. sched = "main" => origin
    BY <1>2, <2>1, <2>3 DEF errors, origin, Inv, ErrorInv
  <2> QED BY <1>1, <1>2, <2>2, <2>4 DEF Inv, ErrorInv, origin, cause, config
<1>8. BlameInv'
  BY <1>1 DEF Inv, BlameInv, FailFastCancels, cause, config, cancelVars
<1> QED BY <1>4, <1>5, <1>6, <1>7, <1>8 DEF Inv

\* The stage ends well, or as well as it has to.
LEMMA StageDoneStep ==
  ASSUME Inv, NEW t \in AllTasks, StageDone(t)
  PROVE  Inv'
<1>1. /\ (worker[t] = "returned" /\ taskErr[t] = "nil") \/ worker[t] = "tolerated"
      /\ worker' = [worker EXCEPT ![t] = "ended"]
      /\ stage' = [stage EXCEPT ![t] = "done"]
      /\ jt' = HandleStageChange(t, "done")
      /\ UNCHANGED <<config, taskErr, firstFailedTask, loopVars, sched, cancelVars, job, requested>>
  BY DEF StageDone
<1>2. busy(t) /\ TaskState(t)
  BY <1>1 DEF busy, Inv, TaskInv
<1>3. /\ jt' \in [AllTasks -> [Status : stageStates, Errored : BOOLEAN, Canceled : BOOLEAN]]
      /\ \A u \in AllTasks : jt'[u].Errored = jt[u].Errored
      /\ \A u \in AllTasks \ {t} : jt'[u] = jt[u]
      /\ jt'[t].Status = IF jt'[t].Canceled THEN "canceled" ELSE "done"
  BY <1>1, StageChangeFields DEF Inv, stageStates
<1>4. /\ stage' \in [AllTasks -> stageStates] /\ worker' \in [AllTasks -> workerStates]
      /\ \A u \in AllTasks \ {t} : stage'[u] = stage[u] /\ worker'[u] = worker[u]
      /\ stage'[t] = "done" /\ worker'[t] = "ended"
  BY <1>1 DEF Inv, TypeOK, stageStates, workerStates
<1>5. TypeOK'
  BY <1>1, <1>3, <1>4 DEF Inv, TypeOK, config, loopVars, cancelVars
<1>6. TaskInv' /\ DependenciesHold'
  <2>1. TaskState(t)'
    BY <1>1, <1>2, <1>3, <1>4 DEF TaskState, config
  <2> QED BY <2>1, <1>1, <1>2, <1>3, <1>4, WorkerMoves DEF workerStates
<1>7. JobInv'
  BY <1>1, <1>2, <1>4, WorkerLeavesJob DEF workerStates, loopVars
<1>8. ErrorInv'
  <2>1. \A u \in Tasks : stage'[u] = "error" => stage[u] = "error" /\ worker'[u] = worker[u]
    BY <1>4, TaskFacts DEF Inv
  <2> QED BY <1>1, <2>1 DEF Inv, ErrorInv, origin, cause, config, loopVars
<1>9. BlameInv'
  BY <1>1, <1>3, TaskFacts DEF Inv, TypeOK, BlameInv, FailFastCancels, cause, config, cancelVars
<1> QED BY <1>5, <1>6, <1>7, <1>8, <1>9 DEF Inv

-----------------------------------------------------------------------------
\* RunJobErrorHandler decides whether there is an on_error task to run.
LEMMA ErrorGraphStep ==
  ASSUME Inv, buildErrorGraph
  PROVE  Inv'
<1>1. /\ pc = "failed" /\ pc' \in {"built", "returning"}
      /\ UNCHANGED <<config, taskVars, toVisit, lastErr, result, sched, cancelVars, job, requested>>
  BY DEF buildErrorGraph
<1>2. TypeOK'
  BY <1>1 DEF Inv, TypeOK, config, taskVars, cancelVars
<1>3. TaskInv' /\ DependenciesHold'
  BY <1>1, TasksKept DEF Inv
<1>4. JobInv'
  BY <1>1 DEF Inv, JobInv, busy, taskVars
<1>5. ErrorInv'
  BY <1>1 DEF Inv, ErrorInv, JobInv, origin, cause, taskVars, config
<1>6. BlameInv'
  BY <1>1 DEF Inv, BlameInv, FailFastCancels, cause, taskVars, config, cancelVars
<1> QED BY <1>2, <1>3, <1>4, <1>5, <1>6 DEF Inv

\* The scheduler of the on_error task takes over.
LEMMA ErrorSchedulerStep ==
  ASSUME Inv, initErrorScheduler
  PROVE  Inv'
<1>1. /\ pc = "built" /\ pc' = "loop" /\ sched' = "error" /\ lastErr' = "nil"
      /\ UNCHANGED <<config, taskVars, toVisit, result, cancelVars, job, requested>>
  BY DEF initErrorScheduler
<1>2. TypeOK'
  BY <1>1 DEF Inv, TypeOK, config, taskVars, cancelVars, errors, Schedulers
<1>3. TaskInv' /\ DependenciesHold'
  BY <1>1, TasksKept DEF Inv
<1>4. JobInv'
  BY <1>1, TaskFacts DEF Inv, JobInv, busy, taskVars
<1>5. ErrorInv'
  BY <1>1 DEF Inv, ErrorInv, JobInv, origin, cause, taskVars, config
<1>6. BlameInv'
  BY <1>1 DEF Inv, BlameInv, FailFastCancels, cause, taskVars, config, cancelVars
<1> QED BY <1>2, <1>3, <1>4, <1>5, <1>6 DEF Inv

\* JobCompleted.
LEMMA JobCompletedStep ==
  ASSUME Inv, JobCompleted
  PROVE  Inv'
<1>1. /\ pc = "returning" /\ pc' = "done" /\ sched' = "nil"
      /\ job' = [Completed |-> TRUE, Canceled |-> job.Canceled \/ result = "canceled",
                 LastError |-> result]
      /\ UNCHANGED <<config, taskVars, toVisit, lastErr, result, cancelVars, requested>>
  BY DEF JobCompleted
<1>2. ~job.Canceled
  BY <1>1 DEF Inv, JobInv
<1>3. /\ job' \in [Completed : BOOLEAN, Canceled : BOOLEAN, LastError : errors]
      /\ job'.Completed /\ job'.LastError = result
      /\ job'.Canceled => result = "canceled"
  BY <1>1, <1>2 DEF Inv, TypeOK
<1>4. TypeOK'
  BY <1>1, <1>3 DEF Inv, TypeOK, config, taskVars, cancelVars
<1>5. TaskInv' /\ DependenciesHold'
  BY <1>1, TasksKept DEF Inv
<1>6. JobInv'
  BY <1>1, <1>3, TaskFacts DEF Inv, JobInv, busy, taskVars
<1>7. ErrorInv'
  BY <1>1 DEF Inv, ErrorInv, JobInv, origin, cause, taskVars, config
<1>8. BlameInv'
  BY <1>1 DEF Inv, BlameInv, FailFastCancels, cause, taskVars, config, cancelVars
<1> QED BY <1>4, <1>5, <1>6, <1>7, <1>8 DEF Inv

-----------------------------------------------------------------------------
\* A client cancels the job.
LEMMA CancelJobStep ==
  ASSUME Inv, CancelJob
  PROVE  Inv'
<1>1. /\ requested' = TRUE
      /\ \/ cancelGo' = cancelGo
         \/ sched # "nil" /\ cancelGo' = [cancelGo EXCEPT ![sched] = @ \cup {"store"}]
      /\ UNCHANGED <<config, taskVars, loopVars, sched, cancelled, ctxDone, job>>
  BY DEF CancelJob, cancelJobInternal
<1>2. /\ cancelGo' \in [Schedulers -> SUBSET {"store", "cancel"}]
      /\ "store" \in cancelGo["main"] => "store" \in cancelGo'["main"]
  BY <1>1 DEF Inv, TypeOK, Schedulers
<1>3. TypeOK'
  BY <1>1, <1>2 DEF Inv, TypeOK, config, taskVars, loopVars
<1>4. TaskInv' /\ DependenciesHold'
  BY <1>1, TasksKept DEF Inv
<1>5. JobInv'
  BY <1>1 DEF Inv, JobInv, busy, nodes, taskVars, loopVars
<1>6. ErrorInv'
  BY <1>1 DEF Inv, ErrorInv, origin, cause, taskVars, loopVars
<1>7. BlameInv'
  BY <1>1, <1>2 DEF Inv, BlameInv, FailFastCancels, cause, taskVars, config
<1> QED BY <1>3, <1>4, <1>5, <1>6, <1>7 DEF Inv

\* Scheduler.Cancel, both steps of it.
LEMMA CancelStep ==
  ASSUME Inv, NEW s \in Schedulers, Cancel(s)
  PROVE  Inv'
<1>1. /\ \/ /\ "store" \in cancelGo[s]
            /\ cancelled' = [cancelled EXCEPT ![s] = TRUE]
            /\ cancelGo' = [cancelGo EXCEPT ![s] = (@ \ {"store"}) \cup {"cancel"}]
            /\ UNCHANGED ctxDone
         \/ /\ "cancel" \in cancelGo[s]
            /\ ctxDone' = [ctxDone EXCEPT ![s] = TRUE]
            /\ cancelGo' = [cancelGo EXCEPT ![s] = @ \ {"cancel"}]
            /\ UNCHANGED cancelled
      /\ UNCHANGED <<config, taskVars, loopVars, sched, job, requested>>
  BY DEF Cancel, CancelStores, TaskRunnerCancel
<1>2. TypeOK'
  <2>1. /\ cancelled' \in [Schedulers -> BOOLEAN] /\ ctxDone' \in [Schedulers -> BOOLEAN]
        /\ cancelGo' \in [Schedulers -> SUBSET {"store", "cancel"}]
    BY <1>1 DEF Inv, TypeOK
  <2> QED BY <1>1, <2>1 DEF Inv, TypeOK, config, taskVars, loopVars
<1>3. TaskInv' /\ DependenciesHold'
  BY <1>1, TasksKept DEF Inv
<1>4. JobInv'
  BY <1>1 DEF Inv, JobInv, busy, nodes, taskVars, loopVars
<1>5. ErrorInv'
  BY <1>1 DEF Inv, ErrorInv, origin, cause, taskVars, loopVars, config
<1>6. BlameInv'
  <2>1. CASE s = "main"
    <3>1. /\ UNCHANGED <<cancelled["error"], ctxDone["error"], cancelGo["error"]>>
          /\ cancelled["main"] \/ "store" \in cancelGo["main"] =>
               cancelled'["main"] \/ "store" \in cancelGo'["main"]
          /\ cancelGo["main"] # {}
      BY <2>1, <1>1 DEF Inv, TypeOK, Schedulers
    <3> QED BY <3>1, <1>1 DEF Inv, BlameInv, FailFastCancels, cause, taskVars, config
  <2>2. CASE s = "error"
    <3>1. /\ UNCHANGED <<cancelled["main"], ctxDone["main"], cancelGo["main"]>>
          /\ cancelGo["error"] # {}
      BY <2>2, <1>1 DEF Inv, TypeOK, Schedulers
    <3> QED BY <3>1, <1>1 DEF Inv, BlameInv, FailFastCancels, cause, taskVars, config
  <2> QED BY <2>1, <2>2 DEF Schedulers
<1> QED BY <1>2, <1>3, <1>4, <1>5, <1>6 DEF Inv

\* Nothing happens.
LEMMA StutterStep ==
  ASSUME Inv, UNCHANGED vars
  PROVE  Inv'
<1>1. UNCHANGED <<config, taskVars, loopVars, sched, cancelVars, job, requested>>
  BY DEF vars
<1>2. TypeOK'
  BY <1>1 DEF Inv, TypeOK, config, taskVars, loopVars, cancelVars
<1>3. TaskInv' /\ DependenciesHold'
  BY <1>1, TasksKept DEF Inv
<1>4. JobInv' /\ ErrorInv' /\ BlameInv'
  BY <1>1 DEF Inv, JobInv, busy, nodes, taskVars, loopVars, ErrorInv, origin, cause, config,
              BlameInv, FailFastCancels, cancelVars
<1> QED BY <1>2, <1>3, <1>4 DEF Inv

-----------------------------------------------------------------------------
\* The job as startJob leaves it.
LEMMA InitInv ==
  ASSUME Init
  PROVE  Inv
<1>1. TypeOK
  <2>1. "waiting" \in stageStates /\ "none" \in workerStates /\ "nil" \in errors
    BY DEF stageStates, workerStates, errors
  <2>2. failFast \in BOOLEAN /\ onError \in BOOLEAN
    BY GraphsAssumption DEF Init
  <2> QED BY <2>1, <2>2 DEF Init, TypeOK, Schedulers
<1>2. TaskInv /\ DependenciesHold
  BY <1>1, TaskFacts DEF Init, TaskInv, TaskState, DependenciesHold
<1>3. JobInv
  BY TaskFacts, <1>1 DEF Init, JobInv
<1>4. ErrorInv
  BY TaskFacts, <1>1 DEF Init, ErrorInv
<1>5. BlameInv
  BY TaskFacts, <1>1 DEF Init, BlameInv, FailFastCancels, Schedulers
<1> QED BY <1>1, <1>2, <1>3, <1>4, <1>5 DEF Inv

\* Every step of the job, of its tasks and of those who cancel it.
LEMMA NextInv ==
  ASSUME Inv, [Next]_vars
  PROVE  Inv'
<1>1. CASE JobGoroutine
  BY <1>1, ScheduleLoopStep, VisitStep, ScheduleReturnsStep, ErrorGraphStep, ErrorSchedulerStep,
     JobCompletedStep DEF JobGoroutine, Schedule
<1>2. ASSUME NEW t \in AllTasks, StageGoroutine(t) PROVE Inv'
  BY <1>2, RunRefusesStep, RunExecutesStep, StageFailsStep, StageRecordsErrorStep, StageDoneStep
     DEF StageGoroutine
<1>3. ASSUME NEW t \in AllTasks, ScriptEnds(t) PROVE Inv'
  BY <1>3, ExecuteReturnsStep DEF ScriptEnds
<1>4. CASE CancelJob
  BY <1>4, CancelJobStep
<1>5. ASSUME NEW s \in Schedulers, Cancel(s) PROVE Inv'
  BY <1>5, CancelStep
<1>6. CASE Terminated \/ UNCHANGED vars
  BY <1>6, StutterStep DEF Terminated
<1> QED BY <1>1, <1>2, <1>3, <1>4, <1>5, <1>6 DEF Next

\* Inv holds in every state an execution of a job reaches.
THEOREM JobInvariant == Spec => []Inv
<1>1. Init => Inv
  BY InitInv
<1>2. Inv /\ [Next]_vars => Inv'
  BY NextInv
<1> QED BY <1>1, <1>2, PTL DEF Spec

\* All variables keep their types: stages, goroutines, errors, schedulers.
THEOREM TypeCorrect == Spec => []TypeOK
<1>1. Inv => TypeOK
  BY DEF Inv
<1> QED BY <1>1, JobInvariant, PTL

(***************************************************************************)
(* depends_on holds: Schedule and checkStatus never let a task start whose *)
(* dependencies have not ended well, in whatever order the goroutines of   *)
(* the stages change the statuses they look at.                            *)
(***************************************************************************)
THEOREM DependenciesAreKept == Spec => []DependenciesHold
<1>1. Inv => DependenciesHold
  BY DEF Inv
<1> QED BY <1>1, JobInvariant, PTL

\* wg.Wait covers every task: none is at work once Schedule has returned, and
\* the on_error task never runs next to another one.
THEOREM ScheduleWaitsForAll == Spec => []NothingOutlivesSchedule
<1>1. Inv => NothingOutlivesSchedule
  <2> SUFFICES ASSUME Inv, busy(OnErrorTask), NEW t \in Tasks
               PROVE  ~busy(t)
    BY DEF Inv, JobInv, NothingOutlivesSchedule
  <2>1. sched = "error"
    BY WhoIsBusy, TaskFacts DEF Inv
  <2> QED BY <2>1 DEF Inv, JobInv
<1> QED BY <1>1, JobInvariant, PTL

\* No failure is lost on its way from Run through lastErr to JobCompleted, and
\* the task on_error is told about is one that failed.
THEOREM FailuresAreReported == Spec => []FailureIsReported
<1>1. Inv => FailureIsReported
  <2> SUFFICES ASSUME Inv
               PROVE  FailureIsReported
    OBVIOUS
  <2>1. ASSUME pc = "done", NEW t \in Tasks \ allowFailure, taskErr[t] # "nil"
        PROVE  job.LastError # "nil"
    <3>1. t \in AllTasks /\ ~busy(t)
      BY <2>1, TaskFacts DEF Inv, JobInv
    <3>2. stage[t] = "error"
      BY <2>1, <3>1 DEF Inv, TaskInv, TaskState, busy
    <3> QED BY <2>1, <3>2 DEF Inv, ErrorInv, JobInv
  <2>2. firstFailedTask # NoTask => jt[firstFailedTask].Errored
    BY DEF Inv, BlameInv
  <2>3. ASSUME pc = "built", NEW t \in Tasks, jt[t].Errored
        PROVE  firstFailedTask \in Tasks
    <3>1. firstFailedTask \in AllTasks
      BY <2>3, TaskFacts DEF Inv, BlameInv, TypeOK
    <3>2. ~jt[OnErrorTask].Errored
      BY <2>3, TaskFacts DEF Inv, JobInv, TaskInv, TaskState
    <3> QED BY <2>2, <3>1, <3>2, TaskFacts DEF Inv
  <2> QED BY <2>1, <2>2, <2>3 DEF FailureIsReported
<1> QED BY <1>1, JobInvariant, PTL

\* Under fail-fast a failure reaches the scheduler of the tasks, whatever
\* happens between HandleTaskChange and Scheduler.Cancel.
THEOREM FailFastReachesScheduler == Spec => []FailFastCancels
<1>1. Inv => FailFastCancels
  BY DEF Inv, BlameInv
<1> QED BY <1>1, JobInvariant, PTL

\* The cancel of the tasks never hits the scheduler of on_error.
THEOREM OnErrorIsSpared == Spec => []OnErrorIsNotCancelledByFailFast
<1>1. Inv => OnErrorIsNotCancelledByFailFast
  BY DEF Inv, BlameInv, OnErrorIsNotCancelledByFailFast
<1> QED BY <1>1, JobInvariant, PTL

\* A cancelled job goes back to a client or to fail-fast, a run of on_error to
\* a client or to a failed task.
THEOREM CancelsAndErrorsHaveCauses == Spec => []NothingWithoutCause
<1>1. Inv => NothingWithoutCause
  <2> SUFFICES ASSUME Inv
               PROVE  NothingWithoutCause
    OBVIOUS
  <2>1. job.Canceled => cause
    BY DEF Inv, JobInv, ErrorInv
  <2>2. busy(OnErrorTask) => origin
    <3>1. busy(OnErrorTask) => sched = "error"
      BY WhoIsBusy, TaskFacts DEF Inv
    <3> QED BY <3>1 DEF Inv, ErrorInv
  <2> QED BY <2>1, <2>2 DEF NothingWithoutCause, cause, origin
<1> QED BY <1>1, JobInvariant, PTL

\* What the API shows of a task that has ended is how it ended.
THEOREM StatusesAreFinal == Spec => []StatusIsFinal
<1>1. Inv => StatusIsFinal
  BY DEF Inv, TaskInv, TaskState, StatusIsFinal
<1> QED BY <1>1, JobInvariant, PTL

=============================================================================
