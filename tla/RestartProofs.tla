--------------------------- MODULE RestartProofs ----------------------------
(***************************************************************************)
(* What survives a save, a failed save, a crash and a restart in a         *)
(* WellBehaved environment: results in the data file are final, a shutdown *)
(* that finishes loses nothing, retention drops the oldest jobs first, and *)
(* logs belong to jobs.                                                    *)
(*                                                                         *)
(* A step of SpecStore is a step of the runner, with or without the        *)
(* stores, or the start of a new runner (NewPipelineRunner).  The first    *)
(* kind has the effects of PipelineRunnerLife; the second establishes the  *)
(* invariant of the runner anew, from nothing but the data file.           *)
(***************************************************************************)
EXTENDS Restart, PipelineRunnerLife

-----------------------------------------------------------------------------
(***************************************************************************)
(* The invariant of the runner, over restarts.  StartedOK of               *)
(* PipelineRunnerLife does not survive one: a job that was running when    *)
(* prunner died is started, not completed, and has no goroutine; it is     *)
(* marked as cancelled instead.                                            *)
(***************************************************************************)
EndedOK  == \A j \in Jobs : job[j].Start => alive(j) \/ over(job[j])
LoopEnds == shutdown = "done" => persistLoop = "stopped"

RunnerPart == RunnerInv /\ EndedOK /\ NoneWaits /\ NoneIsAlive /\ LoopEnds

\* A snapshot of job records.
isSnapshot(d) ==
  /\ DOMAIN d \in SUBSET Jobs
  /\ d \in [DOMAIN d -> PersistedJob]
  /\ \A j \in DOMAIN d : d[j].Created # 0 /\ (d[j].Completed => d[j].Start)

SnapshotsOK == isSnapshot(dataFile) /\ (saving # NoData => isSnapshot(saving))

(***************************************************************************)
(* Record s may be what has become of record r: of the same job, at least  *)
(* as far, and the same if r was over.                                     *)
(***************************************************************************)
follows(s, r) ==
  /\ s.Pipeline = r.Pipeline /\ s.Created = r.Created
  /\ progress(r) <= progress(s)
  /\ over(r) => s = r

\* The data file is behind the snapshot being written, and that is behind the runner.
RecordsOK ==
  /\ \A j \in DOMAIN dataFile : follows(persisted(job[j]), dataFile[j])
  /\ saving # NoData =>
       \A j \in DOMAIN saving :
         /\ follows(persisted(job[j]), saving[j])
         /\ j \in DOMAIN dataFile => follows(saving[j], dataFile[j])

\* Snapshot d is what the runner knows.
matches(d) == DOMAIN d = jobsByID /\ \A j \in jobsByID : d[j] = persisted(job[j])

\* After the final snapshot the runner changes nothing that is saved.
NothingLost ==
  shutdown = "done" /\ "disk" \notin faults =>
    IF saving = NoData THEN matches(dataFile) ELSE matches(saving)

\* Of the jobs in the data file that are over, those in kept are the newest.
dropsOldest(kept) ==
  \A j \in DOMAIN dataFile \ kept, k \in DOMAIN dataFile \cap kept :
    dataFile[k].Pipeline = dataFile[j].Pipeline /\ over(dataFile[k]) =>
      dataFile[k].Created > dataFile[j].Created

\* The jobs the runner has dropped, and those the next save drops, are the oldest.
RetentionOK ==
  /\ dropsOldest(jobsByID)
  /\ saving # NoData => dropsOldest(DOMAIN saving) /\ DOMAIN saving \subseteq jobsByID

(***************************************************************************)
(* The inductive invariant of the runner with its stores.                  *)
(***************************************************************************)
StoreInv ==
  /\ RunnerPart
  /\ SnapshotsOK
  /\ RecordsOK
  /\ NothingLost
  /\ RetentionOK
  /\ LogsBelongToJobs

-----------------------------------------------------------------------------
(***************************************************************************)
(* Job records.                                                            *)
(***************************************************************************)

\* What is persisted of a job.
LEMMA PersistedFields ==
  ASSUME NEW r \in PipelineJob
  PROVE  /\ persisted(r) \in PersistedJob
         /\ persisted(r).Pipeline = r.Pipeline /\ persisted(r).Created = r.Created
         /\ persisted(r).Start = r.Start /\ persisted(r).Completed = r.Completed
         /\ persisted(r).Canceled = r.Canceled
         /\ over(persisted(r)) <=> over(r)
  BY DEF persisted, PersistedJob, PipelineJob, over

\* The progress of a record is a number.
LEMMA ProgressType == \A r : progress(r) \in 0 .. 2
  BY DEF progress

\* What has become of a record may become something else.
LEMMA FollowsTransitive ==
  ASSUME NEW r, NEW s, NEW t, follows(s, r), follows(t, s)
  PROVE  follows(t, r)
<1>1. progress(r) \in 0 .. 2 /\ progress(s) \in 0 .. 2 /\ progress(t) \in 0 .. 2
  BY ProgressType
<1>2. progress(r) <= progress(t)
  BY <1>1 DEF follows
<1> QED
  BY <1>2 DEF follows

\* A record follows itself.
LEMMA FollowsItself == \A r : follows(r, r)
  BY ProgressType DEF follows

(***************************************************************************)
(* A job taken over from the data file is over: what had not ended when it *)
(* was saved is cancelled, what had ended is taken over as it was.         *)
(***************************************************************************)
LEMMA LoadedJob ==
  ASSUME NEW r \in PersistedJob, r.Created # 0, r.Completed => r.Start
  PROVE  LET n == initialLoadFromStore(r)
         IN  /\ n \in PipelineJob
             /\ n.buildable /\ created(n) /\ (n.Completed => n.Start)
             /\ over(n) /\ ~isRunning(n) /\ (n.Start \/ n.Canceled)
             /\ follows(persisted(n), r)
<1> DEFINE b == buildJobFromPersistedJob(r)
           c == r.Canceled \/ isRunning(r) \/ ~r.Start
           n == [b EXCEPT !.Canceled = c]
<1>1. noJob \in PipelineJob /\ noJob.buildable
  BY ConstantsAssumption DEF noJob, PipelineJob, Errors
<1>2. /\ b \in PipelineJob /\ b.buildable /\ b.Pipeline = r.Pipeline /\ b.Created = r.Created
      /\ b.Start = r.Start /\ b.Completed = r.Completed /\ b.Canceled = r.Canceled
  BY <1>1 DEF buildJobFromPersistedJob, PersistedJob, PipelineJob
<1>3. /\ isRunning(b) <=> isRunning(r)
      /\ r.Start \in BOOLEAN /\ r.Completed \in BOOLEAN /\ r.Canceled \in BOOLEAN
  BY <1>2 DEF isRunning, PersistedJob
<1> HIDE DEF b
<1>4. c \in BOOLEAN
  BY <1>3 DEF isRunning
<1>5. initialLoadFromStore(r) = n
  <2>1. initialLoadFromStore(r) = [b EXCEPT !.Canceled = @ \/ isRunning(r) \/ ~r.Start]
    BY DEF initialLoadFromStore, b
  <2>2. [b EXCEPT !.Canceled = @ \/ isRunning(r) \/ ~r.Start] = [b EXCEPT !.Canceled = c]
    BY <1>2
  <2> QED
    BY <2>1, <2>2
<1> HIDE DEF c
<1>6. /\ n \in PipelineJob /\ n.buildable /\ n.Pipeline = r.Pipeline /\ n.Created = r.Created
      /\ n.Start = r.Start /\ n.Completed = r.Completed /\ n.Canceled = c
  BY <1>2, <1>4 DEF PipelineJob
<1> HIDE DEF n
<1>7. c <=> r.Canceled \/ ~r.Completed \/ ~r.Start
  BY <1>3 DEF c, isRunning
<1>8. over(n) /\ ~isRunning(n) /\ (n.Start \/ n.Canceled)
  BY <1>3, <1>6, <1>7 DEF over, isRunning
<1>9. over(r) => c = r.Canceled
  BY <1>3, <1>4, <1>7 DEF over
<1>10. over(r) => persisted(n) = r
  BY <1>6, <1>9 DEF persisted, PersistedJob
<1>11. progress(r) <= progress(persisted(n))
  BY <1>6, <1>8, PersistedFields DEF progress
<1>12. follows(persisted(n), r)
  BY <1>6, <1>10, <1>11, PersistedFields DEF follows
<1> QED
  BY <1>5, <1>6, <1>8, <1>12 DEF created


-----------------------------------------------------------------------------
(***************************************************************************)
(* The runner goes on, or a new one is started.                            *)
(***************************************************************************)

\* What is persisted of a job only makes progress.
LEMMA JobFollows ==
  ASSUME WellBehaved, RunnerInv, RunnerInv', [Next]_vars, NEW k \in Jobs, created(job[k])
  PROVE  follows(persisted(job'[k]), persisted(job[k])) /\ created(job'[k])
<1>1. job[k] \in PipelineJob /\ job'[k] \in PipelineJob
  BY DEF RunnerInv, TypeOK
<1>2. /\ job[k].Completed => job[k].Start
      /\ job'[k].Completed => job'[k].Start
      /\ alive(k) => isRunning(job[k])
  BY DEF RunnerInv, FlagsOK, CountsWhatRuns
<1>3. untouched(k) \/ marked(k) \/ Starts(k) \/ Finishes(k)
  BY StepHasEffect DEF Effect, Cancels, Starts, Finishes, Launches, Accepts, Redefines
<1>4. sameJob(job'[k], job[k])
  BY <1>3 DEF untouched, marked, Starts, Finishes
<1>5. CASE untouched(k)
  <2>1. persisted(job'[k]) = persisted(job[k])
    BY <1>5 DEF untouched, sameJob, persisted
  <2> QED
    BY <1>4, <2>1, FollowsItself DEF sameJob, created
<1>6. CASE ~untouched(k)
  <2>1. ~over(job[k])
    BY <1>2, <1>3, <1>6 DEF marked, Starts, Finishes, over, waits, isRunning
  <2>2. progress(persisted(job[k])) <= progress(persisted(job'[k]))
    <3>1. CASE marked(k)
      <4>1. progress(persisted(job'[k])) = 2
        BY <1>1, <3>1, PersistedFields DEF marked, progress, over
      <4> QED
        BY <4>1, ProgressType
    <3>2. CASE Finishes(k)
      <4>1. progress(persisted(job'[k])) = 2
        BY <1>1, <3>2, PersistedFields DEF Finishes, progress, over
      <4> QED
        BY <4>1, ProgressType
    <3>3. CASE Starts(k)
      <4>1. progress(persisted(job'[k])) = 1
        BY <1>1, <3>3, PersistedFields DEF Starts, progress, over, isRunning
      <4>2. progress(persisted(job[k])) = 0
        BY <1>1, <2>1, <3>3, PersistedFields DEF Starts, waits, progress
      <4> QED
        BY <4>1, <4>2
    <3> QED
      BY <1>3, <1>6, <3>1, <3>2, <3>3
  <2> QED
    BY <1>1, <1>4, <2>1, <2>2, PersistedFields DEF follows, sameJob, created
<1> QED
  BY <1>5, <1>6

\* A persist loop that has ended stays so.
LEMMA LoopStaysStopped ==
  ASSUME [Next]_vars, persistLoop = "stopped"
  PROVE  persistLoop' = "stopped"
<1>1. CASE UNCHANGED vars
  BY <1>1 DEF vars, persistVars
<1>2. CASE WaitListLoop
  BY <1>2 DEF WaitListLoop, WaitListStart, WaitListKeep, WaitListReturn, persistVars
<1>3. ASSUME NEW j \in Jobs, NEW p \in Pipelines, NEW q \in Partitions, NEW b \in Buildability,
             ScheduleAsync(p, j, q, b)
      PROVE  UNCHANGED persistLoop
  BY <1>3 DEF ScheduleAsync
<1>4. ASSUME NEW j \in Jobs,
             \/ CancelJob(j)
             \/ \E s \in Schedulers : SchedulerCancel(j, s)
             \/ \E errored \in BOOLEAN : HandleTaskChange(j, errored)
      PROVE  UNCHANGED persistLoop
  BY <1>4 DEF CancelJob, SchedulerCancel, HandleTaskChange, persistVars
<1>5. ASSUME NEW j \in Jobs, JobGoroutine(j) \/ StartTimer(j)
      PROVE  UNCHANGED persistLoop
  BY <1>5 DEF JobGoroutine, ScheduleReturns, buildErrorGraph, initErrorScheduler,
              ErrorGraphReturns, JobCompleted, StartTimer, TimerFires, StartDelayedJob, persistVars
<1>6. ASSUME NEW D \in ReloadDefs, ReplaceDefinitions(D)
      PROVE  UNCHANGED persistLoop
  BY <1>6 DEF ReplaceDefinitions, persistVars
<1>7. CASE PersistLoop \/ Signal \/ Shutdown \/ ShutdownForced \/ Terminated
  BY <1>7 DEF PersistLoop, PersistRequested, SaveToStore, PersistLoopStops, Signal, Shutdown,
              ShutdownBegins, ShutdownPolls, ShutdownWakes, ShutdownEnds, ShutdownForced,
              Terminated, vars, persistVars
<1> QED
  BY <1>1, <1>2, <1>3, <1>4, <1>5, <1>6, <1>7 DEF Next

\* A step of the runner keeps its part of the invariant.
LEMMA NextRunner ==
  ASSUME WellBehaved, RunnerPart, [Next]_vars
  PROVE  RunnerPart'
<1>1. RunnerInv'
  BY NextInv DEF RunnerPart
<1>2. NoneWaits' /\ NoneIsAlive'
  BY NoneWaitsKept, NoneIsAliveKept DEF RunnerPart
<1>3. EndedOK'
  <2> SUFFICES ASSUME NEW k \in Jobs, job'[k].Start PROVE alive(k)' \/ over(job'[k])
    BY DEF EndedOK
  <2>1. \/ untouched(k) \/ marked(k) \/ Starts(k) \/ Finishes(k)
        \/ \E p \in Pipelines : Launches(k, p) \/ Accepts(k, p)
    BY StepHasEffect
       DEF RunnerPart, Effect, Cancels, Starts, Finishes, Launches, Accepts, Redefines
  <2>2. CASE untouched(k)
    BY <2>2 DEF untouched, RunnerPart, EndedOK, over
  <2>3. CASE marked(k)
    BY <2>3 DEF marked
  <2>4. CASE Starts(k) \/ Finishes(k)
    BY <2>4 DEF Starts, Finishes, over
  <2>5. ASSUME NEW p \in Pipelines, Launches(k, p) \/ Accepts(k, p)
        PROVE  alive(k)' \/ over(job'[k])
    BY <2>5 DEF Launches, Accepts, waits
  <2> QED
    BY <2>1, <2>2, <2>3, <2>4, <2>5
<1>4. LoopEnds'
  <2> SUFFICES ASSUME shutdown' = "done" PROVE persistLoop' = "stopped"
    BY DEF LoopEnds
  <2>1. CASE ShutdownEnds
    BY <2>1 DEF ShutdownEnds, persistVars
  <2>2. CASE shutdown = "done"
    <3>1. persistLoop = "stopped"
      BY <2>2 DEF RunnerPart, LoopEnds
    <3> QED
      BY <3>1, LoopStaysStopped
  <2> QED
    BY <2>1, <2>2, ShutdownProgress
<1> QED
  BY <1>1, <1>2, <1>3, <1>4 DEF RunnerPart

\* A new runner satisfies it, whatever data file it finds.
LEMMA FreshRunner ==
  ASSUME WellBehaved, RunnerInv, isSnapshot(dataFile), NewPipelineRunner
  PROVE  /\ RunnerPart'
         /\ \A k \in DOMAIN dataFile : /\ follows(persisted(job'[k]), dataFile[k])
                                       /\ created(job'[k])
<1>1. /\ defs' \in InitDefs /\ jobsByID' = DOMAIN dataFile /\ calls' = <<>>
      /\ waitListByPipeline' = [p \in Pipelines |-> <<>>]
      /\ goroutine' = [j \in Jobs |-> "none"]
      /\ shutdown' = "no"
  BY DEF NewPipelineRunner
<1>2. noJob \in PipelineJob /\ noJob.buildable /\ ~noJob.Start /\ ~noJob.Completed /\ ~created(noJob)
  BY ConstantsAssumption DEF noJob, PipelineJob, Errors, created
<1>3. ASSUME NEW k \in Jobs
      PROVE  /\ job'[k] \in PipelineJob
             /\ job'[k].buildable /\ (job'[k].Completed => job'[k].Start)
             /\ ~isRunning(job'[k]) /\ (job'[k].Start => over(job'[k]))
             /\ created(job'[k]) => job'[k].Start \/ job'[k].Canceled
             /\ k \in DOMAIN dataFile => /\ created(job'[k])
                                         /\ follows(persisted(job'[k]), dataFile[k])
  <2>1. CASE k \in DOMAIN dataFile
    <3>1. job'[k] = initialLoadFromStore(dataFile[k])
      BY <2>1 DEF NewPipelineRunner
    <3>2. /\ dataFile[k] \in PersistedJob /\ dataFile[k].Created # 0
          /\ dataFile[k].Completed => dataFile[k].Start
      BY <2>1 DEF isSnapshot
    <3> QED
      BY <3>1, <3>2, LoadedJob
  <2>2. CASE k \notin DOMAIN dataFile /\ created(job[k])
    <3> DEFINE u == [noJob EXCEPT !.Pipeline = job[k].Pipeline, !.Created = job[k].Created,
                                  !.Canceled = TRUE]
    <3>1. job'[k] = u
      BY <2>2 DEF NewPipelineRunner
    <3>2. job[k] \in PipelineJob
      BY DEF RunnerInv, TypeOK
    <3>3. u \in PipelineJob /\ u.buildable /\ ~u.Start /\ ~u.Completed /\ u.Canceled
      BY <1>2, <3>2 DEF PipelineJob
    <3> HIDE DEF u
    <3> QED
      BY <2>2, <3>1, <3>3 DEF isRunning
  <2>3. CASE k \notin DOMAIN dataFile /\ ~created(job[k])
    <3>1. job'[k] = noJob
      BY <2>3 DEF NewPipelineRunner
    <3> QED
      BY <1>2, <2>3, <3>1 DEF isRunning
  <2> QED
    BY <2>1, <2>2, <2>3
<1>4. DOMAIN dataFile \subseteq Jobs
  BY DEF isSnapshot
<1>5. TypeOK'
  <2>1. PipelinesDef(defs)'
    BY <1>1, ConstantsAssumption DEF PipelinesDef
  <2>2. job' \in [Jobs -> PipelineJob]
    <3>1. job' = [k \in Jobs |-> job'[k]]
      BY DEF NewPipelineRunner
    <3> QED
      BY <1>3, <3>1
  <2>3. waitListByPipeline' \in [Pipelines -> Seq(Jobs)]
    BY <1>1
  <2>4. calls' \in Seq(Activation)
    BY <1>1
  <2>5. /\ timer' \in [Jobs -> {"off", "armed", "fired"}]
        /\ goroutine' \in [Jobs -> goroutineStates]
        /\ result' \in [Jobs -> Errors]
        /\ cancelGo' \in [Jobs -> SUBSET Schedulers]
        /\ cancelled' \in [Jobs -> BOOLEAN]
        /\ persistRequests' \in BOOLEAN
        /\ persistLoop' \in {"select", "saving", "stopped"}
        /\ shutdown' \in shutdownStates
    BY DEF NewPipelineRunner, goroutineStates, Errors, shutdownStates
  <2> QED
    BY <1>1, <1>4, <2>1, <2>2, <2>3, <2>4, <2>5 DEF TypeOK
<1>6. \A k \in Jobs : ~alive(k)' /\ ~waits(k)'
  BY <1>1, <1>3 DEF alive, waits
<1>7. RunnerInv'
  <2>1. DefinitionsOK'
    BY <1>1 DEF WellBehaved, NoneRemoved, ReplaceIsLimited, DefinitionsOK
  <2>2. CountsWhatRuns'
    BY <1>3, <1>6 DEF CountsWhatRuns
  <2>3. FlagsOK'
    BY <1>1, <1>3, <1>6 DEF FlagsOK
  <2>4. QueuesOK'
    <3>1. \A p \in Pipelines : queue(p)' = <<>>
      BY <1>1 DEF queue, mutexFree
    <3> QED
      BY <3>1 DEF QueuesOK, distinct
  <2>5. QueuesComplete'
    BY <1>6 DEF QueuesComplete
  <2>6. SlotsOK'
    BY <1>1 DEF SlotsOK, mutexFree
  <2> QED
    BY <1>5, <2>1, <2>2, <2>3, <2>4, <2>5, <2>6 DEF RunnerInv
<1>8. EndedOK' /\ NoneWaits' /\ NoneIsAlive' /\ LoopEnds'
  BY <1>1, <1>3 DEF EndedOK, NoneWaits, NoneIsAlive, LoopEnds, isShuttingDown
<1> QED
  BY <1>3, <1>4, <1>7, <1>8 DEF RunnerPart


-----------------------------------------------------------------------------
(***************************************************************************)
(* The steps of SpecStore.                                                 *)
(***************************************************************************)

\* A step of the runner that touches neither store: it may accept a job, forgets none, and
\* does not end a shutdown.
RunnerOnly ==
  /\ [Next]_vars
  /\ UNCHANGED storeVars
  /\ shutdown' = "done" => shutdown = "done"
  /\ \/ UNCHANGED jobsByID
     \/ /\ ~isShuttingDown
        /\ \E j \in Jobs : ~created(job[j]) /\ jobsByID' = jobsByID \cup {j}

\* The steps that are not named otherwise are of this kind.
LEMMA HandlersRunnerOnly ==
  ASSUME \/ Handlers \/ \E j \in Jobs : RunsJob(j)
         \/ PersistLoopGoesOn \/ Exited \/ UNCHANGED allVars
  PROVE  RunnerOnly
<1>1. CASE UNCHANGED allVars \/ Exited
  BY <1>1 DEF Exited, allVars, vars, jobVars, RunnerOnly
<1>2. CASE PersistLoopGoesOn
  BY <1>2 DEF PersistLoopGoesOn, PersistRequested, PersistLoopStops, jobVars, RunnerOnly,
              Next, PersistLoop
<1>3. ASSUME NEW j \in Jobs, RunsJob(j) PROVE RunnerOnly
  <2>1. UNCHANGED <<jobsByID, shutdown>>
    BY <1>3 DEF RunsJob, JobGoroutine, ScheduleReturns, buildErrorGraph, initErrorScheduler,
                ErrorGraphReturns, JobCompleted, jobVars
  <2> QED
    BY <1>3, <2>1 DEF RunsJob, Next, RunnerOnly
<1>4. CASE Handlers
  <2>1. Next /\ UNCHANGED storeVars
    BY <1>4 DEF Handlers, Next, Shutdown
  <2>2. ASSUME NEW j \in Jobs, NEW p \in Pipelines, NEW q \in Partitions, NEW b \in Buildability,
               ScheduleAsync(p, j, q, b)
        PROVE  RunnerOnly
    BY <2>1, <2>2 DEF ScheduleAsync, RunnerOnly
  <2>3. CASE WaitListLoop
    BY <2>1, <2>3 DEF WaitListLoop, WaitListStart, WaitListKeep, WaitListReturn, jobVars, RunnerOnly
  <2>4. ASSUME NEW j \in Jobs,
               \/ CancelJob(j)
               \/ \E s \in Schedulers : SchedulerCancel(j, s)
               \/ \E errored \in BOOLEAN : HandleTaskChange(j, errored)
               \/ StartTimer(j)
        PROVE  RunnerOnly
    BY <2>1, <2>4 DEF CancelJob, SchedulerCancel, HandleTaskChange, StartTimer, TimerFires,
                      StartDelayedJob, jobVars, RunnerOnly
  <2>5. ASSUME NEW D \in ReloadDefs, ReplaceDefinitions(D) PROVE RunnerOnly
    BY <2>1, <2>5 DEF ReplaceDefinitions, jobVars, RunnerOnly
  <2>6. CASE Signal \/ ShutdownBegins \/ ShutdownPolls \/ ShutdownWakes \/ ShutdownForced
    BY <2>1, <2>6 DEF Signal, ShutdownBegins, ShutdownPolls, ShutdownWakes, ShutdownForced,
                      jobVars, RunnerOnly
  <2> QED
    BY <1>4, <2>2, <2>3, <2>4, <2>5, <2>6 DEF Handlers
<1> QED
  BY <1>1, <1>2, <1>3, <1>4

\* Every step is a step of the runner or starts a new one.
LEMMA StoreStep ==
  ASSUME [NextStore]_allVars
  PROVE  [Next]_vars \/ NewPipelineRunner
<1>1. ASSUME NEW j \in Jobs, Writer(j) PROVE UNCHANGED vars
  BY <1>1 DEF Writer
<1>2. CASE Snapshot
  BY <1>2 DEF Snapshot, Next, PersistLoop, Shutdown
<1>3. CASE SaveRenames \/ SaveFails
  BY <1>3 DEF SaveRenames, SaveFails
<1>4. CASE Restart \/ Crash
  BY <1>4 DEF Restart, Crash
<1>5. CASE \/ Handlers \/ \E j \in Jobs : RunsJob(j)
           \/ PersistLoopGoesOn \/ Exited \/ UNCHANGED allVars
  BY <1>5, HandlersRunnerOnly DEF RunnerOnly
<1> QED
  BY <1>1, <1>2, <1>3, <1>4, <1>5 DEF NextStore

\* The snapshot SaveToStore takes.
LEMMA SnapshotTaken ==
  ASSUME RunnerInv, RunnerInv', Snapshot
  PROVE  /\ [Next]_vars /\ UNCHANGED <<job, dataFile>>
         /\ saving = NoData /\ saving' # NoData
         /\ isSnapshot(saving)'
         /\ matches(saving)'
         /\ jobsByID' \subseteq jobsByID
         /\ removeExpiredJobs
<1>1. /\ [Next]_vars /\ saving = NoData /\ UNCHANGED <<job, dataFile>> /\ removeExpiredJobs
      /\ saving' = [j \in jobsByID' |-> persisted(job[j])]
  BY DEF Snapshot, SaveToStore, ShutdownEnds, Next, PersistLoop, Shutdown
<1>2. jobsByID' \subseteq jobsByID /\ jobsByID' \in SUBSET Jobs
  BY <1>1 DEF removeExpiredJobs, RunnerInv, TypeOK
<1>3. ASSUME NEW j \in jobsByID'
      PROVE  /\ saving'[j] \in PersistedJob
             /\ saving'[j].Created # 0 /\ (saving'[j].Completed => saving'[j].Start)
  <2>1. j \in jobsByID /\ j \in Jobs /\ job[j] \in PipelineJob
    BY <1>2 DEF RunnerInv, TypeOK
  <2>2. created(job[j]) /\ (job[j].Completed => job[j].Start)
    BY <2>1 DEF RunnerInv, FlagsOK
  <2> QED
    BY <1>1, <2>1, <2>2, PersistedFields DEF created
<1>4. DOMAIN saving' = jobsByID' /\ saving' \in [jobsByID' -> PersistedJob]
  BY <1>1, <1>3
<1>5. saving' # NoData
  BY <1>2, <1>4, NoDataAssumption
<1>6. isSnapshot(saving)'
  BY <1>2, <1>3, <1>4 DEF isSnapshot
<1>7. matches(saving)'
  BY <1>1, <1>4 DEF matches
<1> QED
  BY <1>1, <1>2, <1>5, <1>6, <1>7

-----------------------------------------------------------------------------
(***************************************************************************)
(* Each part of the invariant is kept.                                     *)
(***************************************************************************)
LEMMA SnapshotsKept ==
  ASSUME RunnerInv, RunnerInv', SnapshotsOK, [NextStore]_allVars
  PROVE  SnapshotsOK'
<1>1. CASE Snapshot
  BY <1>1, SnapshotTaken DEF SnapshotsOK, isSnapshot
<1>2. CASE SaveRenames
  BY <1>2 DEF SaveRenames, SnapshotsOK, isSnapshot
<1>3. CASE SaveFails \/ Restart \/ Crash
  BY <1>3 DEF SaveFails, Restart, Crash, NewPipelineRunner, SnapshotsOK, isSnapshot
<1>4. ASSUME NEW j \in Jobs, Writer(j) PROVE SnapshotsOK'
  BY <1>4 DEF Writer, SnapshotsOK, isSnapshot
<1>5. CASE \/ Handlers \/ \E j \in Jobs : RunsJob(j)
           \/ PersistLoopGoesOn \/ Exited \/ UNCHANGED allVars
  BY <1>5, HandlersRunnerOnly DEF RunnerOnly, storeVars, SnapshotsOK, isSnapshot
<1> QED
  BY <1>1, <1>2, <1>3, <1>4, <1>5 DEF NextStore

\* A saved job has been created.
LEMMA SavedIsCreated ==
  ASSUME SnapshotsOK, RecordsOK
  PROVE  /\ \A j \in DOMAIN dataFile : j \in Jobs /\ created(job[j])
         /\ saving # NoData => \A j \in DOMAIN saving : j \in Jobs /\ created(job[j])
<1>1. \A j \in Jobs : persisted(job[j]).Created = job[j].Created
  BY DEF persisted
<1>2. ASSUME NEW j \in DOMAIN dataFile PROVE j \in Jobs /\ created(job[j])
  BY <1>1, <1>2 DEF SnapshotsOK, isSnapshot, RecordsOK, follows, created
<1>3. ASSUME saving # NoData, NEW j \in DOMAIN saving PROVE j \in Jobs /\ created(job[j])
  BY <1>1, <1>3 DEF SnapshotsOK, isSnapshot, RecordsOK, follows, created
<1> QED
  BY <1>2, <1>3

\* The runner stays ahead of the snapshot, and the snapshot of the data file.
LEMMA RecordsKept ==
  ASSUME WellBehaved, RunnerInv, RunnerInv', SnapshotsOK, RecordsOK, [NextStore]_allVars
  PROVE  RecordsOK'
<1> DEFINE rec(k)  == persisted(job[k])
           next(k) == persisted(job'[k])
<1>1. ASSUME [Next]_vars
      PROVE  /\ \A k \in DOMAIN dataFile : follows(next(k), dataFile[k])
             /\ saving # NoData => \A k \in DOMAIN saving : follows(next(k), saving[k])
  <2>1. ASSUME NEW k \in Jobs, created(job[k]) PROVE follows(next(k), rec(k))
    BY <1>1, <2>1, JobFollows
  <2>2. ASSUME NEW k \in DOMAIN dataFile PROVE follows(next(k), dataFile[k])
    <3>1. follows(next(k), rec(k)) /\ follows(rec(k), dataFile[k])
      BY <2>1, <2>2, SavedIsCreated DEF RecordsOK
    <3> QED
      BY <3>1, FollowsTransitive
  <2>3. ASSUME saving # NoData, NEW k \in DOMAIN saving PROVE follows(next(k), saving[k])
    <3>1. follows(next(k), rec(k)) /\ follows(rec(k), saving[k])
      BY <2>1, <2>3, SavedIsCreated DEF RecordsOK
    <3> QED
      BY <3>1, FollowsTransitive
  <2> QED
    BY <2>2, <2>3
<1>2. ASSUME UNCHANGED <<dataFile, saving>>, [Next]_vars PROVE RecordsOK'
  BY <1>1, <1>2 DEF RecordsOK
<1>3. CASE Snapshot
  <2>1. /\ [Next]_vars /\ UNCHANGED <<job, dataFile>> /\ matches(saving)' /\ saving' # NoData
    BY <1>3, SnapshotTaken
  <2>2. DOMAIN saving' = jobsByID' /\ \A j \in jobsByID' : saving'[j] = next(j)
    BY <2>1 DEF matches
  <2> QED
    BY <1>1, <2>1, <2>2, FollowsItself DEF RecordsOK
<1>4. CASE SaveRenames
  BY <1>4 DEF SaveRenames, RecordsOK, vars, jobVars
<1>5. CASE SaveFails
  BY <1>5 DEF SaveFails, RecordsOK, vars, jobVars
<1>6. CASE Restart \/ Crash
  <2>1. NewPipelineRunner /\ dataFile' = dataFile /\ saving' = NoData
    BY <1>6 DEF Restart, Crash, NewPipelineRunner
  <2>2. \A k \in DOMAIN dataFile : follows(next(k), dataFile[k])
    BY <2>1, FreshRunner DEF SnapshotsOK
  <2> QED
    BY <2>1, <2>2 DEF RecordsOK
<1>7. ASSUME NEW j \in Jobs, Writer(j) PROVE RecordsOK'
  BY <1>2, <1>7 DEF Writer
<1>8. CASE \/ Handlers \/ \E j \in Jobs : RunsJob(j)
           \/ PersistLoopGoesOn \/ Exited \/ UNCHANGED allVars
  BY <1>2, <1>8, HandlersRunnerOnly DEF RunnerOnly, storeVars
<1> QED
  BY <1>3, <1>4, <1>5, <1>6, <1>7, <1>8 DEF NextStore


\* When Shutdown has returned every job is over.
LEMMA DoneIsOver ==
  ASSUME RunnerPart, shutdown = "done", NEW k \in Jobs, created(job[k])
  PROVE  over(job[k])
<1>1. ~alive(k) /\ ~waits(k)
  BY DEF RunnerPart, NoneIsAlive, NoneWaits, isShuttingDown
<1> QED
  BY <1>1 DEF RunnerPart, EndedOK, waits, over

\* ... and whatever is left to happen changes nothing that is saved.
LEMMA DoneIsFinal ==
  ASSUME WellBehaved, RunnerPart, RunnerInv', shutdown = "done", RunnerOnly
  PROVE  /\ jobsByID' = jobsByID
         /\ \A k \in jobsByID : persisted(job'[k]) = persisted(job[k])
<1>1. [Next]_vars /\ jobsByID' = jobsByID
  BY DEF RunnerOnly, isShuttingDown
<1>2. ASSUME NEW k \in jobsByID PROVE persisted(job'[k]) = persisted(job[k])
  <2>1. k \in Jobs /\ created(job[k]) /\ job[k] \in PipelineJob
    BY DEF RunnerPart, RunnerInv, TypeOK, FlagsOK
  <2>2. over(persisted(job[k]))
    BY <2>1, DoneIsOver, PersistedFields
  <2>3. follows(persisted(job'[k]), persisted(job[k]))
    BY <1>1, <2>1, JobFollows DEF RunnerPart
  <2> QED
    BY <2>2, <2>3 DEF follows
<1> QED
  BY <1>1, <1>2

\* What the final snapshot holds stays what the runner knows.
LEMMA NothingLostKept ==
  ASSUME WellBehaved, RunnerPart, RunnerInv', NothingLost, [NextStore]_allVars
  PROVE  NothingLost'
<1> SUFFICES ASSUME shutdown' = "done", "disk" \notin faults'
             PROVE  IF saving' = NoData THEN matches(dataFile)' ELSE matches(saving)'
  BY DEF NothingLost
<1>1. CASE Snapshot
  BY <1>1, SnapshotTaken DEF RunnerPart
<1>2. CASE SaveRenames
  <2>1. shutdown = "done" /\ "disk" \notin faults /\ saving # NoData
    BY <1>2 DEF SaveRenames, vars
  <2>2. matches(saving)
    BY <2>1 DEF NothingLost
  <2> QED
    BY <1>2, <2>2 DEF SaveRenames, matches, vars, jobVars
<1>3. CASE SaveFails
  BY <1>3 DEF SaveFails
<1>4. CASE Restart \/ Crash
  BY <1>4 DEF Restart, Crash, NewPipelineRunner
<1>5. ASSUME NEW j \in Jobs, Writer(j)
      PROVE  IF saving' = NoData THEN matches(dataFile)' ELSE matches(saving)'
  BY <1>5 DEF Writer, NothingLost, matches, vars, jobVars
<1>6. CASE \/ Handlers \/ \E j \in Jobs : RunsJob(j)
           \/ PersistLoopGoesOn \/ Exited \/ UNCHANGED allVars
  <2>1. RunnerOnly
    BY <1>6, HandlersRunnerOnly
  <2>2. shutdown = "done" /\ UNCHANGED <<dataFile, saving, faults>>
    BY <2>1 DEF RunnerOnly, storeVars
  <2>3. /\ jobsByID' = jobsByID
        /\ \A k \in jobsByID : persisted(job'[k]) = persisted(job[k])
    BY <2>1, <2>2, DoneIsFinal
  <2> QED
    BY <2>2, <2>3 DEF NothingLost, matches
<1> QED
  BY <1>1, <1>2, <1>3, <1>4, <1>5, <1>6 DEF NextStore

(***************************************************************************)
(* determineIfJobShouldBeRemoved never keeps an older job and drops a      *)
(* newer one of the same pipeline, if both are over: a newer job has a     *)
(* smaller index.                                                          *)
(***************************************************************************)
LEMMA RemovesOldestFirst ==
  ASSUME WellBehaved, RunnerInv, NEW age \in [Pipelines -> 0 .. Cardinality(Jobs)],
         NEW j \in jobsByID, NEW k \in jobsByID, job[k].Pipeline = job[j].Pipeline,
         determineIfJobShouldBeRemoved(j, age[job[j].Pipeline]),
         ~determineIfJobShouldBeRemoved(k, age[job[k].Pipeline]),
         over(job[k])
  PROVE  job[k].Created > job[j].Created
<1>1. PICK p \in Pipelines : p = job[j].Pipeline
  BY DEF RunnerInv, TypeOK, PipelineJob
<1>2. /\ p \in DOMAIN defs /\ defs[p].RetentionPeriod \in Int /\ defs[p].RetentionCount \in Int
      /\ job[j].Created \in Nat /\ job[k].Created \in Nat /\ age[p] \in Int
  <2>1. Cardinality(Jobs) \in Nat
    BY JobSetsFinite
  <2> QED
    BY <2>1 DEF RunnerInv, TypeOK, DefinitionsOK, PipelinesDef, PipelineDef, PipelineJob
<1>3. job[k].Start \/ job[k].Canceled
  BY DEF over, RunnerInv, TypeOK, FlagsOK
<1>4. /\ \/ defs[p].RetentionPeriod > 0 /\ job[j].Created <= age[p]
         \/ defs[p].RetentionCount > 0 /\ index(j) >= defs[p].RetentionCount
      /\ ~(defs[p].RetentionPeriod > 0 /\ job[k].Created <= age[p])
      /\ ~(defs[p].RetentionCount > 0 /\ index(k) >= defs[p].RetentionCount)
  BY <1>1, <1>2, <1>3 DEF determineIfJobShouldBeRemoved, over
<1>5. index(j) \in Nat /\ index(k) \in Nat
  <2>1. jobsByID \subseteq Jobs
    BY DEF RunnerInv, TypeOK
  <2> QED
    BY <2>1, JobSetsFinite DEF index
<1>6. ASSUME job[k].Created <= job[j].Created PROVE index(j) <= index(k)
  <2> DEFINE newer(i) == {m \in jobsByID : /\ job[m].Pipeline = job[i].Pipeline
                                           /\ job[m].Created > job[i].Created}
  <2>1. \A m \in jobsByID : job[m].Created \in Nat
    BY DEF RunnerInv, TypeOK, PipelineJob
  <2>2. newer(j) \subseteq newer(k)
    BY <1>2, <1>6, <2>1
  <2>3. newer(k) \in SUBSET Jobs
    BY DEF RunnerInv, TypeOK
  <2>4. IsFiniteSet(newer(k))
    BY <2>3, JobSetsFinite
  <2>5. Cardinality(newer(j)) <= Cardinality(newer(k))
    <3> HIDE DEF newer
    <3> QED
      BY <2>2, <2>4, FS_Subset
  <2> QED
    BY <2>5 DEF index
<1>7. CASE defs[p].RetentionPeriod > 0 /\ job[j].Created <= age[p]
  BY <1>2, <1>4, <1>7
<1>8. CASE defs[p].RetentionCount > 0 /\ index(j) >= defs[p].RetentionCount
  BY <1>2, <1>4, <1>5, <1>6, <1>8
<1> QED
  BY <1>4, <1>7, <1>8

\* Retention keeps the newest.
LEMMA RetentionKept ==
  ASSUME WellBehaved, RunnerInv, RunnerInv', SnapshotsOK, RecordsOK, RetentionOK,
         [NextStore]_allVars
  PROVE  RetentionOK'
<1>1. CASE Snapshot
  <2>1. /\ UNCHANGED <<job, dataFile>> /\ matches(saving)' /\ jobsByID' \subseteq jobsByID
        /\ removeExpiredJobs
    BY <1>1, SnapshotTaken
  <2>2. DOMAIN saving' = jobsByID'
    BY <2>1 DEF matches
  <2>3. PICK age \in [Pipelines -> 0 .. Cardinality(Jobs)] :
          jobsByID' = {i \in jobsByID : ~determineIfJobShouldBeRemoved(i, age[job[i].Pipeline])}
    BY <2>1 DEF removeExpiredJobs
  <2>4. ASSUME NEW j \in DOMAIN dataFile \ jobsByID', NEW k \in DOMAIN dataFile \cap jobsByID',
               dataFile[k].Pipeline = dataFile[j].Pipeline, over(dataFile[k])
        PROVE  dataFile[k].Created > dataFile[j].Created
    <3>1. k \in jobsByID
      BY <2>1
    <3>2. CASE j \notin jobsByID
      BY <2>4, <3>1, <3>2 DEF RetentionOK, dropsOldest
    <3>3. CASE j \in jobsByID
      <4>1. /\ job[k].Pipeline = dataFile[k].Pipeline /\ job[k].Created = dataFile[k].Created
            /\ job[j].Pipeline = dataFile[j].Pipeline /\ job[j].Created = dataFile[j].Created
        BY DEF RecordsOK, follows, persisted
      <4>2. over(job[k])
        <5>1. job[k] \in PipelineJob
          BY DEF SnapshotsOK, isSnapshot, RunnerInv, TypeOK
        <5>2. persisted(job[k]) = dataFile[k]
          BY <2>4 DEF RecordsOK, follows
        <5> QED
          BY <2>4, <5>1, <5>2, PersistedFields
      <4>3. /\ determineIfJobShouldBeRemoved(j, age[job[j].Pipeline])
            /\ ~determineIfJobShouldBeRemoved(k, age[job[k].Pipeline])
        BY <2>3, <2>4, <3>3
      <4>4. job[k].Created > job[j].Created
        BY <2>4, <3>1, <3>3, <4>1, <4>2, <4>3, RemovesOldestFirst
      <4> QED
        BY <4>1, <4>4
    <3> QED
      BY <3>2, <3>3
  <2>5. dropsOldest(jobsByID)'
    BY <2>1, <2>4 DEF dropsOldest
  <2> QED
    BY <2>2, <2>5 DEF RetentionOK
<1>2. CASE SaveRenames
  <2>1. dataFile' = saving /\ saving' = NoData /\ jobsByID' = jobsByID /\ saving # NoData
    BY <1>2 DEF SaveRenames, vars, jobVars
  <2>2. DOMAIN dataFile' \subseteq jobsByID'
    BY <2>1 DEF RetentionOK
  <2> QED
    BY <2>1, <2>2 DEF RetentionOK, dropsOldest
<1>3. CASE SaveFails
  BY <1>3 DEF SaveFails, RetentionOK, dropsOldest, vars, jobVars
<1>4. CASE Restart \/ Crash
  <2>1. jobsByID' = DOMAIN dataFile' /\ saving' = NoData
    BY <1>4 DEF Restart, Crash, NewPipelineRunner
  <2> QED
    BY <2>1 DEF RetentionOK, dropsOldest
<1>5. ASSUME NEW j \in Jobs, Writer(j) PROVE RetentionOK'
  BY <1>5 DEF Writer, RetentionOK, dropsOldest, vars, jobVars
<1>6. CASE \/ Handlers \/ \E j \in Jobs : RunsJob(j)
           \/ PersistLoopGoesOn \/ Exited \/ UNCHANGED allVars
  <2>1. RunnerOnly
    BY <1>6, HandlersRunnerOnly
  <2>2. UNCHANGED <<dataFile, saving>>
    BY <2>1 DEF RunnerOnly, storeVars
  <2>3. jobsByID \subseteq jobsByID'
    BY <2>1 DEF RunnerOnly
  <2>4. DOMAIN dataFile \cap jobsByID' = DOMAIN dataFile \cap jobsByID
    BY <2>1, SavedIsCreated DEF RunnerOnly
  <2> QED
    BY <2>2, <2>3, <2>4 DEF RetentionOK, dropsOldest
<1> QED
  BY <1>1, <1>2, <1>3, <1>4, <1>5, <1>6 DEF NextStore

\* When prunner has exited and no write has failed, the data file is what the runner knew.
LEMMA ExitedMatches ==
  ASSUME NothingLost, exited, "disk" \notin faults
  PROVE  matches(dataFile)
  BY DEF NothingLost, exited

\* Logs are written for known jobs and removed with them.
LEMMA LogsKept ==
  ASSUME RunnerInv, RunnerInv', NothingLost, LogsBelongToJobs, [NextStore]_allVars
  PROVE  LogsBelongToJobs'
<1> SUFFICES ASSUME faults' = {} PROVE logs' \subseteq jobsByID'
  BY DEF LogsBelongToJobs
<1>1. CASE Snapshot
  <2>1. removeLogs(jobsByID \ jobsByID')
    BY <1>1 DEF Snapshot
  <2>2. logs' = logs \ (jobsByID \ jobsByID') /\ faults = {}
    BY <2>1 DEF removeLogs
  <2> QED
    BY <2>2 DEF LogsBelongToJobs
<1>2. CASE SaveRenames \/ SaveFails
  BY <1>2 DEF SaveRenames, SaveFails, LogsBelongToJobs, vars, jobVars
<1>3. CASE Restart
  <2>1. exited /\ faults = {} /\ logs' = logs /\ jobsByID' = DOMAIN dataFile
    BY <1>3 DEF Restart, NewPipelineRunner
  <2>2. DOMAIN dataFile = jobsByID
    BY <2>1, ExitedMatches DEF matches
  <2> QED
    BY <2>1, <2>2 DEF LogsBelongToJobs
<1>4. CASE Crash
  BY <1>4 DEF Crash
<1>5. ASSUME NEW j \in Jobs, Writer(j) PROVE logs' \subseteq jobsByID'
  <2>1. alive(j)
    BY <1>5 DEF Writer, alive
  <2>2. j \in jobsByID
    BY <2>1 DEF RunnerInv, CountsWhatRuns
  <2> QED
    BY <1>5, <2>2 DEF Writer, LogsBelongToJobs, vars, jobVars
<1>6. CASE \/ Handlers \/ \E j \in Jobs : RunsJob(j)
           \/ PersistLoopGoesOn \/ Exited \/ UNCHANGED allVars
  BY <1>6, HandlersRunnerOnly DEF RunnerOnly, storeVars, LogsBelongToJobs
<1> QED
  BY <1>1, <1>2, <1>3, <1>4, <1>5, <1>6 DEF NextStore


-----------------------------------------------------------------------------
\* The initial states and the steps keep the invariant.
LEMMA InitStoreInv ==
  ASSUME WellBehaved, InitStore
  PROVE  StoreInv
<1>1. RunnerInv /\ NoneWaits /\ NoneIsAlive /\ shutdown = "no" /\ jobsByID = {}
  BY InitLife DEF LifeInv, InitStore, Init
<1>2. EndedOK /\ LoopEnds
  <2>1. ASSUME NEW j \in Jobs PROVE ~job[j].Start
    <3>1. job[j] = noJob
      BY DEF InitStore, Init
    <3> QED
      BY <3>1 DEF noJob
  <2> QED
    BY <1>1, <2>1 DEF EndedOK, LoopEnds
<1>3. dataFile = <<>> /\ saving = NoData /\ logs = {}
  BY DEF InitStore
<1>4. DOMAIN dataFile = {} /\ dataFile \in [DOMAIN dataFile -> PersistedJob]
  BY <1>3
<1>5. SnapshotsOK /\ RecordsOK /\ RetentionOK
  BY <1>3, <1>4 DEF SnapshotsOK, isSnapshot, RecordsOK, RetentionOK, dropsOldest
<1>6. NothingLost /\ LogsBelongToJobs
  BY <1>1, <1>3 DEF NothingLost, LogsBelongToJobs
<1> QED
  BY <1>1, <1>2, <1>5, <1>6 DEF StoreInv, RunnerPart

LEMMA NextStoreInv ==
  ASSUME WellBehaved, StoreInv, [NextStore]_allVars
  PROVE  StoreInv'
<1>1. RunnerPart'
  BY StoreStep, NextRunner, FreshRunner DEF StoreInv, RunnerPart, SnapshotsOK
<1>2. RunnerInv /\ RunnerInv'
  BY <1>1 DEF StoreInv, RunnerPart
<1>3. SnapshotsOK'
  BY <1>2, SnapshotsKept DEF StoreInv
<1>4. RecordsOK'
  BY <1>2, RecordsKept DEF StoreInv
<1>5. NothingLost'
  BY <1>2, NothingLostKept DEF StoreInv
<1>6. RetentionOK'
  BY <1>2, RetentionKept DEF StoreInv
<1>7. LogsBelongToJobs'
  BY <1>2, LogsKept DEF StoreInv
<1> QED
  BY <1>1, <1>3, <1>4, <1>5, <1>6, <1>7 DEF StoreInv

(***************************************************************************)
(* StoreInv holds in every state, over saves, failed saves, crashes and    *)
(* restarts.                                                               *)
(***************************************************************************)
THEOREM StoreInvariant == WellBehaved => (SpecStore => []StoreInv)
<1> SUFFICES ASSUME WellBehaved PROVE SpecStore => []StoreInv
  OBVIOUS
<1>1. InitStore => StoreInv
  BY InitStoreInv
<1>2. StoreInv /\ [NextStore]_allVars => StoreInv'
  BY NextStoreInv
<1> QED
  BY <1>1, <1>2, PTL DEF SpecStore

(***************************************************************************)
(* When Shutdown has returned from its final save and no write failed, the *)
(* data file holds every job the runner knew, as it knew it, and none that *)
(* the next start would have to cancel.                                    *)
(***************************************************************************)
THEOREM StopLosesNothing == WellBehaved => (SpecStore => []GracefulStopLosesNothing)
<1>1. StoreInv => GracefulStopLosesNothing
  <2> SUFFICES ASSUME StoreInv, exited, "disk" \notin faults
               PROVE  /\ DOMAIN dataFile = jobsByID
                      /\ \A j \in jobsByID : dataFile[j] = persisted(job[j]) /\ over(dataFile[j])
    BY DEF GracefulStopLosesNothing
  <2>1. matches(dataFile)
    BY ExitedMatches DEF StoreInv
  <2>2. ASSUME NEW j \in jobsByID PROVE over(persisted(job[j]))
    <3>1. j \in Jobs /\ created(job[j]) /\ job[j] \in PipelineJob
      BY DEF StoreInv, RunnerPart, RunnerInv, TypeOK, FlagsOK
    <3> QED
      BY <3>1, DoneIsOver, PersistedFields DEF StoreInv, exited
  <2> QED
    BY <2>1, <2>2 DEF matches
<1> QED
  BY <1>1, StoreInvariant, PTL

(***************************************************************************)
(* Unless a write or removal failed or prunner died, the output store      *)
(* holds logs of known jobs only, whatever retention dropped and however   *)
(* often prunner was restarted.                                            *)
(***************************************************************************)
THEOREM LogsHaveOwners == WellBehaved => (SpecStore => []LogsBelongToJobs)
<1>1. StoreInv => LogsBelongToJobs
  BY DEF StoreInv
<1> QED
  BY <1>1, StoreInvariant, PTL

\* The steps SavedResultsAreFinal and RetentionDropsOldestFirst ask for.
ResultsKept ==
  \A j \in DOMAIN dataFile \cap DOMAIN dataFile' :
    /\ progress(dataFile[j]) <= progress(dataFile'[j])
    /\ over(dataFile[j]) => dataFile'[j] = dataFile[j]

OldestDropped ==
  \A j \in DOMAIN dataFile \ DOMAIN dataFile', k \in DOMAIN dataFile \cap DOMAIN dataFile' :
    /\ dataFile[k].Pipeline = dataFile[j].Pipeline
    /\ over(dataFile[k])
    => dataFile[k].Created > dataFile[j].Created

\* Only SaveRenames changes the data file.
LEMMA DataFileStep ==
  ASSUME [NextStore]_allVars
  PROVE  dataFile' = dataFile \/ (saving # NoData /\ dataFile' = saving)
<1>1. CASE Snapshot \/ SaveRenames \/ SaveFails \/ Restart \/ Crash
  BY <1>1 DEF Snapshot, SaveRenames, SaveFails, Restart, Crash, NewPipelineRunner
<1>2. ASSUME NEW j \in Jobs, Writer(j) PROVE dataFile' = dataFile
  BY <1>2 DEF Writer
<1>3. CASE \/ Handlers \/ \E j \in Jobs : RunsJob(j)
           \/ PersistLoopGoesOn \/ Exited \/ UNCHANGED allVars
  BY <1>3, HandlersRunnerOnly DEF RunnerOnly, storeVars
<1> QED
  BY <1>1, <1>2, <1>3 DEF NextStore

(***************************************************************************)
(* The record of a job in the data file moves from waiting to running to   *)
(* over and is final then, whatever saves, failures, crashes and restarts  *)
(* follow.                                                                 *)
(***************************************************************************)
THEOREM SavedResultsStay == WellBehaved => (SpecStore => SavedResultsAreFinal)
<1> SUFFICES ASSUME WellBehaved PROVE SpecStore => SavedResultsAreFinal
  OBVIOUS
<1>1. StoreInv /\ [NextStore]_allVars => ResultsKept
  <2> SUFFICES ASSUME StoreInv, [NextStore]_allVars,
                      NEW j \in DOMAIN dataFile \cap DOMAIN dataFile'
               PROVE  follows(dataFile'[j], dataFile[j])
    BY DEF ResultsKept, follows
  <2>1. CASE dataFile' = dataFile
    BY <2>1, FollowsItself
  <2>2. CASE saving # NoData /\ dataFile' = saving
    BY <2>2 DEF StoreInv, RecordsOK
  <2> QED
    BY <2>1, <2>2, DataFileStep
<1>2. SpecStore => []StoreInv
  BY StoreInvariant
<1>3. ResultsKept => [ResultsKept]_allVars
  OBVIOUS
<1> QED
  BY <1>1, <1>2, PTL DEF SpecStore, SavedResultsAreFinal, ResultsKept

(***************************************************************************)
(* A job leaves the data file only with every older job of its pipeline    *)
(* that was over, also when saves in between failed, prunner died, or a    *)
(* reload changed the retention.                                           *)
(***************************************************************************)
THEOREM RetentionIsOldestFirst == WellBehaved => (SpecStore => RetentionDropsOldestFirst)
<1> SUFFICES ASSUME WellBehaved PROVE SpecStore => RetentionDropsOldestFirst
  OBVIOUS
<1>1. StoreInv /\ [NextStore]_allVars => OldestDropped
  <2> SUFFICES ASSUME StoreInv, [NextStore]_allVars PROVE OldestDropped
    OBVIOUS
  <2>1. CASE dataFile' = dataFile
    BY <2>1 DEF OldestDropped
  <2>2. CASE saving # NoData /\ dataFile' = saving
    <3>1. dropsOldest(DOMAIN dataFile')
      BY <2>2 DEF StoreInv, RetentionOK
    <3> QED
      BY <3>1 DEF dropsOldest, OldestDropped
  <2> QED
    BY <2>1, <2>2, DataFileStep
<1>2. SpecStore => []StoreInv
  BY StoreInvariant
<1> QED
  BY <1>1, <1>2, PTL DEF SpecStore, RetentionDropsOldestFirst, OldestDropped

=============================================================================
