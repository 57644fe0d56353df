------------------------------ MODULE Restart -------------------------------
(***************************************************************************)
(* The PipelineRunner with its two stores, and what is left of both when   *)
(* prunner stops or dies and is started again: the data file written by    *)
(* SaveToStore through JsonDataStore.Save (store/store.go), the log        *)
(* directories of FileOutputStore (taskctl/output_store.go), and           *)
(* initialLoadFromStore (prunner.go).                                      *)
(*                                                                         *)
(* A save is two steps.  Under the read lock SaveToStore drops expired     *)
(* jobs, with their logs, and takes a snapshot; Save then writes that to a *)
(* temporary file, without the lock, and renames it.  Between the two all  *)
(* other goroutines go on.                                                 *)
(***************************************************************************)
EXTENDS PipelineRunner

CONSTANTS
  NoData,       \* no snapshot is being written
  MaxRestarts,  \* bound on the number of restarts
  Faults,       \* subset of {"crash", "disk"}: what may fail
  Logged        \* the jobs whose logs are followed

ASSUME RestartAssumption ==
  MaxRestarts \in Nat /\ Faults \subseteq {"crash", "disk"} /\ Logged \subseteq Jobs

VARIABLES
  dataFile,     \* data.json: a record for each persisted job
  saving,       \* the snapshot Save is writing, or NoData
  logs,         \* the jobs with a directory in the output store
  restarts,     \* number of restarts
  faults        \* history: what has failed

storeVars == <<dataFile, saving, logs, restarts, faults>>
allVars   == <<vars, storeVars>>

(***************************************************************************)
(* PersistedJob.  LastError, the queue partition, the start delay and the  *)
(* scheduler of a job are not persisted.                                   *)
(***************************************************************************)
PersistedJob ==
  [ Pipeline : Pipelines, Created : Nat, Start : BOOLEAN, Completed : BOOLEAN, Canceled : BOOLEAN ]

persisted(rec) ==
  [ Pipeline |-> rec.Pipeline, Created |-> rec.Created, Start |-> rec.Start,
    Completed |-> rec.Completed, Canceled |-> rec.Canceled ]

\* Is the job over, as far as a restart is concerned?
over(rec) == rec.Completed \/ rec.Canceled

\* The job of a persisted record.  What is not persisted has its zero value.
buildJobFromPersistedJob(rec) ==
  [ noJob EXCEPT !.Pipeline = rec.Pipeline, !.Created = rec.Created, !.Start = rec.Start,
                 !.Completed = rec.Completed, !.Canceled = rec.Canceled ]

\* Mutant: a job that was running is taken over as it was.
initialLoadFromStoreAsIs(rec) == buildJobFromPersistedJob(rec)

\* Mutant: every job is marked as cancelled, finished or not.
initialLoadFromStoreAllCanceled(rec) == [ buildJobFromPersistedJob(rec) EXCEPT !.Canceled = TRUE ]

\* A job that was running or waiting when it was saved is marked as cancelled.
initialLoadFromStore(rec) ==
  [ buildJobFromPersistedJob(rec) EXCEPT !.Canceled = @ \/ isRunning(rec) \/ ~rec.Start ]

\* NoData is told from a snapshot.
ASSUME NoDataAssumption == \A S \in SUBSET Jobs : NoData \notin [S -> PersistedJob]

-----------------------------------------------------------------------------
InitStore ==
  /\ Init
  /\ dataFile = <<>>
  /\ saving = NoData
  /\ logs = {}
  /\ restarts = 0
  /\ faults = {}

\* The steps of the runner that do not touch the stores.
Handlers ==
  /\ \/ WaitListLoop
     \/ \E j \in Jobs :
          \/ \E p \in Pipelines, q \in Partitions, b \in Buildability : ScheduleAsync(p, j, q, b)
          \/ CancelJob(j)
          \/ \E s \in Schedulers : SchedulerCancel(j, s)
          \/ \E errored \in BOOLEAN : HandleTaskChange(j, errored)
          \/ StartTimer(j)
     \/ \E D \in ReloadDefs : ReplaceDefinitions(D)
     \/ Signal
     \/ ShutdownBegins \/ ShutdownPolls \/ ShutdownWakes \/ ShutdownForced
  /\ UNCHANGED storeVars

RunsJob(j) == JobGoroutine(j) /\ UNCHANGED storeVars

\* TaskRunner.Run opens the log files of a task: OutputStore.Writer.
Writer(j) ==
  /\ mutexFree
  /\ goroutine[j] \in {"main", "handler"}
  /\ j \in Logged \ logs
  /\ logs' = logs \cup {j}
  /\ UNCHANGED <<vars, dataFile, saving, restarts, faults>>

\* Mutant: the logs of a dropped job are kept.
removeLogsNot(dropped) == UNCHANGED <<logs, faults>>

\* OutputStore.Remove, for every dropped job; an error is only logged.
removeLogs(dropped) ==
  \/ logs' = logs \ dropped /\ UNCHANGED faults
  \/ /\ "disk" \in Faults
     /\ logs' \in {logs \ d : d \in SUBSET dropped \ {dropped}}
     /\ faults' = faults \cup {"disk"}

\* SaveToStore under the read lock, in the persist loop or at the end of Shutdown.
Snapshot ==
  /\ saving = NoData
  /\ SaveToStore \/ ShutdownEnds
  /\ saving' = [j \in jobsByID' |-> persisted(job[j])]
  /\ removeLogs(jobsByID \ jobsByID')
  /\ UNCHANGED <<dataFile, restarts>>

\* JsonDataStore.Save: the temporary file is complete and becomes the data file ...
SaveRenames ==
  /\ saving # NoData
  /\ dataFile' = saving
  /\ saving' = NoData
  /\ UNCHANGED <<vars, logs, restarts, faults>>

\* ... or it cannot be written or renamed, which is only logged.
SaveFails ==
  /\ "disk" \in Faults
  /\ saving # NoData
  /\ saving' = NoData
  /\ faults' = faults \cup {"disk"}
  /\ UNCHANGED <<vars, dataFile, logs, restarts>>

\* The persist loop goes on after its save.
PersistLoopGoesOn ==
  /\ saving = NoData
  /\ PersistRequested \/ PersistLoopStops
  /\ UNCHANGED storeVars

\* Shutdown has returned from its final save.
exited == shutdown = "done" /\ saving = NoData

(***************************************************************************)
(* prunner is started, with the definitions it finds, after it has exited  *)
(* or died.  All that was in memory is gone.  A job that is not in the     *)
(* data file is forgotten; its identity is not used again.                 *)
(***************************************************************************)
NewPipelineRunner ==
  /\ defs' \in InitDefs
  /\ jobsByID' = DOMAIN dataFile
  /\ job' = [j \in Jobs |->
               IF j \in DOMAIN dataFile THEN initialLoadFromStore(dataFile[j])
               ELSE IF created(job[j])
                    THEN [noJob EXCEPT !.Pipeline = job[j].Pipeline, !.Created = job[j].Created,
                                       !.Canceled = TRUE]
                    ELSE noJob]
  /\ waitListByPipeline' = [p \in Pipelines |-> <<>>]
  /\ timer' = [j \in Jobs |-> "off"]
  /\ goroutine' = [j \in Jobs |-> "none"]
  /\ result' = [j \in Jobs |-> "nil"]
  /\ cancelGo' = [j \in Jobs |-> {}]
  /\ cancelled' = [j \in Jobs |-> FALSE]
  /\ calls' = <<>>
  /\ persistRequests' = FALSE
  /\ persistLoop' = "select"
  /\ shutdown' = "no"
  /\ saving' = NoData
  /\ restarts' = restarts + 1
  /\ UNCHANGED <<dataFile, logs>>

Restart ==
  /\ restarts < MaxRestarts
  /\ exited
  /\ NewPipelineRunner
  /\ UNCHANGED faults

\* prunner dies at any moment: a snapshot being written is lost.
Crash ==
  /\ restarts < MaxRestarts
  /\ "crash" \in Faults
  /\ ~exited
  /\ NewPipelineRunner
  /\ faults' = faults \cup {"crash"}

Exited == exited /\ UNCHANGED allVars

NextStore ==
  \/ Handlers
  \/ \E j \in Jobs : RunsJob(j) \/ Writer(j)
  \/ Snapshot
  \/ SaveRenames
  \/ SaveFails
  \/ PersistLoopGoesOn
  \/ Restart
  \/ Crash
  \/ Exited

SpecStore == InitStore /\ [][NextStore]_allVars

(***************************************************************************)
(* Fairness: goroutines are scheduled, timers fire, the scripts of a job   *)
(* end and a save ends.  Clients, signals, reloads and task failures are   *)
(* not promised, and nobody promises that prunner is started again.        *)
(***************************************************************************)
FairStore ==
  /\ SpecStore
  /\ WF_allVars(WaitListLoop /\ UNCHANGED storeVars)
  /\ \A j \in Jobs :
       /\ WF_allVars(RunsJob(j))
       /\ WF_allVars(StartTimer(j) /\ UNCHANGED storeVars)
       /\ WF_allVars((\E s \in Schedulers : SchedulerCancel(j, s)) /\ UNCHANGED storeVars)
  /\ WF_allVars(Snapshot)
  /\ WF_allVars(SaveRenames \/ SaveFails)
  /\ WF_allVars(PersistLoopGoesOn)
  /\ WF_allVars((ShutdownBegins \/ ShutdownPolls \/ ShutdownWakes) /\ UNCHANGED storeVars)

-----------------------------------------------------------------------------
(***************************************************************************)
(* The record of a job in the data file never goes back: it moves from     *)
(* waiting to running to over, and once it says how the job ended it never *)
(* changes again, whatever saves, failed saves and restarts follow.        *)
(***************************************************************************)
progress(rec) == IF over(rec) THEN 2 ELSE IF rec.Start THEN 1 ELSE 0

SavedResultsAreFinal ==
  [][\A j \in DOMAIN dataFile \cap DOMAIN dataFile' :
       /\ progress(dataFile[j]) <= progress(dataFile'[j])
       /\ over(dataFile[j]) => dataFile'[j] = dataFile[j]]_allVars

(***************************************************************************)
(* Retention drops the oldest jobs first: a job leaves the data file only  *)
(* if every older job of its pipeline that was over leaves it as well,     *)
(* also if saves in between failed, prunner died or definitions changed.   *)
(***************************************************************************)
RetentionDropsOldestFirst ==
  [][\A j \in DOMAIN dataFile \ DOMAIN dataFile', k \in DOMAIN dataFile \cap DOMAIN dataFile' :
       /\ dataFile[k].Pipeline = dataFile[j].Pipeline
       /\ over(dataFile[k])
       => dataFile[k].Created > dataFile[j].Created]_allVars

(***************************************************************************)
(* A shutdown that was allowed to finish loses nothing: unless writing     *)
(* failed, the data file then holds every job the runner knew, as it knew  *)
(* it, and none that would have to be cancelled by the next start.         *)
(***************************************************************************)
GracefulStopLosesNothing ==
  exited /\ "disk" \notin faults =>
    /\ DOMAIN dataFile = jobsByID
    /\ \A j \in jobsByID : dataFile[j] = persisted(job[j]) /\ over(dataFile[j])

(***************************************************************************)
(* Retention leaves no logs behind: unless something failed, the output    *)
(* store holds logs of known jobs only, also after restarts.  (After a     *)
(* crash, or a save or removal that failed, logs nobody owns may stay for  *)
(* good.)                                                                  *)
(***************************************************************************)
LogsBelongToJobs == faults = {} => logs \subseteq jobsByID

(***************************************************************************)
(* Every accepted job is over sooner or later, and that it is gets into    *)
(* the data file without anybody asking for it, unless retention drops the *)
(* finished job, a save fails or prunner dies before.                      *)
(***************************************************************************)
EveryEndIsSaved ==
  \A j \in Jobs :
    j \in jobsByID ~>
      (\/ j \in DOMAIN dataFile /\ over(dataFile[j])
       \/ j \notin jobsByID /\ over(job[j])
       \/ faults # {})

\* A shutdown comes to an end, final save included, unless prunner dies.
ShutdownExits ==
  \A n \in 0..MaxRestarts : (shutdown # "no" /\ restarts = n) ~> (exited \/ restarts # n)

=============================================================================
