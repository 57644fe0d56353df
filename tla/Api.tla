-------------------------------- MODULE Api --------------------------------
(***************************************************************************)
(* The HTTP handlers of server/server.go on top of the PipelineRunner: a   *)
(* client schedules a job, follows it through GET /pipelines/jobs,         *)
(* /job/detail and /job/logs, and may cancel it, while other clients and   *)
(* the runner go on.                                                       *)
(*                                                                         *)
(* r.mx is a read/write mutex.  A reader keeps out every handler that      *)
(* writes, but not SaveToStore, which takes the read lock only and yet     *)
(* deletes expired jobs from the maps the reader looks at.  That is a data *)
(* race: the Go runtime either goes on or stops the process with "fatal    *)
(* error: concurrent map iteration and map write".                         *)
(***************************************************************************)
EXTENDS PipelineRunner

CONSTANT NoJob   \* the client follows no job yet

ASSUME NoJobAssumption == NoJob \notin Jobs

VARIABLES
  followed,      \* the job the client follows, or NoJob
  request,       \* where the client's request is
  seen,          \* what the client was last told about its job
  cancelAnswer   \* the status of its last POST /job/cancel, 0 before the first

apiVars == <<followed, request, seen, cancelAnswer>>
allVars == <<vars, apiVars>>

(***************************************************************************)
(* A request: "idle" between two requests, "detail" or "logs" while        *)
(* ReadJob or IterateJobs holds the read lock, "files" while jobLogs,      *)
(* without the lock, opens the files of the task, and "fatal" when the Go  *)
(* runtime has stopped prunner.                                            *)
(***************************************************************************)
reading == request \in {"detail", "logs"}
fatal   == request = "fatal"

(***************************************************************************)
(* What an answer tells about a job: its status and the fields jobToResult *)
(* copies.  Status 0: the client has not asked yet.                        *)
(***************************************************************************)
jobToResult(status, rec) ==
  [ status    |-> status,
    Start     |-> rec.Start,
    Completed |-> rec.Completed,
    Canceled  |-> rec.Canceled,
    LastError |-> rec.LastError ]

notAsked == jobToResult(0, noJob)
notFound == jobToResult(404, noJob)

InitApi ==
  /\ Init
  /\ followed = NoJob
  /\ request = "idle"
  /\ seen = notAsked
  /\ cancelAnswer = 0

-----------------------------------------------------------------------------
(***************************************************************************)
(* POST /pipelines/schedule.  The status is 503 or 400 if ScheduleAsync    *)
(* refuses the job, and then nothing changes.  On 202 the client, or some  *)
(* other client, gets the identity of the job.                             *)
(***************************************************************************)
pipelinesScheduleStatus(p) ==
  IF isShuttingDown THEN 503
  ELSE IF p \notin DOMAIN defs \/ canAcceptJob(defs[p], waitListByPipeline[p]) # "nil" THEN 400
  ELSE 202

pipelinesSchedule(j) ==
  /\ ~reading /\ ~fatal
  /\ \E p \in Pipelines, q \in Partitions, b \in Buildability :
       /\ pipelinesScheduleStatus(p) = 202
       /\ ScheduleAsync(p, j, q, b)
  /\ followed' \in {followed, IF followed = NoJob THEN j ELSE followed}
  /\ UNCHANGED <<request, seen, cancelAnswer>>

(***************************************************************************)
(* The status of POST /job/cancel: 404 for ErrJobNotFound, 500 for any     *)
(* other error of cancelJobInternal, and there is but one, that the job    *)
(* has completed.  To cancel a job twice is no error, and neither is the   *)
(* failed assertion that a running job has a scheduler: it is only logged. *)
(***************************************************************************)
jobCancelStatus(j) ==
  IF j \notin jobsByID THEN 404
  ELSE IF job[j].Completed /\ ~job[j].Canceled THEN 500
  ELSE 200

\* POST /job/cancel, by the client or by another one; 404, 500 and a second 200 change nothing.
jobCancel(j) ==
  /\ mutexFree /\ ~reading /\ ~fatal
  /\ IF j \in openJobs({j}) THEN CancelJob(j) ELSE UNCHANGED vars
  /\ \/ UNCHANGED cancelAnswer
     \/ j = followed /\ request = "idle" /\ cancelAnswer' = jobCancelStatus(j)
  /\ UNCHANGED <<followed, request, seen>>

(***************************************************************************)
(* GET /job/detail, /pipelines/jobs and /job/logs begin: ReadJob or        *)
(* IterateJobs has taken the read lock.  (The list of pipelines is read in *)
(* a critical section of its own, before; it says nothing about jobs.)     *)
(***************************************************************************)
ReadBegins(handler) ==
  /\ mutexFree
  /\ request = "idle" /\ followed # NoJob
  /\ request' = handler
  /\ UNCHANGED <<vars, followed, seen, cancelAnswer>>

\* jobDetail, or listPipelineJobs as far as it is about the followed job.
jobDetail ==
  /\ request = "detail"
  /\ request' = "idle"
  /\ seen' = IF followed \in jobsByID THEN jobToResult(200, job[followed]) ELSE notFound
  /\ UNCHANGED <<vars, followed, cancelAnswer>>

\* jobLogs: ReadJob answers whether the job and its task exist ...
jobLogs ==
  /\ request = "logs"
  /\ IF followed \in jobsByID
     THEN request' = "files" /\ UNCHANGED seen
     ELSE request' = "idle" /\ seen' = notFound
  /\ UNCHANGED <<vars, followed, cancelAnswer>>

(***************************************************************************)
(* ... then, after the lock was released, Reader opens stdout and stderr.  *)
(* A file that is not there is only logged: the answer is 200, with an     *)
(* empty text, which tells the client as little as 404 would.  The files   *)
(* of a task that has run are there as long as the job is known: retention *)
(* removes them with the job (LogsBelongToJobs in module Restart).         *)
(***************************************************************************)
Reader ==
  /\ request = "files"
  /\ request' = "idle"
  /\ seen' = IF job[followed].Start /\ followed \notin jobsByID THEN notFound ELSE seen
  /\ UNCHANGED <<vars, followed, cancelAnswer>>

-----------------------------------------------------------------------------
\* The steps of the runner that wait for the write lock, or touch nothing a reader sees.
Handlers ==
  /\ ~reading /\ ~fatal
  /\ \/ WaitListLoop
     \/ \E j \in Jobs :
          \/ \E s \in Schedulers : SchedulerCancel(j, s)
          \/ \E errored \in BOOLEAN : HandleTaskChange(j, errored)
          \/ JobGoroutine(j)
          \/ StartTimer(j)
     \/ \E D \in ReloadDefs : ReplaceDefinitions(D)
     \/ PersistRequested \/ PersistLoopStops
     \/ Signal
     \/ ShutdownBegins \/ ShutdownPolls \/ ShutdownWakes \/ ShutdownForced
  /\ UNCHANGED apiVars

\* SaveToStore does not wait for readers; if it deletes next to one, anything may happen.
Saves ==
  /\ ~fatal
  /\ SaveToStore \/ ShutdownEnds
  /\ \/ UNCHANGED request
     \/ reading /\ jobsByID' # jobsByID /\ request' = "fatal"
  /\ UNCHANGED <<followed, seen, cancelAnswer>>

\* prunner is gone.
Stopped == (Terminated \/ fatal) /\ UNCHANGED allVars

NextApi ==
  \/ \E j \in Jobs : pipelinesSchedule(j) \/ jobCancel(j)
  \/ \E handler \in {"detail", "logs"} : ReadBegins(handler)
  \/ jobDetail
  \/ jobLogs
  \/ Reader
  \/ Handlers
  \/ Saves
  \/ Stopped

SpecApi == InitApi /\ [][NextApi]_allVars

-----------------------------------------------------------------------------
\* How far a job is, by an answer.
progress(answer) ==
  IF answer.status = 0 THEN 0
  ELSE IF answer.status = 404 THEN 4
  ELSE IF answer.Completed \/ answer.Canceled THEN 3
  ELSE IF answer.Start THEN 2 ELSE 1

(***************************************************************************)
(* The answers a client gets about its job, whichever of the three         *)
(* requests it makes, never go back: waiting, running, over, gone.  How    *)
(* the job ended never changes, a job that was gone is not shown again,    *)
(* and only a job that is over is ever gone.                               *)
(***************************************************************************)
MonotoneReads ==
  [][/\ progress(seen') >= progress(seen)
     /\ progress(seen) = 3 /\ progress(seen') = 3 => seen' = seen
     /\ seen' = notFound => settled(job[followed])]_allVars

(***************************************************************************)
(* The job points to the scheduler that is at work: the one of the tasks   *)
(* until RunJobErrorHandler has installed that of on_error.                *)
(***************************************************************************)
schedulerAtWork(j) ==
  /\ job[j].sched # "nil"
  /\ goroutine[j] \in {"main", "failed", "built"} => job[j].sched = "main"
  /\ goroutine[j] = "handler" => job[j].sched = "error"

\* The scheduler of the tasks of job j is cancelled, or a goroutine is about to cancel it.
underCancel(j) == cancelled[j] \/ "main" \in cancelGo[j]

(***************************************************************************)
(* A cancel does what its answer says.  cancelJobInternal never fails its  *)
(* assertion: a job it may cancel, once started, points to the scheduler   *)
(* at work, while the error handler and JobCompleted replace it.  And for  *)
(* good, whatever timers, completions, failures, reloads and retention     *)
(* come after: a job whose cancel was answered 200 is over, or is running  *)
(* with its scheduler cancelled until on_error takes over; it never waits  *)
(* and never starts.  One whose cancel was answered 500 has completed and  *)
(* will not be shown as canceled; one answered 404 is gone.                *)
(***************************************************************************)
CancelIsHonoured ==
  /\ mutexFree => \A j \in openJobs(Jobs) : job[j].Start => schedulerAtWork(j)
  /\ cancelAnswer = 200 =>
       \/ settled(job[followed])
       \/ /\ alive(followed)
          /\ goroutine[followed] \in {"main", "failed", "built"} => underCancel(followed)
  /\ cancelAnswer = 500 => job[followed].Completed /\ ~job[followed].Canceled
  /\ cancelAnswer = 404 => followed \notin jobsByID

(***************************************************************************)
(* The comment on PipelineRunner: "All exported functions are synced with  *)
(* the mx mutex and are safe for concurrent use".  No step changes the job *)
(* maps while a reader is inside.                                          *)
(***************************************************************************)
ReadersAreSafe == [][reading => jobsByID' = jobsByID]_allVars

=============================================================================
