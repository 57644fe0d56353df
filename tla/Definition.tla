----------------------------- MODULE Definition -----------------------------
(***************************************************************************)
(* Pipeline definitions (definition/pipelines.go): the part of a           *)
(* PipelineDef that decides how jobs are queued, started, cancelled on     *)
(* failure and retained, and the validation every definition passes before *)
(* the runner sees it.                                                     *)
(*                                                                         *)
(* Durations are reduced to integers whose sign and order matter, never    *)
(* their unit.  Scripts and environments are left out; the task graph is   *)
(* the subject of module JobExecution.                                     *)
(***************************************************************************)
EXTENDS Integers

CONSTANT NoLimit    \* a nil *int: queue_limit or queue_partition_limit unset

ASSUME NoLimitAssumption == NoLimit \notin Int

QueueStrategies == {"append", "replace", "partitioned_replace"}

PipelineDef ==
  [ Concurrency                      : Int,
    QueueLimit                       : Int \cup {NoLimit},
    QueuePartitionLimit              : Int \cup {NoLimit},
    QueueStrategy                    : QueueStrategies,
    StartDelay                       : Int,
    ContinueRunningTasksAfterFailure : BOOLEAN,
    OnError                          : BOOLEAN,
    RetentionPeriod                  : Int,
    RetentionCount                   : Int ]

(***************************************************************************)
(* PipelineDef.validate: the definitions Load accepts.  The check that     *)
(* every depends_on names a task of the pipeline is part of the task graph *)
(* and not repeated here.                                                  *)
(***************************************************************************)
validate(d) ==
  /\ d.Concurrency > 0
  /\ d.QueueLimit # NoLimit => d.QueueLimit >= 0
  /\ d.StartDelay >= 0
  /\ d.StartDelay > 0 => d.QueueLimit # 0
  /\ IF d.QueueStrategy = "partitioned_replace"
     THEN /\ d.QueueLimit = NoLimit
          /\ d.QueuePartitionLimit # NoLimit
          /\ d.QueuePartitionLimit >= 1
     ELSE d.QueuePartitionLimit = NoLimit

=============================================================================
