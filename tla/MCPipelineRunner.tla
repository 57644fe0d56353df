-------------------------- MODULE MCPipelineRunner --------------------------
(***************************************************************************)
(* Instances of PipelineRunner for TLC: pipeline definitions, one set per  *)
(* question, and the symmetry of job identities.                           *)
(***************************************************************************)
EXTENDS PipelineRunner

CONSTANTS P1    \* the pipeline of the instances

\* concurrency 1, unlimited append queue, fail-fast, no retention.
BaseDef ==
  [ Concurrency                      |-> 1,
    QueueLimit                       |-> NoLimit,
    QueuePartitionLimit              |-> NoLimit,
    QueueStrategy                    |-> "append",
    StartDelay                       |-> 0,
    ContinueRunningTasksAfterFailure |-> FALSE,
    OnError                          |-> FALSE,
    RetentionPeriod                  |-> 0,
    RetentionCount                   |-> 0 ]

Only(d) == P1 :> d

\* One queue slot and an on_error task, two slots, or two jobs at a time without a queue limit.
AppendDefs ==
  { Only([BaseDef EXCEPT !.QueueLimit = 1, !.OnError = TRUE]),
    Only([BaseDef EXCEPT !.QueueLimit = 2]),
    Only([BaseDef EXCEPT !.Concurrency = 2]) }

\* One slot, without and with start delay, or two; the last one is replaced.
ReplaceDefs ==
  {Only([BaseDef EXCEPT !.QueueStrategy = "replace", !.QueueLimit = slot[1], !.StartDelay = slot[2]]) :
     slot \in {<<1, 0>>, <<1, 1>>, <<2, 0>>}}

\* Two slots per partition and a start delay.
TwoSlotDefs ==
  {Only([BaseDef EXCEPT !.QueueStrategy = "partitioned_replace", !.QueuePartitionLimit = 2,
                        !.StartDelay = 1])}

QueueDefs == AppendDefs \cup ReplaceDefs \cup TwoSlotDefs

\* One slot per partition, one job at a time.
OneSlotDefs ==
  {Only([BaseDef EXCEPT !.QueueStrategy = "partitioned_replace", !.QueuePartitionLimit = 1])}

JobSymmetry == Permutations(Jobs)

=============================================================================
