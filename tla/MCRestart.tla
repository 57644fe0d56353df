----------------------------- MODULE MCRestart ------------------------------
(***************************************************************************)
(* Instances of Restart for TLC.                                           *)
(***************************************************************************)
EXTENDS Restart, MCPipelineRunner

\* One job at a time, the newest is kept.
KeepOneDefs == {Only([BaseDef EXCEPT !.RetentionCount = 1])}

\* A reload: jobs are kept for a while.
KeepForAWhileDefs == {Only([BaseDef EXCEPT !.RetentionPeriod = 1])}

\* One slot with a start delay, nothing is dropped.
DelayedDefs == {Only([BaseDef EXCEPT !.QueueStrategy = "replace", !.QueueLimit = 1, !.StartDelay = 1])}

=============================================================================
