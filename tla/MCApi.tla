------------------------------- MODULE MCApi --------------------------------
(***************************************************************************)
(* Instances of Api for TLC.                                               *)
(***************************************************************************)
EXTENDS Api, MCPipelineRunner

\* One job at a time, one is kept; the on_error task runs if it fails.
ApiDefs == {Only([BaseDef EXCEPT !.OnError = TRUE, !.RetentionCount = 1])}

\* A reload drops on_error and fail-fast, and jobs are dropped by age.
ApiReloadDefs ==
  {Only([BaseDef EXCEPT !.ContinueRunningTasksAfterFailure = TRUE, !.RetentionPeriod = 1])}

=============================================================================
