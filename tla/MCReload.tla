------------------------------ MODULE MCReload ------------------------------
(***************************************************************************)
(* Instances of Reload for TLC: two files, and what may be in them.        *)
(***************************************************************************)
EXTENDS Reload, TLC

TwoFiles == <<"a/pipelines.yml", "b/pipelines.yml">>

\* One task; concurrency and strategy not set.
BaseTask == [Script |-> <<"true">>, DependsOn |-> <<>>, AllowFailure |-> FALSE, Env |-> <<>>]

Base ==
  [ def   |-> [ Concurrency                      |-> 0,
                QueueLimit                       |-> NoLimit,
                QueuePartitionLimit              |-> NoLimit,
                QueueStrategy                    |-> "append",
                StartDelay                       |-> 0,
                ContinueRunningTasksAfterFailure |-> FALSE,
                OnError                          |-> FALSE,
                RetentionPeriod                  |-> 0,
                RetentionCount                   |-> 0 ],
    Env   |-> <<>>,
    Tasks |-> "lint" :> BaseTask ]

\* Changes that Equals sees: a limit, a script; and definitions Load refuses: a
\* start delay without a queue, a dependency on a missing task.
SeenContents ==
  NotDecoded \cup
  { "build" :> Base,
    "test" :> Base,
    ("build" :> Base) @@ ("test" :> [Base EXCEPT !.def.QueueLimit = 1]),
    "build" :> [Base EXCEPT !.Tasks["lint"].Script = <<"false">>],
    "build" :> [Base EXCEPT !.def.StartDelay = 1, !.def.QueueLimit = 0],
    "build" :> [Base EXCEPT !.Tasks["lint"].DependsOn = <<"missing">>] }

SeenDisks == [1..2 -> SeenContents]

=============================================================================
