--------------------------- MODULE MCJobExecution ---------------------------
(***************************************************************************)
(* Instances of JobExecution for TLC: the task graphs.                     *)
(***************************************************************************)
EXTENDS JobExecution

CONSTANTS a, b, c

\* b depends on a; c is independent: a failure of c races both.
ChainAndOne == [t \in {a, b, c} |-> IF t = b THEN {a} ELSE {}]

\* c depends on a and b.
Join == [t \in {a, b, c} |-> IF t = c THEN {a, b} ELSE {}]

ThreeTasks == {ChainAndOne, Join}

\* Two tasks, one after the other or side by side.
TwoTasks == {[t \in {a, b} |-> IF t = b THEN {a} ELSE {}], [t \in {a, b} |-> {}]}

=============================================================================
