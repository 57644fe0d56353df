----------------------------- MODULE MCExecutor -----------------------------
(***************************************************************************)
(* Instance of Executor for TLC: a task of two commands beside a task of   *)
(* one, with fewer process numbers than commands, so that numbers are used *)
(* again.                                                                  *)
(***************************************************************************)
EXTENDS Executor, TLC

CONSTANTS s1, s2

TwoAndOne == (s1 :> 2) @@ (s2 :> 1)

=============================================================================
