---------------------------- MODULE MCTaskOrder -----------------------------
(***************************************************************************)
(* Instances of TaskOrder for TLC: every acyclic graph, and every graph in *)
(* which a task depends on at most one task, itself included: cycles of    *)
(* all lengths, with tasks behind them and beside them.                    *)
(***************************************************************************)
EXTENDS TaskOrder

acyclic(g) == \A S \in SUBSET Names \ {{}} : \E m \in S : g[m] \cap S = {}

AcyclicOrSingle ==
  {g \in [Names -> SUBSET Names] :
     acyclic(g) \/ \A m \in Names : Cardinality(g[m]) <= 1}

=============================================================================
