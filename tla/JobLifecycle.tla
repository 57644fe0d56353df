---------------------------- MODULE JobLifecycle ----------------------------
(***************************************************************************)
(* What the PipelineRunner promises its clients about the life of a job,   *)
(* whatever the queue strategy, delays, cancellations, reloads and         *)
(* shutdowns do inside: a job is accepted once, starts at most once and    *)
(* only within the concurrency of its pipeline, may be cancelled while it  *)
(* waits, and once settled stays settled.  Accepting a job may cost at     *)
(* most one waiting job of the same pipeline its place.                    *)
(*                                                                         *)
(* This is the abstract specification module PipelineRunner implements.    *)
(***************************************************************************)
EXTENDS Integers, FiniteSets

CONSTANTS Jobs, Pipelines

VARIABLES
  phase,     \* phase of each job: "absent", "waiting", "running" or "settled"
  of,        \* pipeline of each job
  capacity   \* how many jobs of a pipeline may run

lifecycleVars == <<phase, of, capacity>>

inPhase(p, ph) == {j \in Jobs : phase[j] = ph /\ of[j] = p}

hasCapacity(p) == Cardinality(inPhase(p, "running")) < capacity[p]

Init ==
  /\ phase = [j \in Jobs |-> "absent"]
  /\ of \in [Jobs -> Pipelines]
  /\ capacity \in [Pipelines -> Int]

\* Job j of pipeline p is queued; at most one waiting job is displaced.
Accept(j, p) ==
  /\ phase[j] = "absent"
  /\ \E S \in SUBSET inPhase(p, "waiting") :
       /\ Cardinality(S) <= 1
       /\ phase' = [k \in Jobs |-> IF k = j THEN "waiting"
                                   ELSE IF k \in S THEN "settled" ELSE phase[k]]
  /\ of' = [of EXCEPT ![j] = p]
  /\ UNCHANGED capacity

\* Job j of pipeline p is started right away.
Launch(j, p) ==
  /\ phase[j] = "absent"
  /\ hasCapacity(p)
  /\ phase' = [phase EXCEPT ![j] = "running"]
  /\ of' = [of EXCEPT ![j] = p]
  /\ UNCHANGED capacity

\* Job j of pipeline p cannot be run at all.
Reject(j, p) ==
  /\ phase[j] = "absent"
  /\ phase' = [phase EXCEPT ![j] = "settled"]
  /\ of' = [of EXCEPT ![j] = p]
  /\ UNCHANGED capacity

Start(j) ==
  /\ phase[j] = "waiting"
  /\ hasCapacity(of[j])
  /\ phase' = [phase EXCEPT ![j] = "running"]
  /\ UNCHANGED <<of, capacity>>

\* Waiting jobs are cancelled: one by a client, or all by a shutdown.
Cancel ==
  /\ UNCHANGED <<of, capacity>>
  /\ \E S \in SUBSET {j \in Jobs : phase[j] = "waiting"} :
       phase' = [j \in Jobs |-> IF j \in S THEN "settled" ELSE phase[j]]

Finish(j) ==
  /\ phase[j] = "running"
  /\ phase' = [phase EXCEPT ![j] = "settled"]
  /\ UNCHANGED <<of, capacity>>

\* New definitions, with any concurrency.
Redefine ==
  /\ capacity' \in [Pipelines -> Int]
  /\ UNCHANGED <<phase, of>>

Next ==
  \/ Cancel
  \/ \E j \in Jobs :
       \/ \E p \in Pipelines : Accept(j, p) \/ Launch(j, p) \/ Reject(j, p)
       \/ Start(j) \/ Finish(j)
  \/ Redefine

Spec == Init /\ [][Next]_lifecycleVars

=============================================================================
