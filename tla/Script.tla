------------------------------- MODULE Script -------------------------------
(***************************************************************************)
(* What TaskRunner.execute promises about the tasks that run side by side, *)
(* whatever their scripts do: it returns once for a task, it reports a     *)
(* cancellation only if the task's context was cancelled, and once that is *)
(* cancelled it returns.  This is what module JobExecution assumes of a    *)
(* script (its ExecuteReturns).                                            *)
(***************************************************************************)
CONSTANT Scripts

VARIABLES
  ctxDone,   \* is the context of the task's runner cancelled?
  err        \* "running", or what execute has returned

vars == <<ctxDone, err>>

Init ==
  /\ ctxDone = [s \in Scripts |-> FALSE]
  /\ err = [s \in Scripts |-> "running"]

Cancel(s) ==
  /\ ~ctxDone[s]
  /\ ctxDone' = [ctxDone EXCEPT ![s] = TRUE]
  /\ UNCHANGED err

Return(s, e) ==
  /\ err[s] = "running"
  /\ e = "canceled" => ctxDone[s]
  /\ err' = [err EXCEPT ![s] = e]
  /\ UNCHANGED ctxDone

Returns(s) == \E e \in {"nil", "failed", "canceled"} : Return(s, e)

Next == \E s \in Scripts : Cancel(s) \/ Returns(s)

Spec == Init /\ [][Next]_vars

FairSpec ==
  /\ Spec
  /\ \A s \in Scripts : WF_vars(ctxDone[s] /\ Returns(s))

=============================================================================
