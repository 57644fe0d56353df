--------------------------- MODULE ExecutorProofs ---------------------------
(***************************************************************************)
(* Proofs about Executor, for any number of scripts of any length and any  *)
(* supply of process numbers, however the kernel uses them again: the      *)
(* output of a script that has returned is complete, and every step of the *)
(* processes, the goroutines and the interpreter is a step of module       *)
(* Script or none.                                                         *)
(***************************************************************************)
EXTENDS Executor, TLAPS

ended == {"exit0", "exit1", "signaled"}

\* Types of the variables.
TypeOK ==
  /\ ctxDone \in [Scripts -> BOOLEAN]
  /\ pc \in [Scripts -> {"execute", "start", "wait", "returned"}]
  /\ next \in [Scripts -> Nat \ {0}]
  /\ \A s \in Scripts : next[s] <= Length[s]
  /\ err \in [Scripts -> {"running", "nil", "failed", "canceled"}]
  /\ pid \in [Commands -> Pids \cup {NoPid}]
  /\ leader \in [Commands -> {"none", "running", "reaped"} \cup ended]
  /\ child \in [Commands -> {"none", "holding", "detached"}]
  /\ waiter \in [Commands -> {"none", "waiting", "sleeping", "ended"}]

(***************************************************************************)
(* The commands of a script run one after the other.  Those behind the     *)
(* interpreter have been waited for, and nobody holds their pipes; the one *)
(* it waits for has been started; those it has not come to have not.       *)
(***************************************************************************)
before(s, k) == k < next[s] \/ (k = next[s] /\ pc[s] = "returned")
after(s, k)  == k > next[s] \/ (k = next[s] /\ pc[s] \in {"execute", "start"})

CommandsInOrder ==
  \A s \in Scripts : \A k \in 1..Length[s] :
    /\ before(s, k) => leader[<<s, k>>] \in {"none", "reaped"} /\ child[<<s, k>>] # "holding"
    /\ after(s, k) => leader[<<s, k>>] = "none" /\ child[<<s, k>>] = "none"

\* execute has returned something exactly when it has returned.
Returned == \A s \in Scripts : pc[s] = "returned" <=> err[s] # "running"

Inv == TypeOK /\ CommandsInOrder /\ Returned

-----------------------------------------------------------------------------
\* The commands are the numbered parts of the scripts.
LEMMA CommandFacts ==
  /\ \A s \in Scripts : Length[s] \in Nat \ {0}
  /\ \A s \in Scripts : \A k \in 1..Length[s] : <<s, k>> \in Commands
  /\ \A c \in Commands : c[1] \in Scripts /\ c[2] \in 1..Length[c[1]] /\ c = <<c[1], c[2]>>
BY ScriptsAssumption DEF Commands

\* The command a script has come to.
LEMMA CurrentCommand ==
  ASSUME TypeOK, NEW s \in Scripts
  PROVE  command(s) \in Commands /\ next[s] \in 1..Length[s]
BY CommandFacts DEF TypeOK, command

\* handleResult goes to the next command or returns, and what it returns is the
\* cancellation only if it was given that.
LEMMA HandleResult ==
  ASSUME TypeOK, NEW s \in Scripts, NEW e \in {"nil", "status", "failed", "canceled"},
         handleResult(s, e)
  PROVE  /\ pc' \in [Scripts -> {"execute", "start", "wait", "returned"}]
         /\ next' \in [Scripts -> Nat \ {0}]
         /\ \A u \in Scripts : next'[u] <= Length[u]
         /\ err' \in [Scripts -> {"running", "nil", "failed", "canceled"}]
         /\ \A u \in Scripts \ {s} : pc'[u] = pc[u] /\ next'[u] = next[u] /\ err'[u] = err[u]
         /\ \/ pc'[s] = "execute" /\ next'[s] = next[s] + 1 /\ err' = err
            \/ /\ pc'[s] = "returned" /\ next' = next
               /\ \E r \in {"nil", "failed", "canceled"} :
                    (r = "canceled" => e = "canceled") /\ err' = [err EXCEPT ![s] = r]
<1> DEFINE goesOn == e = "nil" \/ (e = "status" /\ s \in allowFailure)
<1>1. CASE goesOn /\ next[s] < Length[s]
  <2>1. /\ next' = [next EXCEPT ![s] = @ + 1] /\ pc' = [pc EXCEPT ![s] = "execute"] /\ err' = err
    BY <1>1 DEF handleResult
  <2>2. next[s] + 1 <= Length[s] /\ next[s] + 1 \in Nat \ {0}
    BY <1>1, CommandFacts DEF TypeOK
  <2> QED BY <2>1, <2>2 DEF TypeOK
<1>2. CASE ~(goesOn /\ next[s] < Length[s])
  <2> DEFINE r == CASE goesOn -> "nil"
                    [] e = "status" -> "failed"
                    [] OTHER -> e
  <2>1. pc' = [pc EXCEPT ![s] = "returned"] /\ err' = [err EXCEPT ![s] = r] /\ next' = next
    BY <1>2 DEF handleResult
  <2>2. r \in {"nil", "failed", "canceled"} /\ (r = "canceled" => e = "canceled")
    OBVIOUS
  <2> HIDE DEF r
  <2> QED BY <2>1, <2>2 DEF TypeOK
<1> QED BY <1>1, <1>2

(***************************************************************************)
(* What the processes and the signals may do to the commands: only a       *)
(* running process forks, ends or is ended.                                *)
(***************************************************************************)
processStep ==
  /\ leader' \in [Commands -> {"none", "running", "reaped"} \cup ended]
  /\ child' \in [Commands -> {"none", "holding", "detached"}]
  /\ waiter' \in [Commands -> {"none", "waiting", "sleeping", "ended"}]
  /\ \A c \in Commands : leader'[c] = leader[c] \/ (leader[c] = "running" /\ leader'[c] \in ended)
  /\ \A c \in Commands : child'[c] = child[c] \/ child'[c] = "none" \/ leader[c] = "running"
  /\ UNCHANGED <<ctxDone, pc, next, err, pid>>

\* The processes, and the goroutines that signal them, do no more than that,
\* whoever has the process number by then.
LEMMA ProcessesDoThat ==
  ASSUME TypeOK, Processes \/ \E c \in Commands : Waits(c)
  PROVE  processStep
<1>1. ASSUME NEW c \in Commands, NEW status \in {"exit0", "exit1", "signaled"}, LeaderExits(c, status)
      PROVE  processStep
  BY <1>1 DEF TypeOK, LeaderExits, processStep, ended
<1>2. ASSUME NEW c \in Commands, NEW kind \in {"holding", "detached"}, Fork(c, kind)
      PROVE  processStep
  BY <1>2 DEF TypeOK, Fork, processStep
<1>3. ASSUME NEW c \in Commands, ChildExits(c)
      PROVE  processStep
  BY <1>3 DEF TypeOK, ChildExits, processStep
<1>4. ASSUME NEW c \in Commands, sigkill(c)
      PROVE  /\ leader' \in [Commands -> {"none", "running", "reaped"} \cup ended]
             /\ child' \in [Commands -> {"none", "holding", "detached"}]
             /\ \A d \in Commands : leader'[d] = leader[d] \/ (leader[d] = "running" /\ leader'[d] \in ended)
             /\ \A d \in Commands : child'[d] = child[d] \/ child'[d] = "none"
  BY <1>4 DEF TypeOK, sigkill, ended
<1>5. ASSUME NEW c \in Commands, WaiterSignals(c)
      PROVE  processStep
  <2>1. waiter' \in [Commands -> {"none", "waiting", "sleeping", "ended"}]
    BY <1>5 DEF TypeOK, WaiterSignals
  <2>2. CASE sigkill(c)
    BY <2>1, <2>2, <1>4, <1>5 DEF WaiterSignals, processStep
  <2>3. CASE UNCHANGED <<leader, child>>
    BY <2>1, <2>3, <1>5 DEF TypeOK, WaiterSignals, processStep
  <2> QED BY <2>2, <2>3, <1>5 DEF WaiterSignals
<1>6. ASSUME NEW c \in Commands, KillTimeoutExpires(c)
      PROVE  processStep
  <2>1. waiter' \in [Commands -> {"none", "waiting", "sleeping", "ended"}]
    BY <1>6 DEF TypeOK, KillTimeoutExpires
  <2> QED BY <2>1, <1>4, <1>6 DEF KillTimeoutExpires, processStep
<1> QED BY <1>1, <1>2, <1>3, <1>5, <1>6 DEF Processes, Waits

\* Therefore they cannot disturb the order of the commands: a command that has
\* been waited for is not running, so it does not fork.
LEMMA ProcessStepInv ==
  ASSUME Inv, processStep
  PROVE  Inv'
<1>1. TypeOK'
  BY DEF Inv, TypeOK, processStep
<1>2. CommandsInOrder'
  <2> SUFFICES ASSUME NEW s \in Scripts, NEW k \in 1..Length[s]
               PROVE  /\ before(s, k) => leader'[<<s, k>>] \in {"none", "reaped"} /\ child'[<<s, k>>] # "holding"
                      /\ after(s, k) => leader'[<<s, k>>] = "none" /\ child'[<<s, k>>] = "none"
    BY DEF CommandsInOrder, processStep, before, after
  <2> QED BY CommandFacts DEF Inv, CommandsInOrder, processStep, before, after
<1>3. Returned'
  BY DEF Inv, Returned, processStep
<1> QED BY <1>1, <1>2, <1>3 DEF Inv

\* Execute ends before a process is started.
LEMMA NotStarted ==
  ASSUME Inv, NEW s \in Scripts, NEW e \in {"nil", "status", "failed", "canceled"},
         pc[s] \in {"execute", "start"}, handleResult(s, e), UNCHANGED <<ctxDone, procVars>>
  PROVE  Inv'
<1>1. /\ \A u \in Scripts \ {s} : pc'[u] = pc[u] /\ next'[u] = next[u] /\ err'[u] = err[u]
      /\ \/ pc'[s] = "execute" /\ next'[s] = next[s] + 1 /\ err' = err
         \/ pc'[s] = "returned" /\ next' = next /\ err'[s] # "running"
  BY HandleResult DEF Inv, TypeOK
<1>2. TypeOK'
  BY HandleResult DEF Inv, TypeOK, procVars
<1>3. CommandsInOrder'
  <2> SUFFICES ASSUME NEW u \in Scripts, NEW k \in 1..Length[u]
               PROVE  /\ before(u, k)' => leader[<<u, k>>] \in {"none", "reaped"} /\ child[<<u, k>>] # "holding"
                      /\ after(u, k)' => leader[<<u, k>>] = "none" /\ child[<<u, k>>] = "none"
    BY DEF CommandsInOrder, procVars
  <2>1. k \in Nat /\ next[u] \in Nat
    BY CommandFacts DEF Inv, TypeOK
  <2>2. CASE u # s
    BY <2>2, <1>1 DEF Inv, CommandsInOrder, before, after
  <2>3. CASE u = s
    BY <2>1, <2>3, <1>1 DEF Inv, CommandsInOrder, before, after
  <2> QED BY <2>2, <2>3
<1>4. Returned'
  BY <1>1 DEF Inv, Returned
<1> QED BY <1>2, <1>3, <1>4 DEF Inv

\* The context is alive: on to the command.
LEMMA ExecuteStep ==
  ASSUME Inv, NEW s \in Scripts, Execute(s)
  PROVE  Inv'
<1>1. /\ pc[s] = "execute" /\ pc' = [pc EXCEPT ![s] = "start"]
      /\ UNCHANGED <<ctxDone, next, err, procVars>>
  BY DEF Execute
<1>2. TypeOK'
  BY <1>1 DEF Inv, TypeOK, procVars
<1>3. CommandsInOrder'
  BY <1>1 DEF Inv, TypeOK, CommandsInOrder, before, after, procVars
<1>4. Returned'
  BY <1>1 DEF Inv, TypeOK, Returned
<1> QED BY <1>2, <1>3, <1>4 DEF Inv

\* The process of the current command is started.
LEMMA StartStep ==
  ASSUME Inv, NEW s \in Scripts, NEW p \in Pids, Start(s, p)
  PROVE  Inv'
<1>1. /\ pc[s] = "start" /\ pc' = [pc EXCEPT ![s] = "wait"]
      /\ pid' = [pid EXCEPT ![command(s)] = p]
      /\ leader' = [leader EXCEPT ![command(s)] = "running"]
      /\ waiter' = [waiter EXCEPT ![command(s)] = "waiting"]
      /\ UNCHANGED <<ctxDone, next, err, child>>
  BY DEF Start
<1>2. TypeOK'
  BY <1>1 DEF Inv, TypeOK
<1>3. CommandsInOrder'
  <2> SUFFICES ASSUME NEW u \in Scripts, NEW k \in 1..Length[u]
               PROVE  /\ before(u, k)' => leader'[<<u, k>>] \in {"none", "reaped"} /\ child[<<u, k>>] # "holding"
                      /\ after(u, k)' => leader'[<<u, k>>] = "none" /\ child[<<u, k>>] = "none"
    BY <1>1 DEF CommandsInOrder
  <2>1. k \in Nat /\ next[u] \in Nat /\ <<u, k>> \in Commands
    BY CommandFacts DEF Inv, TypeOK
  <2>2. CASE u = s /\ k = next[s]
    BY <2>2, <1>1 DEF before, after, Inv, TypeOK
  <2>3. CASE ~(u = s /\ k = next[s])
    <3>1. leader'[<<u, k>>] = leader[<<u, k>>]
      BY <2>1, <2>3, <1>1 DEF command, Inv, TypeOK
    <3>2. (before(u, k)' => before(u, k)) /\ (after(u, k)' => after(u, k))
      BY <2>1, <2>3, <1>1 DEF before, after, Inv, TypeOK
    <3> QED BY <3>1, <3>2 DEF Inv, CommandsInOrder
  <2> QED BY <2>2, <2>3
<1>4. Returned'
  BY <1>1 DEF Inv, TypeOK, Returned
<1> QED BY <1>2, <1>3, <1>4 DEF Inv

\* cmd.Wait returns: nobody holds the pipes of the current command any more.
LEMMA WaitReturnsStep ==
  ASSUME Inv, NEW s \in Scripts, NEW e \in {"nil", "status", "failed", "canceled"},
         WaitReturns(s, e)
  PROVE  Inv'
<1>1. /\ pc[s] = "wait" /\ child[command(s)] # "holding" /\ handleResult(s, e)
      /\ leader' = [leader EXCEPT ![command(s)] = "reaped"]
      /\ UNCHANGED <<ctxDone, pid, child, waiter>>
  BY DEF WaitReturns
<1>2. /\ \A u \in Scripts \ {s} : pc'[u] = pc[u] /\ next'[u] = next[u] /\ err'[u] = err[u]
      /\ \/ pc'[s] = "execute" /\ next'[s] = next[s] + 1 /\ err' = err
         \/ pc'[s] = "returned" /\ next' = next /\ err'[s] # "running"
  BY <1>1, HandleResult DEF Inv, TypeOK
<1>3. TypeOK'
  <2>1. leader' \in [Commands -> {"none", "running", "reaped"} \cup ended]
    BY <1>1 DEF Inv, TypeOK
  <2> QED BY <1>1, <2>1, HandleResult DEF Inv, TypeOK
<1>4. CommandsInOrder'
  <2> SUFFICES ASSUME NEW u \in Scripts, NEW k \in 1..Length[u]
               PROVE  /\ before(u, k)' => leader'[<<u, k>>] \in {"none", "reaped"} /\ child[<<u, k>>] # "holding"
                      /\ after(u, k)' => leader'[<<u, k>>] = "none" /\ child[<<u, k>>] = "none"
    BY <1>1 DEF CommandsInOrder
  <2>1. k \in Nat /\ next[u] \in Nat /\ <<u, k>> \in Commands
    BY CommandFacts DEF Inv, TypeOK
  <2>2. CASE u = s /\ k = next[s]
    <3>1. leader'[<<u, k>>] = "reaped" /\ child[<<u, k>>] # "holding"
      BY <2>1, <2>2, <1>1 DEF command, Inv, TypeOK
    <3> QED BY <2>1, <2>2, <3>1, <1>2 DEF after
  <2>3. CASE ~(u = s /\ k = next[s])
    <3>1. leader'[<<u, k>>] = leader[<<u, k>>]
      BY <2>1, <2>3, <1>1 DEF command, Inv, TypeOK
    <3>2. (before(u, k)' => before(u, k)) /\ (after(u, k)' => after(u, k))
      BY <2>1, <2>3, <1>1, <1>2 DEF before, after
    <3> QED BY <3>1, <3>2 DEF Inv, CommandsInOrder
  <2> QED BY <2>2, <2>3
<1>5. Returned'
  BY <1>1, <1>2 DEF Inv, Returned
<1> QED BY <1>3, <1>4, <1>5 DEF Inv

-----------------------------------------------------------------------------
\* No command has been started yet.
LEMMA InitInv ==
  ASSUME Init
  PROVE  Inv
<1>1. TypeOK
  BY CommandFacts DEF Init, TypeOK
<1>2. CommandsInOrder
  BY CommandFacts DEF Init, CommandsInOrder, before, after
<1>3. Returned
  BY DEF Init, Returned
<1> QED BY <1>1, <1>2, <1>3 DEF Inv

\* Every step of the tasks, their goroutines and their processes.
LEMMA NextInv ==
  ASSUME Inv, [Next]_vars
  PROVE  Inv'
<1>1. ASSUME NEW s \in Scripts, Cancel(s)
      PROVE  Inv'
  BY <1>1 DEF Cancel, procVars, Inv, TypeOK, CommandsInOrder, before, after, Returned
<1>2. ASSUME NEW s \in Scripts, Runs(s)
      PROVE  Inv'
  <2>1. CASE ExecuteFails(s)
    BY <2>1, NotStarted DEF ExecuteFails
  <2>2. CASE ExecuteCanceled(s)
    BY <2>2, NotStarted DEF ExecuteCanceled
  <2>3. ASSUME NEW e \in {"status", "failed"}, StartFails(s, e)
        PROVE  Inv'
    BY <2>3, NotStarted DEF StartFails
  <2> QED BY <1>2, <2>1, <2>2, <2>3, ExecuteStep, StartStep, WaitReturnsStep DEF Runs
<1>3. CASE Processes \/ \E c \in Commands : Waits(c)
  BY <1>3, ProcessesDoThat, ProcessStepInv DEF Inv
<1>4. CASE Ended \/ UNCHANGED vars
  BY <1>4 DEF Ended, vars, Inv, TypeOK, CommandsInOrder, before, after, Returned
<1> QED BY <1>1, <1>2, <1>3, <1>4 DEF Next

\* The commands of every script run in order, whatever the processes do.
THEOREM ExecutorInvariant == Spec => []Inv
<1>1. Init => Inv
  BY InitInv
<1>2. Inv /\ [Next]_vars => Inv'
  BY NextInv
<1> QED BY <1>1, <1>2, PTL DEF Spec

(***************************************************************************)
(* When execute has returned, the leader of every command has ended and    *)
(* nobody holds its pipes: cmd.Wait waits for both, and only the command   *)
(* execute is at can have a process that is not yet waited for.            *)
(***************************************************************************)
THEOREM OutputComplete == Spec => []OutputIsComplete
<1>1. Inv => OutputIsComplete
  <2> SUFFICES ASSUME Inv, NEW s \in Scripts, pc[s] = "returned", NEW k \in 1..Length[s]
               PROVE  leader[<<s, k>>] # "running" /\ child[<<s, k>>] # "holding"
    BY DEF OutputIsComplete
  <2>1. k \in Nat /\ next[s] \in Nat
    BY CommandFacts DEF Inv, TypeOK
  <2>2. before(s, k) \/ after(s, k)
    BY <2>1 DEF before, after
  <2> QED BY <2>2 DEF Inv, CommandsInOrder
<1> QED BY <1>1, ExecutorInvariant, PTL

-----------------------------------------------------------------------------
\* A step of a task is a step of Script, or nothing that Script sees: execute
\* returns once, and a cancellation only if the context was cancelled.
LEMMA RunsRefines ==
  ASSUME Inv, NEW s \in Scripts, Runs(s)
  PROVE  [S!Next]_(S!vars)
<1>1. ASSUME NEW e \in {"nil", "status", "failed", "canceled"}, handleResult(s, e),
             pc[s] # "returned", e = "canceled" => ctxDone[s], UNCHANGED ctxDone
      PROVE  [S!Next]_(S!vars)
  <2>1. err[s] = "running"
    BY <1>1 DEF Inv, Returned
  <2>2. CASE err' = err
    BY <1>1, <2>2 DEF S!vars
  <2>3. ASSUME NEW r \in {"nil", "failed", "canceled"}, r = "canceled" => e = "canceled",
               err' = [err EXCEPT ![s] = r]
        PROVE  S!Next
    BY <1>1, <2>1, <2>3 DEF S!Next, S!Returns, S!Return
  <2> QED BY <1>1, <2>2, <2>3, HandleResult DEF Inv
<1>2. CASE ExecuteFails(s)
  BY <1>1, <1>2 DEF ExecuteFails
<1>3. CASE ExecuteCanceled(s)
  BY <1>1, <1>3 DEF ExecuteCanceled
<1>4. ASSUME NEW e \in {"status", "failed"}, StartFails(s, e)
      PROVE  [S!Next]_(S!vars)
  BY <1>1, <1>4 DEF StartFails
<1>5. ASSUME NEW e \in {"nil", "status", "failed", "canceled"}, WaitReturns(s, e)
      PROVE  [S!Next]_(S!vars)
  <2>1. e \in result(s) /\ handleResult(s, e) /\ pc[s] = "wait" /\ ctxDone' = ctxDone
        /\ leader[command(s)] \in ended
    BY <1>5 DEF WaitReturns, ended
  <2>2. e = "canceled" => ctxDone[s]
    BY <2>1 DEF result, ended
  <2> QED BY <1>1, <2>1, <2>2
<1>6. ASSUME Execute(s) \/ \E p \in Pids : Start(s, p)
      PROVE  [S!Next]_(S!vars)
  BY <1>6 DEF Execute, Start, S!vars
<1> QED BY <1>2, <1>3, <1>4, <1>5, <1>6 DEF Runs

(***************************************************************************)
(* TaskRunner.execute implements Script, step by step (that it returns in  *)
(* the end is left to TLC): this is all that JobExecution assumes of a     *)
(* script when it lets ExecuteReturns choose an outcome.                   *)
(***************************************************************************)
THEOREM ExecutorImplementsScript == Spec => S!Spec
<1>1. Init => S!Init
  BY DEF Init, S!Init
<1>2. Inv /\ [Next]_vars => [S!Next]_(S!vars)
  <2> SUFFICES ASSUME Inv, [Next]_vars
               PROVE  [S!Next]_(S!vars)
    OBVIOUS
  <2>1. ASSUME NEW s \in Scripts, Cancel(s)
        PROVE  S!Next
    BY <2>1 DEF Cancel, S!Next, S!Cancel
  <2>2. ASSUME NEW s \in Scripts, Runs(s)
        PROVE  [S!Next]_(S!vars)
    BY <2>2, RunsRefines
  <2>3. CASE Processes \/ \E c \in Commands : Waits(c)
    BY <2>3, ProcessesDoThat DEF processStep, Inv, S!vars
  <2>4. CASE Ended \/ UNCHANGED vars
    BY <2>4 DEF Ended, vars, S!vars
  <2> QED BY <2>1, <2>2, <2>3, <2>4 DEF Next
<1> QED BY <1>1, <1>2, ExecutorInvariant, PTL DEF Spec, S!Spec

=============================================================================
