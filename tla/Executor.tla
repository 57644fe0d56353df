------------------------------ MODULE Executor ------------------------------
(***************************************************************************)
(* Running the commands of scripts as processes: TaskRunner.execute        *)
(* (taskctl/runner.go), PgidExecutor.Execute (executor.go) and the exec    *)
(* handler of createExecHandler (executor_unix.go).                        *)
(*                                                                         *)
(* A command is one process, the leader of a new process group, which may  *)
(* leave another process behind in its group: one that holds the pipe to   *)
(* the log file, or one that does not.  What the processes do is up to     *)
(* them: they run, fork and exit as they like, and only SIGKILL surely     *)
(* ends them.  For every started command a goroutine waits for the         *)
(* cancellation of the task runner's context; it is not told that its      *)
(* command has ended, so it signals the process group of that number       *)
(* whoever owns it by then.                                                *)
(*                                                                         *)
(* Several scripts run side by side, each with a context of its own (tasks *)
(* of different jobs), and share the process numbers of the system.        *)
(***************************************************************************)
EXTENDS Naturals, FiniteSets

CONSTANTS
  Scripts,      \* the tasks
  Length,       \* number of commands in the script of each task
  Pids,         \* process numbers
  NoPid,
  AllowFailure, \* the choices of the tasks with allow_failure
  KillTimeout   \* subset of BOOLEAN: values of killTimeout > 0

ASSUME ScriptsAssumption ==
  /\ Length \in [Scripts -> Nat \ {0}]
  /\ NoPid \notin Pids
  /\ AllowFailure \subseteq SUBSET Scripts
  /\ KillTimeout \subseteq BOOLEAN

Commands == UNION {{s} \X (1..Length[s]) : s \in Scripts}

VARIABLES
  allowFailure,  \* the tasks with allow_failure
  killTimeout,   \* is killTimeout > 0?
  ctxDone,       \* is the context of the task's runner cancelled?
  pc,            \* where execute is
  next,          \* nextJob: the command it has come to
  err,           \* what it has returned
  pid,           \* cmd.Process.Pid
  leader,        \* the process of a command
  child,         \* the process it left behind
  waiter         \* the goroutine that waits for the cancellation

vars == <<allowFailure, killTimeout, ctxDone, pc, next, err, pid, leader, child, waiter>>

(***************************************************************************)
(* pc: "execute"   about to look at the next command                       *)
(*     "start"     the interpreter has seen that the context is alive      *)
(*     "wait"      in cmd.Wait                                             *)
(*     "returned"                                                          *)
(* leader: "none", "running", "exit0", "exit1", "signaled", "reaped"       *)
(* child:  "none", "holding" the pipes of the leader, "detached" from them *)
(* waiter: "none", "waiting" for the context, "sleeping" for killTimeout,  *)
(*     "ended"                                                             *)
(***************************************************************************)

running(c) == leader[c] = "running" \/ child[c] # "none"

command(s) == <<s, next[s]>>

\* The kernel hands out a number that names no process and no process group.
freePids ==
  {p \in Pids : \A c \in Commands : pid[c] = p => leader[c] = "reaped" /\ child[c] = "none"}

-----------------------------------------------------------------------------
Init ==
  /\ allowFailure \in AllowFailure
  /\ killTimeout \in KillTimeout
  /\ ctxDone = [s \in Scripts |-> FALSE]
  /\ pc = [s \in Scripts |-> "execute"]
  /\ next = [s \in Scripts |-> 1]
  /\ err = [s \in Scripts |-> "running"]
  /\ pid = [c \in Commands |-> NoPid]
  /\ leader = [c \in Commands |-> "none"]
  /\ child = [c \in Commands |-> "none"]
  /\ waiter = [c \in Commands |-> "none"]

procVars == <<pid, leader, child, waiter>>

\* TaskRunner.Cancel cancels the context.
Cancel(s) ==
  /\ ~ctxDone[s]
  /\ ctxDone' = [ctxDone EXCEPT ![s] = TRUE]
  /\ UNCHANGED <<allowFailure, killTimeout, pc, next, err, procVars>>

(***************************************************************************)
(* The loop of execute after Execute has returned e for the current        *)
(* command: an exit status of a task with allow_failure is passed over,    *)
(* every other error ends the task.                                        *)
(***************************************************************************)
handleResult(s, e) ==
  LET goesOn == e = "nil" \/ (e = "status" /\ s \in allowFailure)
  IN  IF goesOn /\ next[s] < Length[s]
      THEN /\ next' = [next EXCEPT ![s] = @ + 1]
           /\ pc' = [pc EXCEPT ![s] = "execute"]
           /\ UNCHANGED err
      ELSE /\ pc' = [pc EXCEPT ![s] = "returned"]
           /\ err' = [err EXCEPT ![s] = CASE goesOn -> "nil"
                                              [] e = "status" -> "failed"
                                              [] OTHER -> e]
           /\ UNCHANGED next

(***************************************************************************)
(* Execute, up to the exec handler: the command cannot be rendered or      *)
(* parsed (or, before the first one, no executor could be made), the       *)
(* interpreter finds the context cancelled, or it goes on.                 *)
(***************************************************************************)
ExecuteFails(s) ==
  /\ pc[s] = "execute"
  /\ handleResult(s, "failed")
  /\ UNCHANGED <<allowFailure, killTimeout, ctxDone, procVars>>

ExecuteCanceled(s) ==
  /\ pc[s] = "execute"
  /\ ctxDone[s]
  /\ handleResult(s, "canceled")
  /\ UNCHANGED <<allowFailure, killTimeout, ctxDone, procVars>>

Execute(s) ==
  /\ pc[s] = "execute"
  /\ ~ctxDone[s]
  /\ pc' = [pc EXCEPT ![s] = "start"]
  /\ UNCHANGED <<allowFailure, killTimeout, ctxDone, next, err, procVars>>

\* The program is not found or cannot be started: status 127, or another error.
StartFails(s, e) ==
  /\ pc[s] = "start"
  /\ e \in {"status", "failed"}
  /\ handleResult(s, e)
  /\ UNCHANGED <<allowFailure, killTimeout, ctxDone, procVars>>

\* cmd.Start, in a process group of its own, and the goroutine for the signals.
Start(s, p) ==
  /\ pc[s] = "start"
  /\ p \in freePids
  /\ pid' = [pid EXCEPT ![command(s)] = p]
  /\ leader' = [leader EXCEPT ![command(s)] = "running"]
  /\ waiter' = [waiter EXCEPT ![command(s)] = "waiting"]
  /\ pc' = [pc EXCEPT ![s] = "wait"]
  /\ UNCHANGED <<allowFailure, killTimeout, ctxDone, next, err, child>>

\* Mutant: a process that died of a signal counts as cancelled.
resultAlwaysCanceled(s) ==
  CASE leader[command(s)] = "exit0"    -> {"nil", "failed"}
    [] leader[command(s)] = "exit1"    -> {"status"}
    [] leader[command(s)] = "signaled" -> {"canceled"}

(***************************************************************************)
(* The result of the exec handler, from the wait status of the process.    *)
(* If it exited well, copying its output may still have failed.            *)
(***************************************************************************)
result(s) ==
  CASE leader[command(s)] = "exit0"    -> {"nil", "failed"}
    [] leader[command(s)] = "exit1"    -> {"status"}
    [] leader[command(s)] = "signaled" -> {IF ctxDone[s] THEN "canceled" ELSE "status"}

\* Mutant: returns when the leader has ended, whoever still holds the pipes.
WaitReturnsEarly(s, e) ==
  /\ pc[s] = "wait"
  /\ leader[command(s)] \in {"exit0", "exit1", "signaled"}
  /\ e \in result(s)
  /\ handleResult(s, e)
  /\ leader' = [leader EXCEPT ![command(s)] = "reaped"]
  /\ UNCHANGED <<allowFailure, killTimeout, ctxDone, pid, child, waiter>>

\* cmd.Wait returns when the process has ended and nobody holds the pipes.
WaitReturns(s, e) ==
  /\ pc[s] = "wait"
  /\ leader[command(s)] \in {"exit0", "exit1", "signaled"}
  /\ child[command(s)] # "holding"
  /\ e \in result(s)
  /\ handleResult(s, e)
  /\ leader' = [leader EXCEPT ![command(s)] = "reaped"]
  /\ UNCHANGED <<allowFailure, killTimeout, ctxDone, pid, child, waiter>>

-----------------------------------------------------------------------------
(***************************************************************************)
(* The processes.                                                          *)
(***************************************************************************)
LeaderExits(c, status) ==
  /\ leader[c] = "running"
  /\ status \in {"exit0", "exit1", "signaled"}
  /\ leader' = [leader EXCEPT ![c] = status]
  /\ UNCHANGED <<allowFailure, killTimeout, ctxDone, pc, next, err, pid, child, waiter>>

Fork(c, kind) ==
  /\ leader[c] = "running" /\ child[c] = "none"
  /\ kind \in {"holding", "detached"}
  /\ child' = [child EXCEPT ![c] = kind]
  /\ UNCHANGED <<allowFailure, killTimeout, ctxDone, pc, next, err, pid, leader, waiter>>

ChildExits(c) ==
  /\ child[c] # "none"
  /\ child' = [child EXCEPT ![c] = "none"]
  /\ UNCHANGED <<allowFailure, killTimeout, ctxDone, pc, next, err, pid, leader, waiter>>

-----------------------------------------------------------------------------
(***************************************************************************)
(* syscall.Kill(-pid, ...): the signal goes to all processes of the group  *)
(* that has this number now.                                               *)
(***************************************************************************)

\* Mutant: syscall.Kill(pid, ...) signals the leader only.
sigkillLeader(c) ==
  /\ leader' = [d \in Commands |->
                  IF pid[d] = pid[c] /\ leader[d] = "running" THEN "signaled" ELSE leader[d]]
  /\ UNCHANGED child

sigkill(c) ==
  /\ leader' = [d \in Commands |->
                  IF pid[d] = pid[c] /\ leader[d] = "running" THEN "signaled" ELSE leader[d]]
  /\ child' = [d \in Commands |-> IF pid[d] = pid[c] THEN "none" ELSE child[d]]

\* The goroutine has seen the cancellation: SIGKILL at once, or SIGINT and
\* another goroutine for SIGKILL after killTimeout.
WaiterSignals(c) ==
  /\ waiter[c] = "waiting"
  /\ ctxDone[c[1]]
  /\ \/ /\ ~killTimeout
        /\ sigkill(c)
        /\ waiter' = [waiter EXCEPT ![c] = "ended"]
     \/ /\ killTimeout
        /\ waiter' = [waiter EXCEPT ![c] = "sleeping"]
        /\ UNCHANGED <<leader, child>>
  /\ UNCHANGED <<allowFailure, killTimeout, ctxDone, pc, next, err, pid>>

KillTimeoutExpires(c) ==
  /\ waiter[c] = "sleeping"
  /\ sigkill(c)
  /\ waiter' = [waiter EXCEPT ![c] = "ended"]
  /\ UNCHANGED <<allowFailure, killTimeout, ctxDone, pc, next, err, pid>>

-----------------------------------------------------------------------------
Runs(s) ==
  \/ ExecuteFails(s)
  \/ ExecuteCanceled(s)
  \/ Execute(s)
  \/ \E e \in {"status", "failed"} : StartFails(s, e)
  \/ \E p \in Pids : Start(s, p)
  \/ \E e \in {"nil", "status", "failed", "canceled"} : WaitReturns(s, e)

Waits(c) == WaiterSignals(c) \/ KillTimeoutExpires(c)

Processes ==
  \E c \in Commands :
    \/ \E status \in {"exit0", "exit1", "signaled"} : LeaderExits(c, status)
    \/ \E kind \in {"holding", "detached"} : Fork(c, kind)
    \/ ChildExits(c)

\* All scripts have returned, and what is left waits for ever.
Ended == (\A s \in Scripts : pc[s] = "returned") /\ UNCHANGED vars

Next ==
  \/ \E s \in Scripts : Cancel(s) \/ Runs(s)
  \/ \E c \in Commands : Waits(c)
  \/ Processes
  \/ Ended

Spec == Init /\ [][Next]_vars

(***************************************************************************)
(* The goroutines go on; neither the processes nor a client who might      *)
(* cancel have to do anything.                                             *)
(***************************************************************************)
FairSpec ==
  /\ Spec
  /\ \A s \in Scripts : WF_vars(Runs(s))
  /\ \A c \in Commands : WF_vars(Waits(c))

-----------------------------------------------------------------------------
(***************************************************************************)
(* TaskRunner.execute keeps the promise of module Script for every task,   *)
(* whatever its processes and the other tasks do.                          *)
(***************************************************************************)
S == INSTANCE Script

ImplementsScript == S!FairSpec

(***************************************************************************)
(* A cancelled task leaves no process behind, not even one that an earlier *)
(* command of its script left in the background (the goroutines of         *)
(* createExecHandler that outlive their commands see to that).             *)
(***************************************************************************)
CancelLeavesNoProcess ==
  \A s \in Scripts : ctxDone[s] ~> (\A k \in 1..Length[s] : ~running(<<s, k>>))

(***************************************************************************)
(* When a script has returned, its commands have ended and no process is   *)
(* left that holds its log: the output is complete (also if the processes  *)
(* were stopped half way).                                                 *)
(***************************************************************************)
OutputIsComplete ==
  \A s \in Scripts : pc[s] = "returned" =>
    \A k \in 1..Length[s] : leader[<<s, k>>] # "running" /\ child[<<s, k>>] # "holding"

=============================================================================
