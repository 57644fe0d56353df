----------------------------- MODULE TaskOrder ------------------------------
(***************************************************************************)
(* jobTasks.sortTasksByDependencies of prunner.go: the order in which a    *)
(* job lists its tasks, by Kahn's algorithm.  The list comes from a map,   *)
(* so it starts in any order, and the inner loop ranges over a map, so it  *)
(* meets the nodes in any order.  A graph with a cycle is sorted as well:  *)
(* a job's task list is made before its execution graph is.                *)
(*                                                                         *)
(* Task names are natural numbers: only their order matters.               *)
(***************************************************************************)
EXTENDS Naturals, Sequences, FiniteSets

CONSTANTS
  Names,    \* the names of the tasks
  Graphs    \* the depends_on relations a pipeline may have

ASSUME NamesAssumption ==
  /\ Names \subseteq Nat
  /\ IsFiniteSet(Names)
  /\ Graphs \subseteq [Names -> SUBSET Names]

VARIABLES
  dependsOn,   \* DependsOn of each task
  jt,          \* the list that is sorted
  incoming,    \* tmpNodes[n].incoming
  order,       \* tmpNodes[n].order
  queue,       \* queue
  n,           \* the node taken off the queue
  unseen,      \* nodes the inner loop has not met yet
  i,           \* i
  pc           \* "sort": sort.Strings(queue), "visit": outer loop,
               \* "scan": inner loop, "sorted": returned

vars == <<dependsOn, jt, incoming, order, queue, n, unseen, i, pc>>

elems(s) == {s[k] : k \in 1..Len(s)}

\* The lists of the members of S, each once.
lists(S) ==
  {s \in [1..Cardinality(S) -> S] :
     elems(s) = S /\ \A k, l \in 1..Len(s) : s[k] = s[l] => k = l}

\* The elements of s stand in the list t in the same order.
inOrderOf(s, t) ==
  \A k, l \in 1..Len(s) : k < l =>
    \E x, y \in 1..Len(t) : x < y /\ t[x] = s[k] /\ t[y] = s[l]

sortedByName(s) == \A k, l \in 1..Len(s) : k < l => s[k] < s[l]

\* The nodes that have been given an order, or are in the queue for it.
free     == {m \in Names : incoming[m] = {}}
visited  == free \ elems(queue)

-----------------------------------------------------------------------------
(***************************************************************************)
(* Build the temporary graph, over the tasks in the order the map gave.    *)
(***************************************************************************)
Init ==
  /\ dependsOn \in Graphs
  /\ jt \in lists(Names)
  /\ incoming = dependsOn
  /\ order = [m \in Names |-> 0]
  /\ queue \in lists({m \in Names : dependsOn[m] = {}}) /\ inOrderOf(queue, jt)
  /\ n = 0
  /\ unseen = {}
  /\ i = 0
  /\ pc = "sort"

\* Mutant: the queue is taken as the map gave it.
SortQueueNot ==
  /\ pc = "sort"
  /\ pc' = "visit"
  /\ UNCHANGED <<dependsOn, jt, incoming, order, queue, n, unseen, i>>

SortQueue ==
  /\ pc = "sort"
  /\ queue' \in lists(elems(queue)) /\ sortedByName(queue')
  /\ pc' = "visit"
  /\ UNCHANGED <<dependsOn, jt, incoming, order, n, unseen, i>>

VisitNode ==
  /\ pc = "visit"
  /\ queue # <<>>
  /\ n' = Head(queue)
  /\ queue' = Tail(queue)
  /\ order' = [order EXCEPT ![Head(queue)] = i]
  /\ i' = i + 1
  /\ unseen' = Names
  /\ pc' = "scan"
  /\ UNCHANGED <<dependsOn, jt, incoming>>

\* Mutant: a node is free as soon as one of its dependencies has been visited.
ScanNodeAny(m) ==
  /\ pc = "scan"
  /\ m \in unseen
  /\ unseen' = unseen \ {m}
  /\ incoming' = [incoming EXCEPT ![m] = IF n \in @ THEN {} ELSE @]
  /\ queue' = IF n \in incoming[m] THEN Append(queue, m) ELSE queue
  /\ UNCHANGED <<dependsOn, jt, order, n, i, pc>>

\* Mutant: only nodes without other dependencies lose the edge.
ScanNodeSingle(m) ==
  /\ pc = "scan"
  /\ m \in unseen
  /\ unseen' = unseen \ {m}
  /\ incoming' = [incoming EXCEPT ![m] = IF @ = {n} THEN {} ELSE @]
  /\ queue' = IF incoming[m] = {n} THEN Append(queue, m) ELSE queue
  /\ UNCHANGED <<dependsOn, jt, order, n, i, pc>>

ScanNode(m) ==
  /\ pc = "scan"
  /\ m \in unseen
  /\ unseen' = unseen \ {m}
  /\ incoming' = [incoming EXCEPT ![m] = @ \ {n}]
  /\ queue' = IF incoming[m] = {n} THEN Append(queue, m) ELSE queue
  /\ UNCHANGED <<dependsOn, jt, order, n, i, pc>>

ScanEnds ==
  /\ pc = "scan"
  /\ unseen = {}
  /\ pc' = "sort"
  /\ UNCHANGED <<dependsOn, jt, incoming, order, queue, n, unseen, i>>

\* The last sort: by order, tasks of the same order by name.
sortedByOrder(s) ==
  \A k, l \in 1..Len(s) : k < l =>
    \/ order[s[k]] < order[s[l]]
    \/ order[s[k]] = order[s[l]] /\ s[k] < s[l]

\* Mutant: waits until every task has an order.
SortTasksComplete ==
  /\ pc = "visit"
  /\ queue = <<>>
  /\ visited = Names
  /\ jt' \in lists(Names) /\ sortedByOrder(jt')
  /\ pc' = "sorted"
  /\ UNCHANGED <<dependsOn, incoming, order, queue, n, unseen, i>>

SortTasks ==
  /\ pc = "visit"
  /\ queue = <<>>
  /\ jt' \in lists(Names) /\ sortedByOrder(jt')
  /\ pc' = "sorted"
  /\ UNCHANGED <<dependsOn, incoming, order, queue, n, unseen, i>>

Returned == pc = "sorted" /\ UNCHANGED vars

Next ==
  \/ SortQueue
  \/ VisitNode
  \/ \E m \in Names : ScanNode(m)
  \/ ScanEnds
  \/ SortTasks
  \/ Returned

Spec     == Init /\ [][Next]_vars

\* The sort is sequential code: it does not stop half way.
FairSpec == Spec /\ WF_vars(Next)

-----------------------------------------------------------------------------
\* The state of the sort.  No node is ever queued twice, so that i, the next
\* order, is the number of nodes that have one.
TypeOK ==
  /\ dependsOn \in Graphs
  /\ elems(jt) = Names
  /\ incoming \in [Names -> SUBSET Names]
  /\ order \in [Names -> Nat]
  /\ queue \in Seq(Names)
  /\ n \in Nat
  /\ unseen \subseteq Names
  /\ i = Cardinality(visited)
  /\ pc \in {"sort", "visit", "scan", "sorted"}

\* In the sorted list, a task that was given an order stands after every task
\* it depends on.
DependenciesFirst ==
  pc = "sorted" =>
    \A k, l \in 1..Len(jt) :
      (jt[l] \in visited /\ jt[k] \in dependsOn[jt[l]]) => k < l

\* Only tasks on a cycle, or behind one, get no order: each of them depends on
\* another that got none.  Where depends_on has no cycle, DependenciesFirst is
\* therefore about all tasks.
StuckOnlyOnCycles ==
  pc = "sorted" => \A m \in Names \ visited : dependsOn[m] \ visited # {}

(***************************************************************************)
(* The order is stable, as the comment in the code wants it: whatever      *)
(* order the maps were read in, the result is the first of all the orders  *)
(* that respect the dependencies.  (Reference definition: orders compare   *)
(* by the first place in which they differ.)                               *)
(***************************************************************************)
respects(s) ==
  \A k, l \in 1..Len(s) : s[k] \in dependsOn[s[l]] => k < l

before(s, t) ==
  \E k \in 1..Len(s) : s[k] < t[k] /\ \A l \in 1..(k - 1) : s[l] = t[l]

StableOrder ==
  (pc = "sorted" /\ visited = Names) =>
    /\ respects(jt)
    /\ \A s \in lists(Names) : respects(s) /\ s # jt => before(jt, s)

\* The sort ends, also for a graph with a cycle.
SortTerminates == <>(pc = "sorted")

=============================================================================
