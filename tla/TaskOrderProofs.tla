-------------------------- MODULE TaskOrderProofs ---------------------------
(***************************************************************************)
(* Theorems about TaskOrder, for every finite set of task names and every  *)
(* depends_on relation on it.                                              *)
(***************************************************************************)
EXTENDS TaskOrder, FiniteSetTheorems, SequenceTheorems, WellFoundedInduction, TLAPS

-----------------------------------------------------------------------------
(***************************************************************************)
(* The inductive invariant.  An edge that has been deleted from the        *)
(* temporary graph comes from a visited node; a visited node has a smaller *)
(* order than every node visited later; and no edge from a visited node is *)
(* left, but for those the inner loop is about to delete.                  *)
(***************************************************************************)
QueueInv ==
  /\ \A k, l \in 1..Len(queue) : queue[k] = queue[l] => k = l
  /\ elems(queue) \subseteq free

EdgesInv ==
  \A m \in Names :
    /\ incoming[m] \subseteq dependsOn[m]
    /\ dependsOn[m] \ incoming[m] \subseteq visited
    /\ incoming[m] \cap visited \subseteq
         (IF pc = "scan" /\ m \in unseen THEN {n} ELSE {})

OrdersInv ==
  \A m \in visited :
    /\ order[m] < i
    /\ \A d \in dependsOn[m] : order[d] < order[m]

ScanInv == pc = "scan" => n \in visited

SortedInv == pc = "sorted" => queue = <<>> /\ sortedByOrder(jt)

OrderInv ==
  /\ TypeOK
  /\ jt \in Seq(Names)
  /\ QueueInv
  /\ EdgesInv
  /\ OrdersInv
  /\ ScanInv
  /\ SortedInv

-----------------------------------------------------------------------------
\* A list of the members of S has them all, each once.
LEMMA ListType ==
  ASSUME NEW S, IsFiniteSet(S), NEW s \in lists(S)
  PROVE  /\ s \in Seq(S)
         /\ elems(s) = S
         /\ \A k, l \in 1..Len(s) : s[k] = s[l] => k = l
<1>1. Cardinality(S) \in Nat
  BY FS_CardinalityType
<1> QED
  BY <1>1 DEF lists

\* What is on a queue is a name, and there are finitely many.
LEMMA QueueIsFinite ==
  ASSUME queue \in Seq(Names)
  PROVE  elems(queue) \subseteq Names /\ IsFiniteSet(elems(queue))
<1>1. elems(queue) \subseteq Names
  BY DEF elems
<1> QED
  BY <1>1, NamesAssumption, FS_Subset

\* A step that changes neither the edges, nor what is on the queue, changes
\* nothing about who has been visited.
LEMMA SameVisited ==
  ASSUME incoming' = incoming, elems(queue') = elems(queue)
  PROVE  free' = free /\ visited' = visited
<1>1. elems(queue)' = elems(queue')
  BY DEF elems
<1> QED
  BY <1>1 DEF free, visited

\* The sort starts with the nodes without dependencies on the queue and no
\* node visited.
LEMMA InitOrder == Init => OrderInv
<1> SUFFICES ASSUME Init PROVE OrderInv
  OBVIOUS
<1> DEFINE F == {m \in Names : dependsOn[m] = {}}
<1>1. dependsOn \in [Names -> SUBSET Names]
  BY NamesAssumption DEF Init
<1>2. IsFiniteSet(F) /\ F \subseteq Names
  BY NamesAssumption, FS_Subset
<1>3. /\ queue \in Seq(F)
      /\ elems(queue) = F
      /\ \A k, l \in 1..Len(queue) : queue[k] = queue[l] => k = l
  BY <1>2, ListType DEF Init
<1>4. queue \in Seq(Names)
  BY <1>2, <1>3
<1>5. jt \in Seq(Names) /\ elems(jt) = Names
  BY NamesAssumption, ListType DEF Init
<1>6. free = F /\ visited = {}
  BY <1>3 DEF Init, free, visited
<1>7. TypeOK
  BY <1>1, <1>4, <1>5, <1>6, FS_EmptySet DEF Init, TypeOK
<1>8. QueueInv
  BY <1>3, <1>6 DEF QueueInv
<1>9. EdgesInv
  BY <1>6 DEF Init, EdgesInv
<1> QED
  BY <1>5, <1>6, <1>7, <1>8, <1>9 DEF Init, OrderInv, OrdersInv, ScanInv, SortedInv

\* Sorting the queue moves its elements only.
LEMMA SortQueueOrder == OrderInv /\ SortQueue => OrderInv'
<1> SUFFICES ASSUME OrderInv, SortQueue PROVE OrderInv'
  OBVIOUS
<1>1. IsFiniteSet(elems(queue)) /\ elems(queue) \subseteq Names
  BY QueueIsFinite DEF OrderInv, TypeOK
<1>2. /\ queue' \in Seq(elems(queue))
      /\ elems(queue') = elems(queue)
      /\ \A k, l \in 1..Len(queue') : queue'[k] = queue'[l] => k = l
  BY <1>1, ListType DEF SortQueue
<1>3. queue' \in Seq(Names)
  BY <1>1, <1>2
<1>4. free' = free /\ visited' = visited
  BY <1>2, SameVisited DEF SortQueue
<1>5. elems(queue)' = elems(queue)
  BY <1>2 DEF elems
<1>6. TypeOK'
  BY <1>3, <1>4 DEF OrderInv, TypeOK, SortQueue, elems
<1>7. QueueInv'
  BY <1>2, <1>4, <1>5 DEF OrderInv, QueueInv
<1>8. EdgesInv'
  BY <1>4 DEF OrderInv, EdgesInv, SortQueue
<1>9. OrdersInv'
  BY <1>4 DEF OrderInv, OrdersInv, SortQueue
<1> QED
  BY <1>6, <1>7, <1>8, <1>9 DEF OrderInv, ScanInv, SortedInv, SortQueue

\* The node taken off the queue has no edges left: all it depends on has been
\* visited, with a smaller order than the one it gets.
LEMMA VisitNodeOrder == OrderInv /\ VisitNode => OrderInv'
<1> SUFFICES ASSUME OrderInv, VisitNode PROVE OrderInv'
  OBVIOUS
<1> DEFINE h == Head(queue)
<1>1. /\ queue \in Seq(Names) /\ queue # <<>>
      /\ queue' = Tail(queue)
      /\ \A k, l \in 1..Len(queue) : queue[k] = queue[l] => k = l
  BY DEF OrderInv, TypeOK, QueueInv, VisitNode
<1>2. /\ queue' \in Seq(Names) /\ Len(queue') = Len(queue) - 1
      /\ \A k \in 1..Len(queue') : queue'[k] = queue[k + 1]
      /\ h = queue[1] /\ Len(queue) \in Nat /\ Len(queue) >= 1
  BY <1>1
<1>3. elems(queue)' = elems(queue) \ {h}
  <2>1. ASSUME NEW x \in elems(queue)' PROVE x \in elems(queue) \ {h}
    <3>1. PICK k \in 1..Len(queue') : x = queue'[k]
      BY <2>1 DEF elems
    <3>2. k + 1 \in 1..Len(queue) /\ x = queue[k + 1] /\ k + 1 # 1 /\ 1 \in 1..Len(queue)
      BY <1>2, <3>1
    <3> QED
      BY <1>1, <1>2, <3>2 DEF elems
  <2>2. ASSUME NEW x \in elems(queue) \ {h} PROVE x \in elems(queue)'
    <3>1. PICK k \in 1..Len(queue) : x = queue[k]
      BY <2>2 DEF elems
    <3>2. k # 1
      BY <1>2, <2>2, <3>1
    <3>3. k - 1 \in 1..Len(queue') /\ queue'[k - 1] = queue[(k - 1) + 1]
      BY <1>2, <3>1, <3>2
    <3>4. x = queue'[k - 1]
      BY <3>1, <3>3
    <3> QED
      BY <3>3, <3>4 DEF elems
  <2> QED
    BY <2>1, <2>2
<1>4. h \in elems(queue)
  BY <1>2 DEF elems
<1>5. h \in free /\ h \in Names /\ h \notin visited
  BY <1>4 DEF OrderInv, QueueInv, visited, free
<1>6. free' = free
  BY DEF VisitNode, free
<1>7. visited' = visited \cup {h}
  BY <1>3, <1>5, <1>6 DEF visited
<1>8. visited \subseteq Names /\ IsFiniteSet(visited)
  BY NamesAssumption, FS_Subset DEF visited, free
<1>9. i \in Nat /\ i = Cardinality(visited) /\ i + 1 = Cardinality(visited')
  BY <1>5, <1>7, <1>8, FS_CardinalityType, FS_AddElement DEF OrderInv, TypeOK
<1>10. TypeOK'
  <2>1. elems(jt)' = elems(jt)
    BY DEF VisitNode, elems
  <2> QED
    BY <1>2, <1>5, <1>9, <2>1, NamesAssumption DEF OrderInv, TypeOK, VisitNode
<1>11. QueueInv'
  <2>1. ASSUME NEW k \in 1..Len(queue'), NEW l \in 1..Len(queue'), queue'[k] = queue'[l]
        PROVE  k = l
    <3>1. queue[k + 1] = queue[l + 1] /\ k + 1 \in 1..Len(queue) /\ l + 1 \in 1..Len(queue)
      BY <1>2, <2>1
    <3> QED
      BY <1>1, <3>1
  <2> QED
    BY <1>3, <1>6, <2>1 DEF OrderInv, QueueInv
<1>12. EdgesInv'
  <2> SUFFICES ASSUME NEW m \in Names
               PROVE  /\ incoming'[m] \subseteq dependsOn'[m]
                      /\ dependsOn'[m] \ incoming'[m] \subseteq visited'
                      /\ incoming'[m] \cap visited' \subseteq
                           (IF pc' = "scan" /\ m \in unseen' THEN {n'} ELSE {})
    BY DEF EdgesInv
  <2>1. incoming[m] \cap visited = {}
    BY DEF OrderInv, EdgesInv, VisitNode
  <2> QED
    BY <1>7, <2>1 DEF OrderInv, EdgesInv, VisitNode
<1>13. ASSUME NEW m \in visited, NEW d \in dependsOn[m] PROVE d \in visited
  BY <1>8 DEF OrderInv, EdgesInv, visited, free
<1>14. \A d \in dependsOn[h] : d \in visited
  BY <1>5 DEF OrderInv, EdgesInv, free
<1>15. OrdersInv'
  <2>1. order \in [Names -> Nat] /\ order' = [order EXCEPT ![h] = i] /\ i' = i + 1
        /\ dependsOn' = dependsOn
    BY DEF OrderInv, TypeOK, VisitNode
  <2>2. ASSUME NEW m \in visited
        PROVE  order'[m] < i' /\ \A d \in dependsOn[m] : order'[d] < order'[m]
    <3>1. m # h /\ m \in Names /\ order[m] < i /\ \A d \in dependsOn[m] : order[d] < order[m]
      BY <1>5, <1>8 DEF OrderInv, OrdersInv
    <3>2. \A d \in dependsOn[m] : d # h /\ d \in Names
      BY <1>5, <1>8, <1>13
    <3> QED
      BY <1>9, <2>1, <3>1, <3>2
  <2>3. order'[h] < i' /\ \A d \in dependsOn[h] : order'[d] < order'[h]
    <3>1. \A d \in dependsOn[h] : d # h /\ d \in Names /\ order[d] < i
      BY <1>5, <1>8, <1>14 DEF OrderInv, OrdersInv
    <3> QED
      BY <1>5, <1>9, <2>1, <3>1
  <2> QED
    BY <1>7, <2>1, <2>2, <2>3 DEF OrdersInv
<1> QED
  BY <1>7, <1>10, <1>11, <1>12, <1>15 DEF OrderInv, ScanInv, SortedInv, VisitNode

\* Deleting the edge from n puts a node on the queue if the edge was its last;
\* nobody is visited.
LEMMA ScanVisitsNobody ==
  ASSUME NEW m \in Names, OrderInv, ScanNode(m)
  PROVE  /\ elems(queue)' = IF incoming[m] = {n} THEN elems(queue) \cup {m} ELSE elems(queue)
         /\ queue' \in Seq(Names)
         /\ \A k, l \in 1..Len(queue') : queue'[k] = queue'[l] => k = l
         /\ free' = IF incoming[m] = {n} THEN free \cup {m} ELSE free
         /\ visited' = visited
<1>1. /\ queue \in Seq(Names)
      /\ incoming \in [Names -> SUBSET Names]
      /\ incoming' = [incoming EXCEPT ![m] = @ \ {n}]
      /\ n \in visited
  BY DEF OrderInv, TypeOK, ScanInv, ScanNode
<1>2. /\ elems(queue)' = IF incoming[m] = {n} THEN elems(queue) \cup {m} ELSE elems(queue)
      /\ queue' \in Seq(Names)
      /\ \A k, l \in 1..Len(queue') : queue'[k] = queue'[l] => k = l
  <2>1. CASE incoming[m] = {n}
    <3>1. m \notin elems(queue)
      BY <2>1 DEF OrderInv, QueueInv, free
    <3>2. /\ queue' \in Seq(Names)
          /\ Len(queue') = Len(queue) + 1
          /\ \A k \in 1..Len(queue) : queue'[k] = queue[k]
          /\ queue'[Len(queue) + 1] = m
      BY <1>1, <2>1 DEF ScanNode
    <3>3. elems(queue)' = elems(queue) \cup {m}
      BY <1>1, <3>2 DEF elems
    <3>4. ASSUME NEW k \in 1..Len(queue'), NEW l \in 1..Len(queue'), queue'[k] = queue'[l]
          PROVE  k = l
      <4>1. \A x \in 1..Len(queue) : queue[x] # m
        BY <3>1 DEF elems
      <4>2. \A x, y \in 1..Len(queue) : queue[x] = queue[y] => x = y
        BY DEF OrderInv, QueueInv
      <4> QED
        BY <1>1, <3>2, <3>4, <4>1, <4>2
    <3> QED
      BY <2>1, <3>2, <3>3, <3>4
  <2>2. CASE incoming[m] # {n}
    BY <1>1, <2>2 DEF ScanNode, elems, OrderInv, QueueInv
  <2> QED
    BY <2>1, <2>2
<1>3. free' = IF incoming[m] = {n} THEN free \cup {m} ELSE free
  BY <1>1 DEF free
<1>4. m \notin visited \/ incoming[m] # {n}
  BY DEF visited, free
<1>5. visited' = visited
  BY <1>2, <1>3, <1>4 DEF visited, OrderInv, QueueInv
<1> QED
  BY <1>2, <1>3, <1>5

\* Deleting the edge keeps the invariant.
LEMMA ScanNodeOrder ==
  ASSUME NEW m \in Names, OrderInv, ScanNode(m)
  PROVE  OrderInv'
<1>1. /\ queue \in Seq(Names)
      /\ incoming \in [Names -> SUBSET Names]
      /\ incoming' = [incoming EXCEPT ![m] = @ \ {n}]
      /\ n \in visited
  BY DEF OrderInv, TypeOK, ScanInv, ScanNode
<1>2. /\ elems(queue)' = IF incoming[m] = {n} THEN elems(queue) \cup {m} ELSE elems(queue)
      /\ queue' \in Seq(Names)
      /\ \A k, l \in 1..Len(queue') : queue'[k] = queue'[l] => k = l
      /\ free' = IF incoming[m] = {n} THEN free \cup {m} ELSE free
      /\ visited' = visited
  BY ScanVisitsNobody
<1>3. TypeOK'
  <2>1. elems(jt)' = elems(jt)
    BY DEF ScanNode, elems
  <2> QED
    BY <1>1, <1>2, <2>1 DEF OrderInv, TypeOK, ScanNode
<1>4. QueueInv'
  BY <1>2 DEF OrderInv, QueueInv
<1>5. EdgesInv'
  <2> SUFFICES ASSUME NEW x \in Names
               PROVE  /\ incoming'[x] \subseteq dependsOn'[x]
                      /\ dependsOn'[x] \ incoming'[x] \subseteq visited'
                      /\ incoming'[x] \cap visited' \subseteq
                           (IF pc' = "scan" /\ x \in unseen' THEN {n'} ELSE {})
    BY DEF EdgesInv
  <2>1. CASE x = m
    BY <1>1, <1>2, <2>1 DEF OrderInv, EdgesInv, ScanNode
  <2>2. CASE x # m
    BY <1>1, <1>2, <2>2 DEF OrderInv, EdgesInv, ScanNode
  <2> QED
    BY <2>1, <2>2
<1>6. OrdersInv'
  BY <1>2 DEF OrderInv, OrdersInv, ScanNode
<1> QED
  BY <1>1, <1>2, <1>3, <1>4, <1>5, <1>6 DEF OrderInv, ScanInv, SortedInv, ScanNode

\* At the end of the inner loop no edge from a visited node is left.
LEMMA ScanEndsOrder == OrderInv /\ ScanEnds => OrderInv'
<1> SUFFICES ASSUME OrderInv, ScanEnds PROVE OrderInv'
  OBVIOUS
<1>1. free' = free /\ visited' = visited /\ elems(queue)' = elems(queue)
  BY SameVisited DEF ScanEnds, elems
<1>2. TypeOK' /\ QueueInv' /\ EdgesInv' /\ OrdersInv'
  BY <1>1 DEF OrderInv, TypeOK, QueueInv, EdgesInv, OrdersInv, ScanEnds, elems
<1> QED
  BY <1>2 DEF OrderInv, ScanInv, SortedInv, ScanEnds

\* The last sort touches the list only.
LEMMA SortTasksOrder == OrderInv /\ SortTasks => OrderInv'
<1> SUFFICES ASSUME OrderInv, SortTasks PROVE OrderInv'
  OBVIOUS
<1>1. free' = free /\ visited' = visited /\ elems(queue)' = elems(queue)
  BY SameVisited DEF SortTasks, elems
<1>2. jt' \in Seq(Names) /\ elems(jt') = Names
  BY NamesAssumption, ListType DEF SortTasks
<1>3. TypeOK'
  BY <1>1, <1>2 DEF OrderInv, TypeOK, SortTasks, elems
<1>4. QueueInv' /\ EdgesInv' /\ OrdersInv'
  BY <1>1 DEF OrderInv, QueueInv, EdgesInv, OrdersInv, SortTasks
<1>5. SortedInv'
  BY DEF SortTasks, SortedInv, sortedByOrder
<1> QED
  BY <1>2, <1>3, <1>4, <1>5 DEF OrderInv, ScanInv, SortTasks

\* The invariant of the sort.
THEOREM OrderInvariant == Spec => []OrderInv
<1>1. Init => OrderInv
  BY InitOrder
<1>2. OrderInv /\ [Next]_vars => OrderInv'
  <2> SUFFICES ASSUME OrderInv, [Next]_vars PROVE OrderInv'
    OBVIOUS
  <2>1. CASE UNCHANGED vars
    <3>1. free' = free /\ visited' = visited /\ elems(queue)' = elems(queue)
      BY <2>1, SameVisited DEF vars, elems
    <3>2. TypeOK' /\ QueueInv' /\ EdgesInv' /\ OrdersInv'
      BY <2>1, <3>1 DEF OrderInv, TypeOK, QueueInv, EdgesInv, OrdersInv, vars, elems
    <3> QED
      BY <2>1, <3>1, <3>2 DEF OrderInv, ScanInv, SortedInv, sortedByOrder, vars
  <2>2. CASE SortQueue
    BY <2>2, SortQueueOrder
  <2>3. CASE VisitNode
    BY <2>3, VisitNodeOrder
  <2>4. CASE \E m \in Names : ScanNode(m)
    BY <2>4, ScanNodeOrder
  <2>5. CASE ScanEnds
    BY <2>5, ScanEndsOrder
  <2>6. CASE SortTasks
    BY <2>6, SortTasksOrder
  <2> QED
    BY <2>1, <2>2, <2>3, <2>4, <2>5, <2>6 DEF Next, Returned
<1> QED
  BY <1>1, <1>2, PTL DEF Spec

\* In the list of a job's tasks (buildJobTasks) every task that was given an
\* order stands after all it depends on.
THEOREM TasksFollowDependencies == Spec => []DependenciesFirst
<1>1. OrderInv => DependenciesFirst
  <2> SUFFICES ASSUME OrderInv, pc = "sorted",
                      NEW k \in 1..Len(jt), NEW l \in 1..Len(jt),
                      jt[l] \in visited, jt[k] \in dependsOn[jt[l]]
               PROVE  k < l
    BY DEF DependenciesFirst
  <2>1. order[jt[k]] < order[jt[l]]
    BY DEF OrderInv, OrdersInv
  <2>2. order \in [Names -> Nat] /\ jt[k] \in Names /\ jt[l] \in Names
        /\ Len(jt) \in Nat
    BY DEF OrderInv, TypeOK
  <2>3. l < k => order[jt[l]] <= order[jt[k]]
    BY <2>2 DEF OrderInv, SortedInv, sortedByOrder
  <2> QED
    BY <2>1, <2>2, <2>3
<1> QED
  BY <1>1, OrderInvariant, PTL

\* A task is left without an order only if it depends on another such task:
\* it is on a cycle or behind one.
THEOREM OnlyCyclesAreStuck == Spec => []StuckOnlyOnCycles
<1>1. OrderInv => StuckOnlyOnCycles
  <2> SUFFICES ASSUME OrderInv, pc = "sorted", NEW m \in Names \ visited
               PROVE  dependsOn[m] \ visited # {}
    BY DEF StuckOnlyOnCycles
  <2>1. elems(queue) = {}
    BY DEF OrderInv, SortedInv, elems
  <2>2. incoming[m] # {}
    BY <2>1 DEF visited, free
  <2>3. incoming[m] \subseteq dependsOn[m] /\ incoming[m] \cap visited = {}
    BY DEF OrderInv, EdgesInv
  <2> QED
    BY <2>2, <2>3
<1> QED
  BY <1>1, OrderInvariant, PTL

-----------------------------------------------------------------------------
(***************************************************************************)
(* The sort is greedy: a task is visited before any other task whose       *)
(* dependencies had all been visited by then and whose name is greater.    *)
(***************************************************************************)
Distinct == \A m, k \in visited : order[m] = order[k] => m = k

Greedy ==
  \A m \in visited, k \in Names :
    /\ k # m
    /\ k \in visited => order[m] < order[k]
    /\ \A d \in dependsOn[k] : d \in visited /\ order[d] < order[m]
    => m < k

GreedyInv ==
  /\ jt \in lists(Names)
  /\ pc = "visit" => sortedByName(queue)
  /\ Distinct
  /\ Greedy

\* The head of the sorted queue has the smallest name.
LEMMA HeadIsSmallest ==
  ASSUME queue \in Seq(Names), queue # <<>>, sortedByName(queue), NEW k \in elems(queue),
         k # Head(queue)
  PROVE  Head(queue) < k
<1>1. PICK x \in 1..Len(queue) : k = queue[x]
  BY DEF elems
<1>2. Head(queue) = queue[1] /\ Len(queue) \in Nat /\ Len(queue) >= 1
  OBVIOUS
<1>3. 1 \in 1..Len(queue) /\ 1 < x
  BY <1>1, <1>2
<1> QED
  BY <1>1, <1>2, <1>3 DEF sortedByName

\* The node taken off the queue is the smallest that could be taken.
LEMMA VisitNodeGreedy ==
  ASSUME OrderInv, GreedyInv, VisitNode
  PROVE  GreedyInv'
<1> DEFINE h == Head(queue)
<1>1. /\ queue \in Seq(Names) /\ queue # <<>> /\ sortedByName(queue)
      /\ order' = [order EXCEPT ![h] = i] /\ order \in [Names -> Nat] /\ i \in Nat
      /\ UNCHANGED <<incoming, dependsOn>> /\ pc = "visit" /\ pc' = "scan"
  <2>1. visited \subseteq Names /\ IsFiniteSet(visited)
    BY NamesAssumption, FS_Subset DEF visited, free
  <2> QED
    BY <2>1, FS_CardinalityType DEF OrderInv, TypeOK, VisitNode, GreedyInv
<1>2. h \in elems(queue) /\ h \in Names /\ h \notin visited
  <2>1. h = queue[1] /\ 1 \in 1..Len(queue)
    BY <1>1
  <2> QED
    BY <1>1, <2>1 DEF elems, visited
<1>3. visited' = visited \cup {h}
  <2>1. \A k, l \in 1..Len(queue) : queue[k] = queue[l] => k = l
    BY DEF OrderInv, QueueInv
  <2>2. /\ queue' \in Seq(Names) /\ Len(queue') = Len(queue) - 1
        /\ \A k \in 1..Len(queue') : queue'[k] = queue[k + 1]
        /\ h = queue[1] /\ Len(queue) \in Nat /\ Len(queue) >= 1
    BY <1>1 DEF VisitNode
  <2>3. elems(queue') \subseteq elems(queue) \ {h}
    <3> SUFFICES ASSUME NEW k \in 1..Len(queue') PROVE queue'[k] \in elems(queue) \ {h}
      BY DEF elems
    <3>1. k + 1 \in 1..Len(queue) /\ k + 1 # 1 /\ 1 \in 1..Len(queue)
      BY <2>2
    <3> QED
      BY <2>1, <2>2, <3>1 DEF elems
  <2>4. elems(queue) \ {h} \subseteq elems(queue')
    <3> SUFFICES ASSUME NEW k \in 1..Len(queue), queue[k] # h PROVE queue[k] \in elems(queue')
      BY DEF elems
    <3>1. k - 1 \in 1..Len(queue') /\ queue'[k - 1] = queue[(k - 1) + 1]
      BY <2>2
    <3>2. queue[k] = queue'[k - 1]
      BY <2>2, <3>1
    <3> QED
      BY <3>1, <3>2 DEF elems
  <2>5. elems(queue)' = elems(queue')
    BY DEF elems
  <2>6. free' = free
    BY <1>1 DEF free
  <2>7. h \in free
    BY <1>2 DEF OrderInv, QueueInv
  <2> QED
    BY <1>2, <2>3, <2>4, <2>5, <2>6, <2>7 DEF visited
<1>4. visited \subseteq Names /\ (\A m \in visited : order[m] < i)
  BY DEF OrderInv, OrdersInv, visited, free
<1> HIDE DEF h
<1>5. order'[h] = i /\ \A m \in visited : order'[m] = order[m] /\ order'[m] < i
  BY <1>1, <1>2, <1>4
<1>6. Distinct'
  <2> SUFFICES ASSUME NEW m \in visited', NEW k \in visited', order'[m] = order'[k]
               PROVE  m = k
    BY DEF Distinct
  <2>1. \A x \in visited : order[x] \in Nat
    BY <1>1, <1>4
  <2> QED
    BY <1>1, <1>3, <1>5, <2>1 DEF GreedyInv, Distinct
<1>7. Greedy'
  <2> SUFFICES ASSUME NEW m \in visited', NEW k \in Names, k # m,
                      k \in visited' => order'[m] < order'[k],
                      \A d \in dependsOn[k] : d \in visited' /\ order'[d] < order'[m]
               PROVE  m < k
    BY <1>1 DEF Greedy
  <2>1. CASE m = h
    <3>1. k \notin visited
      BY <1>1, <1>3, <1>4, <1>5, <2>1
    <3>2. dependsOn[k] \subseteq visited
      BY <1>1, <1>3, <1>5, <2>1
    <3>3. incoming[k] = {}
      BY <1>1, <3>2 DEF OrderInv, EdgesInv
    <3>4. k \in elems(queue)
      BY <3>1, <3>3 DEF visited, free
    <3> QED
      BY <1>1, <2>1, <3>4, HeadIsSmallest DEF h
  <2>2. CASE m \in visited
    <3>1. \A d \in dependsOn[k] : d \in visited /\ order[d] < order[m]
      <4> SUFFICES ASSUME NEW d \in dependsOn[k] PROVE d \in visited /\ order[d] < order[m]
        OBVIOUS
      <4>1. order'[d] < order'[m] /\ order'[m] < i /\ d \in visited'
        BY <1>5, <2>2
      <4>2. order'[m] \in Nat /\ order[m] = order'[m]
        BY <1>1, <1>4, <1>5, <2>2
      <4>3. d # h
        BY <1>1, <1>5, <4>1, <4>2
      <4> QED
        BY <1>3, <1>5, <4>1, <4>2, <4>3
    <3>2. k \in visited => order[m] < order[k]
      BY <1>3, <1>5, <2>2
    <3> QED
      BY <2>2, <3>1, <3>2 DEF GreedyInv, Greedy
  <2> QED
    BY <1>3, <2>1, <2>2
<1> QED
  BY <1>1, <1>6, <1>7 DEF GreedyInv, VisitNode, lists, elems

\* The other steps neither visit a node nor change an order.
LEMMA NextGreedy ==
  ASSUME OrderInv, OrderInv', GreedyInv, [Next]_vars
  PROVE  GreedyInv'
<1>1. ASSUME visited' = visited, UNCHANGED <<order, dependsOn>> PROVE Distinct' /\ Greedy'
  BY <1>1 DEF GreedyInv, Distinct, Greedy
<1>0. ASSUME jt' \in lists(Names) PROVE (jt \in lists(Names))'
  BY <1>0 DEF lists, elems
<1>2. CASE VisitNode
  BY <1>2, VisitNodeGreedy
<1>3. CASE SortQueue
  <2>1. elems(queue') = elems(queue)
    <3>1. IsFiniteSet(elems(queue)) /\ queue' \in lists(elems(queue))
      BY <1>3, QueueIsFinite DEF OrderInv, TypeOK, SortQueue
    <3> QED
      BY <3>1, ListType
  <2>2. visited' = visited
    BY <1>3, <2>1, SameVisited DEF SortQueue
  <2>3. sortedByName(queue)' 
    BY <1>3 DEF SortQueue, sortedByName
  <2> QED
    BY <1>0, <1>1, <1>3, <2>2, <2>3 DEF SortQueue, GreedyInv
<1>4. ASSUME NEW m \in Names, ScanNode(m) PROVE GreedyInv'
  <2>1. visited' = visited
    BY <1>4, ScanVisitsNobody
  <2> QED
    BY <1>0, <1>1, <1>4, <2>1 DEF ScanNode, GreedyInv
<1>5. CASE ScanEnds \/ SortTasks
  <2>1. visited' = visited
    BY <1>5, SameVisited DEF ScanEnds, SortTasks
  <2> QED
    BY <1>0, <1>1, <1>5, <2>1 DEF ScanEnds, SortTasks, GreedyInv
<1>6. CASE UNCHANGED vars
  <2>1. visited' = visited
    BY <1>6, SameVisited DEF vars
  <2> QED
    BY <1>0, <1>1, <1>6, <2>1 DEF vars, GreedyInv, sortedByName
<1> QED
  BY <1>2, <1>3, <1>4, <1>5, <1>6 DEF Next, Returned

\* The invariant of the sort, with the greedy choice.
THEOREM GreedyInvariant == Spec => [](OrderInv /\ GreedyInv)
<1>1. Init => GreedyInv
  <2> SUFFICES ASSUME Init PROVE GreedyInv
    OBVIOUS
  <2>1. IsFiniteSet({m \in Names : dependsOn[m] = {}})
    BY NamesAssumption, FS_Subset
  <2>2. elems(queue) = {m \in Names : dependsOn[m] = {}}
    BY <2>1, ListType DEF Init
  <2>3. visited = {}
    BY <2>2 DEF Init, visited, free
  <2> QED
    BY <2>3 DEF Init, GreedyInv, Distinct, Greedy
<1> QED
  BY <1>1, NextGreedy, OrderInvariant, PTL DEF Spec

\* Two lists of names of one length that differ have a first place where they do.
LEMMA FirstDifference ==
  ASSUME NEW c \in Nat, NEW s \in [1..c -> Names], NEW t \in [1..c -> Names], s # t
  PROVE  \E k \in 1..c : s[k] # t[k] /\ \A l \in 1..(k - 1) : s[l] = t[l]
<1> DEFINE D == {k \in 1..c : s[k] # t[k]}
<1>1. D \subseteq Nat /\ D # {}
  OBVIOUS
<1>2. PICK k \in D : \A y \in D : ~(<<y, k>> \in OpToRel(<, Nat))
  BY <1>1, NatLessThanWellFounded, WFMin
<1>3. ASSUME NEW l \in 1..(k - 1) PROVE s[l] = t[l]
  <2>1. l < k /\ l \in Nat /\ k \in Nat /\ l \in 1..c
    OBVIOUS
  <2>2. l \notin D
    BY <1>2, <2>1 DEF OpToRel
  <2> QED
    BY <2>1, <2>2
<1>4. k \in 1..c /\ s[k] # t[k]
  OBVIOUS
<1>5. \A l \in 1..(k - 1) : s[l] = t[l]
  BY <1>3
<1> WITNESS k \in 1..c
<1> QED
  BY <1>4, <1>5

\* However the maps were read, a job without a cycle in depends_on lists its
\* tasks in the first of all the orders that respect the dependencies.
THEOREM OrderIsStable == Spec => []StableOrder
<1>1. OrderInv /\ GreedyInv => StableOrder
  <2> SUFFICES ASSUME OrderInv, GreedyInv, pc = "sorted", visited = Names
               PROVE  /\ respects(jt)
                      /\ \A s \in lists(Names) : respects(s) /\ s # jt => before(jt, s)
    BY DEF StableOrder
  <2> DEFINE c == Cardinality(Names)
  <2>1. c \in Nat /\ Names \subseteq Nat
    BY NamesAssumption, FS_CardinalityType
  <2>2. ASSUME NEW s \in lists(Names)
        PROVE  /\ s \in [1..c -> Names] /\ Len(s) = c /\ elems(s) = Names
               /\ \A k, l \in 1..c : s[k] = s[l] => k = l
    BY <2>1 DEF lists
  <2>3. /\ jt \in [1..c -> Names] /\ Len(jt) = c /\ elems(jt) = Names
        /\ \A k, l \in 1..c : jt[k] = jt[l] => k = l
    BY <2>2 DEF GreedyInv
  <2>4. order \in [Names -> Nat] /\ dependsOn \in [Names -> SUBSET Names]
    BY NamesAssumption DEF OrderInv, TypeOK
  <2>5. ASSUME NEW k \in 1..c, NEW l \in 1..c, k < l
        PROVE  order[jt[k]] < order[jt[l]]
    <3>1. order[jt[k]] <= order[jt[l]]
      BY <2>3, <2>4, <2>5 DEF OrderInv, SortedInv, sortedByOrder
    <3>2. jt[k] # jt[l]
      BY <2>1, <2>3, <2>5
    <3>3. order[jt[k]] # order[jt[l]]
      BY <2>3, <3>2 DEF GreedyInv, Distinct
    <3> QED
      BY <2>3, <2>4, <3>1, <3>3
  <2>6. respects(jt)
    <3> SUFFICES ASSUME NEW k \in 1..c, NEW l \in 1..c, jt[k] \in dependsOn[jt[l]]
                 PROVE  k < l
      BY <2>3 DEF respects
    <3>1. order[jt[k]] < order[jt[l]]
      BY <2>3 DEF OrderInv, OrdersInv
    <3>2. order[jt[k]] \in Nat /\ order[jt[l]] \in Nat
      BY <2>3, <2>4
    <3> QED
      BY <2>1, <2>5, <3>1, <3>2
  <2>7. ASSUME NEW s \in lists(Names), respects(s), s # jt PROVE before(jt, s)
    <3>1. PICK k \in 1..c : s[k] # jt[k] /\ \A l \in 1..(k - 1) : s[l] = jt[l]
      <4>1. s \in [1..c -> Names] /\ jt \in [1..c -> Names] /\ s # jt /\ c \in Nat
        BY <2>1, <2>2, <2>3, <2>7
      <4> HIDE DEF c
      <4> QED
        BY <4>1, FirstDifference
    <3>2. PICK x \in 1..c : s[k] = jt[x]
      BY <2>2, <2>3 DEF elems
    <3>3. k < x
      <4>1. CASE x < k
        <5>1. s[x] = s[k]
          BY <2>1, <3>1, <3>2, <4>1
        <5> QED
          BY <2>1, <2>2, <4>1, <5>1
      <4> QED
        BY <2>1, <3>1, <3>2, <4>1
    <3>4. order[jt[k]] < order[s[k]]
      BY <2>5, <3>2, <3>3
    <3>5. ASSUME NEW d \in dependsOn[s[k]] PROVE order[d] < order[jt[k]]
      <4>1. PICK y \in 1..c : d = s[y]
        BY <2>2, <2>4 DEF elems
      <4>2. y < k
        BY <2>2, <2>7, <3>5, <4>1 DEF respects
      <4>3. d = jt[y]
        BY <2>1, <3>1, <4>1, <4>2
      <4> QED
        BY <2>5, <4>2, <4>3
    <3>6. jt[k] < s[k]
      <4>1. jt[k] \in visited /\ s[k] \in Names /\ dependsOn[s[k]] \subseteq visited
        BY <2>2, <2>3, <2>4
      <4> QED
        BY <3>1, <3>4, <3>5, <4>1 DEF GreedyInv, Greedy
    <3>7. \A l \in 1..(k - 1) : jt[l] = s[l]
      BY <3>1
    <3> QED
      BY <2>3, <3>6, <3>7 DEF before
  <2> QED
    BY <2>6, <2>7
<1> QED
  BY <1>1, GreedyInvariant, PTL

=============================================================================
