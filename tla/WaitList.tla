------------------------------ MODULE WaitList ------------------------------
(***************************************************************************)
(* The queue strategies of prunner.go (QueueStrategyImpl and its three     *)
(* implementations): pure functions of a pipeline definition, the          *)
(* pipeline's wait list and the job to be queued.  partitionOf maps a job  *)
(* to its queue partition.                                                 *)
(***************************************************************************)
EXTENDS Definition, SequencesExt

\* Mutant: the append strategy accepts one job too many.
canAcceptJobOffByOne(def, wl) ==
  IF def.QueueLimit = 0
  THEN "errNoQueue"
  ELSE IF /\ def.QueueStrategy = "append" /\ def.QueueLimit # NoLimit
          /\ Len(wl) > def.QueueLimit
       THEN "errQueueFull"
       ELSE "nil"

(***************************************************************************)
(* canAcceptJob: the error ScheduleAsync returns before it creates a job,  *)
(* or "nil".  Only the append strategy looks at the wait list.             *)
(***************************************************************************)
canAcceptJob(def, wl) ==
  LET limit == IF def.QueueStrategy = "partitioned_replace"
               THEN def.QueuePartitionLimit
               ELSE def.QueueLimit
  IN  IF limit = 0
      THEN "errNoQueue"
      ELSE IF /\ def.QueueStrategy = "append"
              /\ limit # NoLimit
              /\ Len(wl) >= limit
           THEN "errQueueFull"
           ELSE "nil"

(***************************************************************************)
(* The replace strategy dereferences QueueLimit without a nil check:       *)
(* modifyWaitList panics when queue_limit is not set.                      *)
(***************************************************************************)
modifyPanics(def) == def.QueueStrategy = "replace" /\ def.QueueLimit = NoLimit

\* Mutant: the partitions are not told apart.
partitionSlotsOfAll(wl, partitionOf, q) == DOMAIN wl

\* The positions of the wait list held by jobs of partition q.
partitionSlots(wl, partitionOf, q) ==
  {i \in DOMAIN wl : partitionOf[wl[i]] = q}

\* Mutant: a full partition gives up its first slot.
replacedSlotFirst(def, wl, partitionOf, j) ==
  LET slots == partitionSlots(wl, partitionOf, partitionOf[j])
  IN  IF /\ def.QueueStrategy = "partitioned_replace"
         /\ Cardinality(slots) >= def.QueuePartitionLimit
      THEN Min(slots)
      ELSE 0

(***************************************************************************)
(* The position whose job modifyWaitList cancels to make room, 0 if the    *)
(* new job is simply appended: the last position of a full list (replace)  *)
(* or the last position of the job's full partition (partitioned_replace). *)
(***************************************************************************)
replacedSlot(def, wl, partitionOf, j) ==
  LET slots == partitionSlots(wl, partitionOf, partitionOf[j])
  IN  IF def.QueueStrategy = "replace" /\ Len(wl) >= def.QueueLimit
      THEN Len(wl)
      ELSE IF /\ def.QueueStrategy = "partitioned_replace"
              /\ Cardinality(slots) >= def.QueuePartitionLimit
           THEN Max(slots)
           ELSE 0

\* Mutant: a new job is put in front of the waiting ones.
modifyWaitListPrepends(def, wl, partitionOf, j) ==
  LET slot == replacedSlot(def, wl, partitionOf, j)
  IN  <<j>> \o IF slot = 0 THEN wl ELSE RemoveAt(wl, slot)

(***************************************************************************)
(* modifyWaitList: the new wait list.  replace overwrites the last slot in *)
(* place; partitioned_replace removes the cancelled job and appends.  The  *)
(* code filters that job out wherever it stands; a wait list never holds a *)
(* job twice (QueuesOK of PipelineRunner), so it is one position.          *)
(***************************************************************************)
modifyWaitList(def, wl, partitionOf, j) ==
  LET slot == replacedSlot(def, wl, partitionOf, j)
  IN  IF slot = 0
      THEN Append(wl, j)
      ELSE IF def.QueueStrategy = "replace"
           THEN ReplaceAt(wl, slot, j)
           ELSE Append(RemoveAt(wl, slot), j)

\* Mutant: the replaced job is taken off the list but not marked as cancelled.
replacedJobsForgotten(def, wl, partitionOf, j) == {}

\* The job modifyWaitList cancels: none, or the one on the replaced slot.
replacedJobs(def, wl, partitionOf, j) ==
  LET slot == replacedSlot(def, wl, partitionOf, j)
  IN  IF slot = 0 THEN {} ELSE {wl[slot]}

=============================================================================
