------------------------ MODULE PipelineRunnerSafety ------------------------
(***************************************************************************)
(* Theorems about PipelineRunner, for every set of jobs, pipelines and     *)
(* partitions and every set of valid definitions.  First, that every       *)
(* variable keeps its type (TypeOK).  Then, that RunnerInv is an inductive *)
(* invariant if the environment is WellBehaved, and the safety properties  *)
(* that follow from it: the runner counts what runs, no waiting job is     *)
(* lost, and no job is started beyond the concurrency of its pipeline.     *)
(***************************************************************************)
EXTENDS PipelineRunner, FiniteSetTheorems, WellFoundedInduction, SequenceTheorems, TLAPS

-----------------------------------------------------------------------------
(***************************************************************************)
(* Sequences and sets.                                                     *)
(***************************************************************************)

\* A non-empty set of positions has a greatest element.
LEMMA MaxOfPositions ==
  ASSUME NEW n \in Nat, NEW S \in SUBSET (1 .. n), S # {}
  PROVE  Max(S) \in S /\ \A y \in S : Max(S) >= y
<1> DEFINE T == {n - x : x \in S}
<1>1. T \subseteq Nat /\ T # {}
  <2>1. PICK x \in S : TRUE
    OBVIOUS
  <2>2. n - x \in T
    BY <2>1
  <2> QED
    BY <2>2
<1>2. PICK t \in T : \A y \in T : ~(<<y, t>> \in OpToRel(<, Nat))
  BY <1>1, NatLessThanWellFounded, WFMin
<1>3. PICK m \in S : t = n - m
  OBVIOUS
<1>4. \A y \in S : m >= y
  <2> TAKE y \in S
  <2>1. n - y \in T
    OBVIOUS
  <2>2. ~(n - y < t)
    BY <1>1, <1>2, <2>1 DEF OpToRel
  <2> QED
    BY <1>3, <2>2
<1> QED
  BY <1>4 DEF Max

\* Taking one position out of a sequence leaves a sequence of the same kind.
LEMMA RemoveAtType ==
  ASSUME NEW T, NEW s \in Seq(T), NEW i \in 1 .. Len(s)
  PROVE  RemoveAt(s, i) \in Seq(T)
<1>1. SubSeq(s, 1, i - 1) \in Seq(T)
  BY SubSeqProperties
<1>2. SubSeq(s, i + 1, Len(s)) \in Seq(T)
  BY SubSeqProperties
<1> QED
  BY <1>1, <1>2, ConcatProperties DEF RemoveAt

-----------------------------------------------------------------------------
(***************************************************************************)
(* The queue strategies.                                                   *)
(***************************************************************************)

\* The replaced slot is a slot of the wait list, or none.
LEMMA ReplacedSlotType ==
  ASSUME NEW def \in PipelineDef, validate(def), ~modifyPanics(def),
         NEW wl \in Seq(Jobs), NEW partitionOf, NEW j
  PROVE  replacedSlot(def, wl, partitionOf, j) \in 0 .. Len(wl)
<1> DEFINE slots == partitionSlots(wl, partitionOf, partitionOf[j])
<1>1. Len(wl) \in Nat /\ DOMAIN wl = 1 .. Len(wl)
  OBVIOUS
<1>2. CASE def.QueueStrategy = "replace" /\ Len(wl) >= def.QueueLimit
  BY <1>1, <1>2 DEF replacedSlot
<1>3. CASE /\ def.QueueStrategy = "partitioned_replace"
           /\ Cardinality(slots) >= def.QueuePartitionLimit
  <2>1. slots \in SUBSET (1 .. Len(wl))
    BY <1>1 DEF partitionSlots
  <2>2. IsFiniteSet(slots) /\ Cardinality(slots) \in Nat
    <3>1. IsFiniteSet(1 .. Len(wl))
      BY <1>1, FS_Interval
    <3>2. IsFiniteSet(slots)
      BY <2>1, <3>1, FS_Subset
    <3> QED
      BY <3>2, FS_CardinalityType
  <2>3. def.QueuePartitionLimit \in Int /\ def.QueuePartitionLimit >= 1
    BY <1>3 DEF validate, PipelineDef
  <2>4. slots # {}
    BY <1>3, <2>2, <2>3, FS_EmptySet
  <2>5. Max(slots) \in slots
    BY <1>1, <2>1, <2>4, MaxOfPositions
  <2>6. replacedSlot(def, wl, partitionOf, j) = Max(slots)
    BY <1>3 DEF replacedSlot
  <2> QED
    BY <1>1, <2>1, <2>5, <2>6
<1>4. CASE /\ ~(def.QueueStrategy = "replace" /\ Len(wl) >= def.QueueLimit)
           /\ ~(/\ def.QueueStrategy = "partitioned_replace"
                /\ Cardinality(slots) >= def.QueuePartitionLimit)
  BY <1>1, <1>4 DEF replacedSlot
<1> QED
  BY <1>2, <1>3, <1>4

\* modifyWaitList returns a list of jobs.
LEMMA ModifyWaitListType ==
  ASSUME NEW def \in PipelineDef, validate(def), ~modifyPanics(def),
         NEW wl \in Seq(Jobs), NEW partitionOf, NEW j \in Jobs
  PROVE  modifyWaitList(def, wl, partitionOf, j) \in Seq(Jobs)
<1> DEFINE slot == replacedSlot(def, wl, partitionOf, j)
<1>1. slot \in 0 .. Len(wl)
  BY ReplacedSlotType
<1>2. CASE slot = 0
  BY <1>2 DEF modifyWaitList
<1>3. CASE slot # 0 /\ def.QueueStrategy = "replace"
  <2>1. slot \in 1 .. Len(wl)
    BY <1>1, <1>3
  <2>2. [wl EXCEPT ![slot] = j] \in Seq(Jobs)
    BY <2>1, ExceptSeq
  <2> QED
    BY <1>3, <2>2 DEF modifyWaitList, ReplaceAt
<1>4. CASE slot # 0 /\ def.QueueStrategy # "replace"
  <2>1. RemoveAt(wl, slot) \in Seq(Jobs)
    BY <1>1, <1>4, RemoveAtType
  <2>2. Append(RemoveAt(wl, slot), j) \in Seq(Jobs)
    BY <2>1
  <2> QED
    BY <1>4, <2>2 DEF modifyWaitList
<1> QED
  BY <1>2, <1>3, <1>4

-----------------------------------------------------------------------------
(***************************************************************************)
(* Type correctness.                                                       *)
(***************************************************************************)

\* A count of free slots is an integer.
LEMMA FreeSlotsType ==
  ASSUME PipelinesDef(defs), NEW p, NEW js, NEW ids \in SUBSET Jobs
  PROVE  freeSlots(p, js, ids) \in Int
<1>1. concurrency(p) \in Int
  BY DEF concurrency, PipelinesDef, PipelineDef
<1>2. IsFiniteSet(ids)
  BY ConstantsAssumption, FS_Subset
<1>3. runningJobs(p, js, ids) \in SUBSET ids
  BY DEF runningJobs
<1>4. IsFiniteSet(runningJobs(p, js, ids))
  BY <1>2, <1>3, FS_Subset
<1>5. Cardinality(runningJobs(p, js, ids)) \in Nat
  BY <1>4, FS_CardinalityType
<1> QED
  BY <1>1, <1>5 DEF freeSlots

\* Calling startJobsOnWaitList leaves a stack of activations.
LEMMA StartJobsOnWaitListType ==
  ASSUME TypeOK, NEW p \in Pipelines, NEW js, NEW ids \in SUBSET Jobs,
         NEW stack \in Seq(Activation)
  PROVE  startJobsOnWaitList(p, js, ids, stack) \in Seq(Activation)
<1> DEFINE act == [ pipeline  |-> p,
                    todo      |-> waitListByPipeline[p],
                    kept      |-> <<>>,
                    freeSlots |-> freeSlots(p, js, ids) ]
<1>1. act \in Activation
  <2>1. freeSlots(p, js, ids) \in Int
    BY FreeSlotsType DEF TypeOK
  <2>2. waitListByPipeline[p] \in Seq(Jobs) /\ <<>> \in Seq(Jobs)
    BY DEF TypeOK
  <2> QED
    BY <2>1, <2>2 DEF Activation
<1>2. <<act>> \o stack \in Seq(Activation)
  BY <1>1
<1> QED
  BY <1>2 DEF startJobsOnWaitList

\* The updates the handlers make of a PipelineJob give a PipelineJob.
LEMMA RecordUpdates ==
  ASSUME NEW r \in PipelineJob
  PROVE  /\ [r EXCEPT !.sched = "main", !.Start = TRUE] \in PipelineJob
         /\ [r EXCEPT !.sched = "main", !.LastError = "graph", !.Canceled = TRUE] \in PipelineJob
         /\ [r EXCEPT !.sched = "error"] \in PipelineJob
         /\ [r EXCEPT !.startTimer = FALSE] \in PipelineJob
         /\ [r EXCEPT !.Canceled = TRUE] \in PipelineJob
         /\ [r EXCEPT !.Canceled = TRUE, !.startTimer = FALSE] \in PipelineJob
         /\ \A e \in Errors :
              [r EXCEPT !.sched = "nil", !.Completed = TRUE, !.LastError = e,
                        !.Canceled = @ \/ e = "canceled"] \in PipelineJob
  BY DEF PipelineJob, Schedulers, Errors

\* startJob keeps the types of all it changes.
LEMMA StartJobType ==
  ASSUME TypeOK, NEW j \in Jobs, NEW js \in [Jobs -> PipelineJob],
         NEW ids \in SUBSET Jobs, NEW stack \in Seq(Activation),
         startJob(j, js, ids, stack)
  PROVE  /\ job' \in [Jobs -> PipelineJob]
         /\ calls' \in Seq(Activation)
         /\ goroutine' \in [Jobs -> goroutineStates]
         /\ persistRequests' \in BOOLEAN
<1> DEFINE built  == [js EXCEPT ![j].sched = "main", ![j].Start = TRUE]
           failed == [js EXCEPT ![j].sched = "main", ![j].LastError = "graph",
                                ![j].Canceled = TRUE]
<1>1. built \in [Jobs -> PipelineJob] /\ failed \in [Jobs -> PipelineJob]
  <2>1. /\ built = [js EXCEPT ![j] = [js[j] EXCEPT !.sched = "main", !.Start = TRUE]]
        /\ failed = [js EXCEPT ![j] = [js[j] EXCEPT !.sched = "main", !.LastError = "graph",
                                                    !.Canceled = TRUE]]
    OBVIOUS
  <2>2. /\ [js[j] EXCEPT !.sched = "main", !.Start = TRUE] \in PipelineJob
        /\ [js[j] EXCEPT !.sched = "main", !.LastError = "graph", !.Canceled = TRUE] \in PipelineJob
    BY RecordUpdates
  <2> QED
    BY <2>1, <2>2
<1>2. js[j].Pipeline \in Pipelines
  BY DEF PipelineJob
<1>3. persistRequests' \in BOOLEAN
  BY DEF startJob, TypeOK
<1>4. CASE js[j].Canceled
  BY <1>3, <1>4 DEF startJob, TypeOK
<1>5. CASE ~js[j].Canceled /\ js[j].buildable
  <2>1. /\ job' = built /\ calls' = stack
        /\ goroutine' = [goroutine EXCEPT ![j] = "main"]
    BY <1>5 DEF startJob
  <2> QED
    BY <1>1, <1>3, <2>1 DEF TypeOK, goroutineStates
<1>6. CASE ~js[j].Canceled /\ ~js[j].buildable
  <2>1. /\ job' = failed
        /\ calls' = startJobsOnWaitList(js[j].Pipeline, failed, ids, stack)
        /\ goroutine' = goroutine
    BY <1>6 DEF startJob
  <2>2. calls' \in Seq(Activation)
    BY <1>2, <2>1, StartJobsOnWaitListType
  <2> QED
    BY <1>1, <1>3, <2>1, <2>2 DEF TypeOK
<1> QED
  BY <1>4, <1>5, <1>6

\* The record of a new job is a PipelineJob.
LEMMA NewJobType ==
  ASSUME TypeOK, NEW p \in DOMAIN defs, NEW q \in Partitions, NEW b \in BOOLEAN
  PROVE  newJob(p, q, b) \in PipelineJob
<1>1. p \in Pipelines /\ (defs[p].StartDelay > 0) \in BOOLEAN
  BY DEF TypeOK, PipelinesDef
<1>2. Cardinality({k \in Jobs : created(job[k])}) + 1 \in Nat
  <2>1. IsFiniteSet({k \in Jobs : created(job[k])})
    BY ConstantsAssumption, FS_Subset
  <2> QED
    BY <2>1, FS_CardinalityType
<1> QED
  BY <1>1, <1>2 DEF newJob, PipelineJob, Errors

\* enqueue keeps the types of all it changes.
LEMMA EnqueueType ==
  ASSUME TypeOK, NEW p \in DOMAIN defs, NEW j \in Jobs,
         NEW js \in [Jobs -> PipelineJob], enqueue(p, j, js)
  PROVE  /\ waitListByPipeline' \in [Pipelines -> Seq(Jobs)]
         /\ job' \in [Jobs -> PipelineJob]
         /\ timer' \in [Jobs -> {"off", "armed", "fired"}]
         /\ persistRequests' \in BOOLEAN
<1> DEFINE def         == defs[p]
           wl          == waitListByPipeline[p]
           partitionOf == [k \in Jobs |-> js[k].queuePartition]
<1>1. p \in Pipelines /\ def \in PipelineDef /\ validate(def)
  BY DEF TypeOK, PipelinesDef
<1>2. waitListByPipeline' \in [Pipelines -> Seq(Jobs)]
  <2>1. CASE modifyPanics(def)
    BY <2>1 DEF enqueue, TypeOK
  <2>2. CASE ~modifyPanics(def)
    <3>1. wl \in Seq(Jobs)
      BY <1>1 DEF TypeOK
    <3>2. modifyWaitList(def, wl, partitionOf, j) \in Seq(Jobs)
      BY <1>1, <2>2, <3>1, ModifyWaitListType
    <3>3. waitListByPipeline' =
            [waitListByPipeline EXCEPT ![p] = modifyWaitList(def, wl, partitionOf, j)]
      BY <2>2 DEF enqueue
    <3> QED
      BY <1>1, <3>2, <3>3 DEF TypeOK
  <2> QED
    BY <2>1, <2>2
<1>3. job' \in [Jobs -> PipelineJob]
  <2>1. PICK replaced : job' = [k \in Jobs |-> IF k \in replaced
                                THEN [js[k] EXCEPT !.Canceled = TRUE, !.startTimer = FALSE]
                                ELSE js[k]]
    BY DEF enqueue
  <2> QED
    BY <2>1, RecordUpdates
<1>4. timer' \in [Jobs -> {"off", "armed", "fired"}]
  <2>1. PICK replaced : timer' = [k \in Jobs |->
                     IF k = j
                     THEN IF js[j].StartDelay THEN "armed" ELSE "off"
                     ELSE IF k \in replaced /\ js[k].startTimer /\ timer[k] = "armed"
                          THEN "off"
                          ELSE timer[k]]
    BY DEF enqueue
  <2> QED
    BY <2>1 DEF TypeOK
<1> QED
  BY <1>2, <1>3, <1>4 DEF enqueue

\* cancelJobInternal keeps the types of all it changes.
LEMMA CancelType ==
  ASSUME TypeOK, NEW S, cancelJobInternal(S)
  PROVE  /\ job' \in [Jobs -> PipelineJob]
         /\ cancelGo' \in [Jobs -> SUBSET Schedulers]
<1>1. \A k \in Jobs : [job[k] EXCEPT !.Canceled = TRUE] \in PipelineJob
  BY RecordUpdates DEF TypeOK
<1>2. \A k \in Jobs : job[k].sched \in Schedulers \cup {"nil"}
  BY DEF TypeOK, PipelineJob
<1> QED
  BY <1>1, <1>2 DEF cancelJobInternal, TypeOK

\* The initial state is well typed.
LEMMA InitType == Init => TypeOK
<1> SUFFICES ASSUME Init PROVE TypeOK
  OBVIOUS
<1>1. PipelinesDef(defs)
  BY ConstantsAssumption DEF Init
<1>2. noJob \in PipelineJob
  BY ConstantsAssumption DEF noJob, PipelineJob, Errors
<1>3. calls \in Seq(Activation)
  BY DEF Init
<1>4. waitListByPipeline \in [Pipelines -> Seq(Jobs)]
  BY DEF Init
<1>5. job \in [Jobs -> PipelineJob]
  BY <1>2 DEF Init
<1> QED
  BY <1>1, <1>3, <1>4, <1>5
  DEF Init, TypeOK, goroutineStates, Errors, shutdownStates

\* Every step of the runner keeps the state well typed.
LEMMA NextType == TypeOK /\ [Next]_vars => TypeOK'
<1> SUFFICES ASSUME TypeOK, [Next]_vars PROVE TypeOK'
  OBVIOUS
<1> USE DEF mutexFree
<1>1. ASSUME NEW j \in Jobs, NEW p \in Pipelines, NEW q \in Partitions, NEW b \in Buildability,
             ScheduleAsync(p, j, q, b)
      PROVE  TypeOK'
  <2> DEFINE js  == [job EXCEPT ![j] = newJob(p, q, b)]
             ids == jobsByID \cup {j}
  <2>1. b \in BOOLEAN /\ p \in DOMAIN defs
    BY <1>1, ConstantsAssumption DEF ScheduleAsync
  <2>2. js \in [Jobs -> PipelineJob]
    BY <2>1, NewJobType DEF TypeOK
  <2>3. jobsByID' = ids /\ ids \in SUBSET Jobs
    BY <1>1 DEF ScheduleAsync, TypeOK
  <2>4. UNCHANGED <<defs, result, cancelled, cancelGo, persistLoop, shutdown>>
    BY <1>1 DEF ScheduleAsync
  <2>5. CASE startJob(j, js, ids, calls) /\ UNCHANGED <<waitListByPipeline, timer>>
    <3>1. /\ job' \in [Jobs -> PipelineJob]
          /\ calls' \in Seq(Activation)
          /\ goroutine' \in [Jobs -> goroutineStates]
          /\ persistRequests' \in BOOLEAN
      <4>1. calls \in Seq(Activation)
        BY DEF TypeOK
      <4> QED
        BY <2>2, <2>3, <2>5, <4>1, StartJobType
    <3> QED
      BY <2>3, <2>4, <2>5, <3>1 DEF TypeOK
  <2>6. CASE enqueue(p, j, js)
    <3>1. /\ waitListByPipeline' \in [Pipelines -> Seq(Jobs)]
          /\ job' \in [Jobs -> PipelineJob]
          /\ timer' \in [Jobs -> {"off", "armed", "fired"}]
          /\ persistRequests' \in BOOLEAN
      BY <2>1, <2>2, <2>6, EnqueueType
    <3>2. UNCHANGED <<goroutine, calls>>
      BY <2>6 DEF enqueue
    <3> QED
      BY <2>3, <2>4, <3>1, <3>2 DEF TypeOK
  <2> QED
    BY <1>1, <2>5, <2>6 DEF ScheduleAsync
<1>2. CASE WaitListStart
  <2> DEFINE top   == Head(calls)
             j     == Head(top.todo)
             stack == <<[top EXCEPT !.todo = Tail(@), !.freeSlots = @ - 1]>> \o Tail(calls)
  <2>1. top \in Activation /\ Tail(calls) \in Seq(Activation)
    BY <1>2 DEF WaitListStart, TypeOK
  <2>2. top.todo \in Seq(Jobs) /\ top.todo # <<>>
    BY <1>2, <2>1 DEF WaitListStart, Activation
  <2>3. j \in Jobs /\ Tail(top.todo) \in Seq(Jobs)
    BY <2>2
  <2>4. [top EXCEPT !.todo = Tail(@), !.freeSlots = @ - 1] \in Activation
    <3>1. top.freeSlots - 1 \in Int
      BY <2>1 DEF Activation
    <3>2. \A t \in Seq(Jobs), f \in Int : [top EXCEPT !.todo = t, !.freeSlots = f] \in Activation
      BY <2>1 DEF Activation
    <3> QED
      BY <2>3, <3>1, <3>2
  <2>5. stack \in Seq(Activation)
    BY <2>1, <2>4
  <2>6. startJob(j, job, jobsByID, stack)
    BY <1>2 DEF WaitListStart
  <2>7. /\ job' \in [Jobs -> PipelineJob]
        /\ calls' \in Seq(Activation)
        /\ goroutine' \in [Jobs -> goroutineStates]
        /\ persistRequests' \in BOOLEAN
    <3>1. job \in [Jobs -> PipelineJob] /\ jobsByID \in SUBSET Jobs
      BY DEF TypeOK
    <3> QED
      BY <2>3, <2>5, <2>6, <3>1, StartJobType
  <2> QED
    BY <1>2, <2>7 DEF WaitListStart, TypeOK
<1>3. CASE WaitListKeep
  <2> DEFINE top == Head(calls)
             j   == Head(top.todo)
  <2>1. top \in Activation /\ Tail(calls) \in Seq(Activation)
    BY <1>3 DEF WaitListKeep, TypeOK
  <2>2. top.todo \in Seq(Jobs) /\ top.todo # <<>> /\ top.kept \in Seq(Jobs)
    BY <1>3, <2>1 DEF WaitListKeep, Activation
  <2>3. Append(top.kept, j) \in Seq(Jobs) /\ Tail(top.todo) \in Seq(Jobs)
    BY <2>2
  <2>4. [top EXCEPT !.todo = Tail(@), !.kept = Append(@, j)] \in Activation
    BY <2>1, <2>3 DEF Activation
  <2>5. calls' = <<[top EXCEPT !.todo = Tail(@), !.kept = Append(@, j)]>> \o Tail(calls)
    BY <1>3 DEF WaitListKeep
  <2>6. calls' \in Seq(Activation)
    BY <2>1, <2>4, <2>5
  <2> QED
    BY <1>3, <2>6 DEF WaitListKeep, TypeOK, jobVars, runVars, persistVars
<1>4. CASE WaitListReturn
  <2>1. Head(calls) \in Activation /\ Tail(calls) \in Seq(Activation)
    BY <1>4 DEF WaitListReturn, TypeOK
  <2>2. waitListByPipeline' \in [Pipelines -> Seq(Jobs)]
    BY <1>4, <2>1 DEF WaitListReturn, Activation, TypeOK
  <2> QED
    BY <1>4, <2>1, <2>2 DEF WaitListReturn, TypeOK, runVars, persistVars
<1>5. ASSUME NEW j \in Jobs, TimerFires(j) PROVE TypeOK'
  BY <1>5 DEF TimerFires, TypeOK, jobVars, runVars, persistVars
<1>6. ASSUME NEW j \in Jobs, StartDelayedJob(j) PROVE TypeOK'
  <2>1. job' \in [Jobs -> PipelineJob] /\ calls' \in Seq(Activation)
    <3>1. CASE UNCHANGED <<job, calls>>
      BY <3>1 DEF TypeOK
    <3>2. CASE /\ job' = [job EXCEPT ![j].startTimer = FALSE]
               /\ calls' = startJobsOnWaitList(job[j].Pipeline, job', jobsByID, calls)
      <4>1. [job[j] EXCEPT !.startTimer = FALSE] \in PipelineJob /\ job[j].Pipeline \in Pipelines
        <5>1. job[j] \in PipelineJob
          BY DEF TypeOK
        <5>2. [job[j] EXCEPT !.startTimer = FALSE] \in PipelineJob
          BY <5>1, RecordUpdates
        <5>3. job[j].Pipeline \in Pipelines
          BY <5>1 DEF PipelineJob
        <5> QED
          BY <5>2, <5>3
      <4>2. jobsByID \in SUBSET Jobs /\ calls \in Seq(Activation)
        BY DEF TypeOK
      <4>3. calls' \in Seq(Activation)
        BY <3>2, <4>1, <4>2, StartJobsOnWaitListType
      <4> QED
        BY <3>2, <4>1, <4>3 DEF TypeOK
    <3> QED
      BY <1>6, <3>1, <3>2 DEF StartDelayedJob
  <2> QED
    BY <1>6, <2>1 DEF StartDelayedJob, TypeOK, runVars, persistVars
<1>7. ASSUME NEW j \in Jobs, CancelJob(j) PROVE TypeOK'
  <2>1. cancelJobInternal({j}) /\ persistRequests' \in BOOLEAN
    BY <1>7 DEF CancelJob
  <2> QED
    BY <1>7, <2>1, CancelType DEF CancelJob, TypeOK, runVars
<1>8. ASSUME NEW j \in Jobs, NEW s \in Schedulers, SchedulerCancel(j, s) PROVE TypeOK'
  BY <1>8 DEF SchedulerCancel, TypeOK, jobVars, persistVars
<1>9. ASSUME NEW j \in Jobs, NEW errored \in BOOLEAN, HandleTaskChange(j, errored) PROVE TypeOK'
  <2>1. PICK S : cancelJobInternal(S)
    BY <1>9 DEF HandleTaskChange
  <2> QED
    BY <1>9, <2>1, CancelType DEF HandleTaskChange, TypeOK, runVars
<1>10. ASSUME NEW j \in Jobs, NEW err \in {"nil", "failed", "canceled"}, ScheduleReturns(j, err)
       PROVE  TypeOK'
  BY <1>10 DEF ScheduleReturns, TypeOK, Errors, goroutineStates, jobVars, persistVars
<1>11. ASSUME NEW j \in Jobs, buildErrorGraph(j) PROVE TypeOK'
  BY <1>11 DEF buildErrorGraph, TypeOK, goroutineStates, jobVars, persistVars
<1>12. ASSUME NEW j \in Jobs, initErrorScheduler(j) PROVE TypeOK'
  <2>1. [job[j] EXCEPT !.sched = "error"] \in PipelineJob
    BY RecordUpdates DEF TypeOK
  <2> QED
    BY <1>12, <2>1 DEF initErrorScheduler, TypeOK, goroutineStates, persistVars
<1>13. ASSUME NEW j \in Jobs, ErrorGraphReturns(j) PROVE TypeOK'
  BY <1>13 DEF ErrorGraphReturns, TypeOK, goroutineStates, jobVars, persistVars
<1>14. ASSUME NEW j \in Jobs, JobCompleted(j) PROVE TypeOK'
  <2> DEFINE rec == [job[j] EXCEPT !.sched = "nil", !.Completed = TRUE, !.LastError = result[j],
                                   !.Canceled = @ \/ result[j] = "canceled"]
  <2>1. rec \in PipelineJob /\ job[j].Pipeline \in Pipelines
    <3>1. job[j] \in PipelineJob /\ result[j] \in Errors
      BY DEF TypeOK
    <3>2. rec \in PipelineJob
      BY <3>1, RecordUpdates
    <3>3. job[j].Pipeline \in Pipelines
      BY <3>1 DEF PipelineJob
    <3> QED
      BY <3>2, <3>3
  <2>2. job' = [job EXCEPT ![j] = rec]
    BY <1>14 DEF JobCompleted, TypeOK
  <2>3. calls' = startJobsOnWaitList(job[j].Pipeline, job', jobsByID, calls)
    BY <1>14 DEF JobCompleted
  <2>4. calls' \in Seq(Activation)
    <3>1. jobsByID \in SUBSET Jobs /\ calls \in Seq(Activation)
      BY DEF TypeOK
    <3> QED
      BY <2>1, <2>3, <3>1, StartJobsOnWaitListType
  <2>5. job' \in [Jobs -> PipelineJob]
    BY <2>1, <2>2 DEF TypeOK
  <2> QED
    BY <1>14, <2>4, <2>5 DEF JobCompleted, TypeOK, goroutineStates, Errors
<1>15. ASSUME NEW D \in ReloadDefs, ReplaceDefinitions(D) PROVE TypeOK'
  <2>1. PipelinesDef(defs)'
    BY <1>15, ConstantsAssumption DEF ReplaceDefinitions, PipelinesDef
  <2> QED
    BY <1>15, <2>1 DEF ReplaceDefinitions, TypeOK, jobVars, runVars, persistVars
<1>16. CASE PersistLoop
  BY <1>16 DEF PersistLoop, PersistRequested, SaveToStore, PersistLoopStops, removeExpiredJobs,
               TypeOK, jobVars, runVars, persistVars
<1>17. CASE Signal
  BY <1>17 DEF Signal, TypeOK, shutdownStates, jobVars, runVars, persistVars
<1>18. CASE ShutdownBegins
  <2>1. \A k \in Jobs : [job[k] EXCEPT !.Canceled = TRUE] \in PipelineJob
    BY RecordUpdates DEF TypeOK
  <2>2. job' \in [Jobs -> PipelineJob] /\ waitListByPipeline' \in [Pipelines -> Seq(Jobs)]
    BY <1>18, <2>1 DEF ShutdownBegins, TypeOK
  <2> QED
    BY <1>18, <2>2 DEF ShutdownBegins, TypeOK, shutdownStates, runVars, persistVars
<1>19. CASE ShutdownPolls \/ ShutdownWakes \/ ShutdownEnds
  BY <1>19 DEF ShutdownPolls, ShutdownWakes, ShutdownEnds, removeExpiredJobs,
               TypeOK, shutdownStates, jobVars, runVars, persistVars
<1>20. CASE ShutdownForced
  <2>1. cancelJobInternal(jobsByID) /\ persistRequests' \in BOOLEAN
    BY <1>20 DEF ShutdownForced
  <2> QED
    BY <1>20, <2>1, CancelType DEF ShutdownForced, TypeOK, shutdownStates, runVars
<1>21. CASE UNCHANGED vars
  BY <1>21 DEF vars, TypeOK, jobVars, runVars, persistVars
<1> QED
  BY <1>1, <1>2, <1>3, <1>4, <1>5, <1>6, <1>7, <1>8, <1>9, <1>10, <1>11, <1>12, <1>13, <1>14,
     <1>15, <1>16, <1>17, <1>18, <1>19, <1>20, <1>21
  DEF Next, WaitListLoop, JobGoroutine, StartTimer, Shutdown, Terminated

\* In every state of the runner every variable has its type (TypeOK).
THEOREM TypeCorrect == Spec => []TypeOK
<1> QED
  BY InitType, NextType, PTL DEF Spec

-----------------------------------------------------------------------------
(***************************************************************************)
(* Changes of a job record.                                                *)
(***************************************************************************)

\* What no handler changes in the record of an existing job.
sameJob(a, b) ==
  /\ a.Pipeline = b.Pipeline /\ a.queuePartition = b.queuePartition
  /\ a.buildable = b.buildable /\ a.Created = b.Created

\* A step that starts no job and takes back no cancellation.
JobsStep ==
  \A k \in Jobs :
    /\ sameJob(job'[k], job[k])
    /\ job'[k].Start = job[k].Start
    /\ job'[k].Completed => job[k].Start
    /\ job[k].Canceled => job'[k].Canceled

\* The fields of an updated PipelineJob.
LEMMA RecordFields ==
  ASSUME NEW r \in PipelineJob
  PROVE  /\ LET u == [r EXCEPT !.sched = "main", !.Start = TRUE]
            IN  sameJob(u, r) /\ u.Start /\ u.Completed = r.Completed /\ u.Canceled = r.Canceled
         /\ LET u == [r EXCEPT !.sched = "error"]
            IN  sameJob(u, r) /\ u.Start = r.Start /\ u.Completed = r.Completed
                /\ u.Canceled = r.Canceled
         /\ LET u == [r EXCEPT !.startTimer = FALSE]
            IN  sameJob(u, r) /\ u.Start = r.Start /\ u.Completed = r.Completed
                /\ u.Canceled = r.Canceled
         /\ LET u == [r EXCEPT !.Canceled = TRUE]
            IN  sameJob(u, r) /\ u.Start = r.Start /\ u.Completed = r.Completed /\ u.Canceled
         /\ LET u == [r EXCEPT !.Canceled = TRUE, !.startTimer = FALSE]
            IN  sameJob(u, r) /\ u.Start = r.Start /\ u.Completed = r.Completed /\ u.Canceled
  BY DEF PipelineJob, sameJob

\* A queue is a sequence of jobs.
LEMMA QueueType ==
  ASSUME TypeOK
  PROVE  \A p \in Pipelines : queue(p) \in Seq(Jobs)
<1> TAKE p \in Pipelines
<1>1. CASE ~mutexFree /\ Head(calls).pipeline = p
  <2>1. calls \in Seq(Activation) /\ calls # <<>>
    BY <1>1 DEF TypeOK, mutexFree
  <2>2. Head(calls) \in Activation
    BY <2>1
  <2>3. Head(calls).kept \in Seq(Jobs) /\ Head(calls).todo \in Seq(Jobs)
    BY <2>2 DEF Activation
  <2> QED
    BY <1>1, <2>3 DEF queue
<1>2. CASE ~(~mutexFree /\ Head(calls).pipeline = p)
  BY <1>2 DEF queue, TypeOK
<1> QED
  BY <1>1, <1>2

\* If the queues stay as they are and no job is started, the queues stay right.
LEMMA QueuesKept ==
  ASSUME RunnerInv, TypeOK', JobsStep, \A p \in Pipelines : queue(p)' = queue(p)
  PROVE  QueuesOK' /\ QueuesComplete'
<1> USE DEF RunnerInv
<1>1. \A p \in Pipelines : queue(p) \in Seq(Jobs)
  BY QueueType
<1>2. QueuesOK'
  <2> SUFFICES ASSUME NEW p \in Pipelines
               PROVE  /\ distinct(queue(p)')
                      /\ \A i \in DOMAIN queue(p)' :
                           /\ created(job'[queue(p)'[i]])
                           /\ job'[queue(p)'[i]].Pipeline = p
                           /\ ~job'[queue(p)'[i]].Start
    BY DEF QueuesOK, distinct
  <2>1. distinct(queue(p)')
    BY DEF QueuesOK
  <2>2. ASSUME NEW i \in DOMAIN queue(p)
        PROVE  /\ created(job'[queue(p)[i]])
               /\ job'[queue(p)[i]].Pipeline = p
               /\ ~job'[queue(p)[i]].Start
    <3>1. queue(p)[i] \in Jobs
      BY <1>1
    <3> QED
      BY <3>1 DEF JobsStep, sameJob, QueuesOK, created
  <2> QED
    BY <2>1, <2>2
<1>3. QueuesComplete'
  <2> SUFFICES ASSUME NEW j \in Jobs, NEW p \in Pipelines, waits(j)', job'[j].Pipeline = p
               PROVE  \E i \in DOMAIN queue(p)' : queue(p)'[i] = j
    BY DEF QueuesComplete
  <2>1. waits(j) /\ job[j].Pipeline = p
    BY DEF waits, JobsStep, sameJob, created
  <2> QED
    BY <2>1 DEF QueuesComplete
<1> QED
  BY <1>2, <1>3

\* Sets of jobs are finite.
LEMMA JobSetsFinite ==
  ASSUME NEW S \in SUBSET Jobs
  PROVE  IsFiniteSet(S) /\ Cardinality(S) \in Nat
<1>1. IsFiniteSet(S)
  BY ConstantsAssumption, FS_Subset
<1> QED
  BY <1>1, FS_CardinalityType

(***************************************************************************)
(* A handler that calls startJobsOnWaitList last: the new activation holds *)
(* the queue as it is, and the free slots it found are free.               *)
(***************************************************************************)
LEMMA ActivationOK ==
  ASSUME RunnerInv, TypeOK', CountsWhatRuns', mutexFree, NEW p \in Pipelines,
         calls' = startJobsOnWaitList(p, job', jobsByID, calls),
         UNCHANGED <<defs, jobsByID, waitListByPipeline>>
  PROVE  SlotsOK' /\ \A r \in Pipelines : queue(r)' = queue(r)
<1> DEFINE free == freeSlots(p, job', jobsByID)
           act  == [ pipeline  |-> p,
                     todo      |-> waitListByPipeline[p],
                     kept      |-> <<>>,
                     freeSlots |-> free ]
<1>1. calls = <<>> /\ \A r \in Pipelines : queue(r) = waitListByPipeline[r]
  BY DEF mutexFree, queue
<1>2. free \in Int /\ concurrency(p)' = concurrency(p) /\ concurrency(p) \in Int
  <2>1. free \in Int
    BY FreeSlotsType DEF RunnerInv, TypeOK
  <2>2. concurrency(p) \in Int
    BY DEF RunnerInv, TypeOK, PipelinesDef, PipelineDef, concurrency
  <2> QED
    BY <2>1, <2>2 DEF concurrency
<1>3. CASE free <= 0
  <2>1. calls' = <<>>
    BY <1>1, <1>3 DEF startJobsOnWaitList
  <2> QED
    BY <1>1, <2>1 DEF SlotsOK, mutexFree, queue
<1>4. CASE ~(free <= 0)
  <2>1. calls' = <<act>>
    <3>1. calls' = <<act>> \o <<>>
      BY <1>1, <1>4 DEF startJobsOnWaitList
    <3> QED
      BY <3>1
  <2>2. calls' # <<>> /\ Len(calls') = 1 /\ Head(calls') = act
    BY <2>1
  <2>3. \A r \in Pipelines : queue(r)' = queue(r)
    <3> TAKE r \in Pipelines
    <3>1. CASE r = p
      <4>1. waitListByPipeline[p] \in Seq(Jobs)
        BY DEF RunnerInv, TypeOK
      <4>2. <<>> \o waitListByPipeline[p] = waitListByPipeline[p]
        BY <4>1
      <4>3. act.kept = <<>> /\ act.todo = waitListByPipeline[p] /\ act.pipeline = p
        OBVIOUS
      <4>4. queue(r)' = act.kept \o act.todo
        BY <2>2, <3>1, <4>3 DEF queue, mutexFree
      <4> QED
        BY <1>1, <3>1, <4>2, <4>3, <4>4
    <3>2. CASE r # p
      BY <1>1, <2>2, <3>2 DEF queue, mutexFree
    <3> QED
      BY <3>1, <3>2
  <2>4. executing(p)' = runningJobs(p, job', jobsByID)
    <3>1. jobsByID \subseteq Jobs /\ jobsByID' = jobsByID
      BY DEF RunnerInv, TypeOK
    <3> QED
      BY <3>1 DEF executing, runningJobs, CountsWhatRuns, alive
  <2>5. Cardinality(executing(p)') \in Nat
    BY JobSetsFinite DEF executing
  <2>6. Cardinality(executing(p)') + free = concurrency(p)
    BY <1>2, <2>4, <2>5 DEF freeSlots
  <2>7. act.freeSlots = free /\ act.pipeline = p
    OBVIOUS
  <2>8. SlotsOK'
    BY <1>2, <1>4, <2>2, <2>5, <2>6, <2>7 DEF SlotsOK
  <2> QED
    BY <2>3, <2>8
<1> QED
  BY <1>3, <1>4

(***************************************************************************)
(* A handler that leaves the wait lists alone, whether it looks at them or *)
(* not, keeps the invariant if it keeps the flags right.                   *)
(***************************************************************************)
KnownKept == jobsByID' \subseteq jobsByID /\ \A k \in jobsByID : waits(k) => k \in jobsByID'

LEMMA FlagsKept ==
  ASSUME RunnerInv, JobsStep, KnownKept
  PROVE  FlagsOK'
<1> SUFFICES ASSUME NEW j \in Jobs
             PROVE  /\ job'[j].buildable
                    /\ job'[j].Completed => job'[j].Start
                    /\ j \in jobsByID' => created(job'[j])
                    /\ waits(j)' => j \in jobsByID'
  BY DEF FlagsOK
<1>1. waits(j)' => waits(j)
  BY DEF waits, JobsStep, sameJob, created
<1> QED
  BY <1>1 DEF RunnerInv, FlagsOK, JobsStep, sameJob, created, KnownKept

LEMMA QuietStep ==
  ASSUME RunnerInv, TypeOK', mutexFree, UNCHANGED <<waitListByPipeline, calls>>,
         DefinitionsOK', CountsWhatRuns', JobsStep, KnownKept
  PROVE  RunnerInv'
<1>1. \A p \in Pipelines : queue(p)' = queue(p)
  BY DEF queue, mutexFree
<1>2. QueuesOK' /\ QueuesComplete'
  BY <1>1, QueuesKept
<1>3. SlotsOK'
  BY DEF SlotsOK, mutexFree
<1>4. FlagsOK'
  BY FlagsKept
<1> QED
  BY <1>2, <1>3, <1>4 DEF RunnerInv

-----------------------------------------------------------------------------
(***************************************************************************)
(* What the queue strategies do to a wait list of different jobs.          *)
(***************************************************************************)

\* RemoveAt, position by position.
LEMMA RemoveAtPositions ==
  ASSUME NEW T, NEW s \in Seq(T), NEW i \in 1 .. Len(s)
  PROVE  /\ RemoveAt(s, i) \in Seq(T)
         /\ Len(RemoveAt(s, i)) = Len(s) - 1
         /\ \A k \in 1 .. Len(s) - 1 : RemoveAt(s, i)[k] = IF k < i THEN s[k] ELSE s[k + 1]
<1> DEFINE a == SubSeq(s, 1, i - 1)
           b == SubSeq(s, i + 1, Len(s))
<1>1. /\ a \in Seq(T) /\ Len(a) = i - 1 /\ \A k \in 1 .. i - 1 : a[k] = s[k]
  BY SubSeqProperties
<1>2. /\ b \in Seq(T) /\ Len(b) = Len(s) - i /\ \A k \in 1 .. Len(s) - i : b[k] = s[k + i]
  BY SubSeqProperties
<1>3. RemoveAt(s, i) = a \o b
  BY DEF RemoveAt
<1>4. Len(s) \in Nat /\ i \in Nat /\ 1 <= i /\ i <= Len(s)
  OBVIOUS
<1> DEFINE c == a \o b
<1> HIDE DEF a, b
<1>5. /\ c \in Seq(T)
      /\ Len(c) = Len(a) + Len(b)
      /\ \A k \in 1 .. Len(a) + Len(b) : c[k] = IF k <= Len(a) THEN a[k] ELSE b[k - Len(a)]
  BY <1>1, <1>2, ConcatProperties
<1> HIDE DEF c
<1>6. ASSUME NEW k \in 1 .. Len(s) - 1
      PROVE  c[k] = IF k < i THEN s[k] ELSE s[k + 1]
  <2>1. k \in 1 .. Len(a) + Len(b) /\ (k <= Len(a) <=> k < i)
    BY <1>1, <1>2, <1>4
  <2>2. CASE k < i
    BY <1>1, <1>5, <2>1, <2>2
  <2>3. CASE ~(k < i)
    <3>1. c[k] = b[k - Len(a)]
      BY <1>5, <2>1, <2>3
    <3>2. k - Len(a) \in 1 .. Len(s) - i /\ (k - Len(a)) + i = k + 1
      BY <1>1, <1>4, <2>3
    <3>3. b[k - Len(a)] = s[k + 1]
      BY <1>2, <3>2
    <3> QED
      BY <2>3, <3>1, <3>3
  <2> QED
    BY <2>2, <2>3
<1>7. Len(c) = Len(s) - 1
  BY <1>1, <1>2, <1>4, <1>5
<1> QED
  BY <1>3, <1>5, <1>6, <1>7 DEF c

\* Taking out one position of a sequence of different elements.
LEMMA RemoveAtDistinct ==
  ASSUME NEW T, NEW s \in Seq(T), NEW i \in 1 .. Len(s), distinct(s)
  PROVE  LET r == RemoveAt(s, i)
         IN  /\ distinct(r)
             /\ \A k \in DOMAIN r : r[k] # s[i] /\ \E m \in DOMAIN s : r[k] = s[m]
             /\ \A m \in DOMAIN s : m # i => \E k \in DOMAIN r : r[k] = s[m]
<1> DEFINE r == RemoveAt(s, i)
<1>1. /\ r \in Seq(T) /\ Len(r) = Len(s) - 1
      /\ \A k \in 1 .. Len(s) - 1 : r[k] = IF k < i THEN s[k] ELSE s[k + 1]
  <2> HIDE DEF r
  <2> QED
    BY RemoveAtPositions DEF r
<1> HIDE DEF r
<1>2. DOMAIN r = 1 .. Len(s) - 1 /\ DOMAIN s = 1 .. Len(s) /\ Len(s) \in Nat
  BY <1>1
<1>3. ASSUME NEW k \in DOMAIN r, NEW m \in DOMAIN r, r[k] = r[m] PROVE k = m
  <2> DEFINE at(x) == IF x < i THEN x ELSE x + 1
  <2>1. at(k) \in DOMAIN s /\ at(m) \in DOMAIN s /\ r[k] = s[at(k)] /\ r[m] = s[at(m)]
    BY <1>1, <1>2
  <2>2. at(k) = at(m)
    BY <1>3, <2>1 DEF distinct
  <2> QED
    BY <1>2, <2>2
<1>4. ASSUME NEW k \in DOMAIN r PROVE r[k] # s[i] /\ \E m \in DOMAIN s : r[k] = s[m]
  <2>1. CASE k < i
    <3>1. k \in DOMAIN s /\ r[k] = s[k] /\ k # i /\ i \in DOMAIN s
      BY <1>1, <1>2, <2>1
    <3> QED
      BY <3>1 DEF distinct
  <2>2. CASE ~(k < i)
    <3>1. k + 1 \in DOMAIN s /\ r[k] = s[k + 1] /\ k + 1 # i /\ i \in DOMAIN s
      BY <1>1, <1>2, <2>2
    <3> QED
      BY <3>1 DEF distinct
  <2> QED
    BY <2>1, <2>2
<1>5. ASSUME NEW m \in DOMAIN s, m # i PROVE \E k \in DOMAIN r : r[k] = s[m]
  <2>1. CASE m < i
    BY <1>1, <1>2, <2>1
  <2>2. CASE m > i
    <3>1. m - 1 \in DOMAIN r /\ r[m - 1] = s[m]
      BY <1>1, <1>2, <2>2
    <3> QED
      BY <3>1
  <2> QED
    BY <1>2, <1>5, <2>1, <2>2
<1> QED
  BY <1>3, <1>4, <1>5 DEF r, distinct

\* Appending a new element to a sequence of different elements.
LEMMA AppendDistinct ==
  ASSUME NEW T, NEW s \in Seq(T), NEW e \in T, distinct(s), \A i \in DOMAIN s : s[i] # e
  PROVE  LET r == Append(s, e)
         IN  /\ distinct(r)
             /\ \A k \in DOMAIN r : r[k] = e \/ \E m \in DOMAIN s : r[k] = s[m]
             /\ \A m \in DOMAIN s : \E k \in DOMAIN r : r[k] = s[m]
             /\ \E k \in DOMAIN r : r[k] = e
<1> DEFINE r == Append(s, e)
           n == Len(s)
<1>1. /\ n \in Nat /\ DOMAIN s = 1 .. n /\ DOMAIN r = 1 .. n + 1
      /\ r[n + 1] = e /\ \A k \in 1 .. n : r[k] = s[k]
  BY AppendProperties
<1> HIDE DEF r, n
<1>2. distinct(r)
  BY <1>1 DEF distinct
<1>3. ASSUME NEW k \in DOMAIN r PROVE r[k] = e \/ \E m \in DOMAIN s : r[k] = s[m]
  <2>1. k = n + 1 \/ k \in 1 .. n
    BY <1>1
  <2> QED
    BY <1>1, <2>1
<1>4. \A m \in DOMAIN s : \E k \in DOMAIN r : r[k] = s[m]
  BY <1>1
<1>5. \E k \in DOMAIN r : r[k] = e
  <2>1. n + 1 \in DOMAIN r
    BY <1>1
  <2> QED
    BY <1>1, <2>1
<1> QED
  BY <1>2, <1>3, <1>4, <1>5 DEF r

(***************************************************************************)
(* modifyWaitList adds the new job, keeps every other job but the replaced *)
(* one, and brings in no job twice.                                        *)
(***************************************************************************)
LEMMA ModifyWaitListElements ==
  ASSUME NEW def \in PipelineDef, validate(def), ~modifyPanics(def),
         NEW wl \in Seq(Jobs), NEW partitionOf, NEW j \in Jobs,
         distinct(wl), \A i \in DOMAIN wl : wl[i] # j
  PROVE  LET nl == modifyWaitList(def, wl, partitionOf, j)
         IN  /\ distinct(nl)
             /\ \A k \in DOMAIN nl : nl[k] = j \/ \E m \in DOMAIN wl : nl[k] = wl[m]
             /\ \A m \in DOMAIN wl :
                  \/ \E k \in DOMAIN nl : nl[k] = wl[m]
                  \/ wl[m] \in replacedJobs(def, wl, partitionOf, j)
             /\ \E k \in DOMAIN nl : nl[k] = j
<1> DEFINE slot == replacedSlot(def, wl, partitionOf, j)
           nl   == modifyWaitList(def, wl, partitionOf, j)
<1>1. slot \in 0 .. Len(wl) /\ Len(wl) \in Nat /\ DOMAIN wl = 1 .. Len(wl)
  BY ReplacedSlotType
<1>2. CASE slot = 0
  <2>1. nl = Append(wl, j)
    BY <1>2 DEF modifyWaitList
  <2> QED
    BY <2>1, AppendDistinct
<1>3. CASE slot # 0 /\ def.QueueStrategy = "replace"
  <2>1. nl = [wl EXCEPT ![slot] = j]
    BY <1>3 DEF modifyWaitList, ReplaceAt
  <2>2. slot \in DOMAIN wl
    BY <1>1, <1>3
  <2>3. DOMAIN nl = DOMAIN wl /\ nl[slot] = j /\ \A m \in DOMAIN wl : m # slot => nl[m] = wl[m]
    BY <2>1, <2>2
  <2>4. wl[slot] \in replacedJobs(def, wl, partitionOf, j)
    BY <1>3 DEF replacedJobs
  <2> HIDE DEF nl, slot
  <2>5. distinct(nl)
    BY <2>2, <2>3 DEF distinct
  <2>6. \A k \in DOMAIN nl : nl[k] = j \/ \E m \in DOMAIN wl : nl[k] = wl[m]
    BY <2>2, <2>3
  <2>7. \A m \in DOMAIN wl : (\E k \in DOMAIN nl : nl[k] = wl[m])
                               \/ wl[m] \in replacedJobs(def, wl, partitionOf, j)
    BY <2>2, <2>3, <2>4
  <2>8. \E k \in DOMAIN nl : nl[k] = j
    BY <2>2, <2>3
  <2> QED
    BY <2>5, <2>6, <2>7, <2>8 DEF nl
<1>4. CASE slot # 0 /\ def.QueueStrategy # "replace"
  <2> DEFINE r == RemoveAt(wl, slot)
  <2>1. nl = Append(r, j)
    BY <1>4 DEF modifyWaitList
  <2>2. slot \in 1 .. Len(wl)
    BY <1>1, <1>4
  <2>3. /\ r \in Seq(Jobs)
        /\ distinct(r)
        /\ \A k \in DOMAIN r : \E m \in DOMAIN wl : r[k] = wl[m]
        /\ \A m \in DOMAIN wl : m # slot => \E k \in DOMAIN r : r[k] = wl[m]
    BY <2>2, RemoveAtDistinct, RemoveAtType
  <2>4. wl[slot] \in replacedJobs(def, wl, partitionOf, j)
    BY <1>4 DEF replacedJobs
  <2> HIDE DEF nl, slot, r
  <2>5. \A k \in DOMAIN r : r[k] # j
    BY <2>3
  <2>6. /\ distinct(Append(r, j))
        /\ \A k \in DOMAIN Append(r, j) :
             Append(r, j)[k] = j \/ \E m \in DOMAIN r : Append(r, j)[k] = r[m]
        /\ \A m \in DOMAIN r : \E k \in DOMAIN Append(r, j) : Append(r, j)[k] = r[m]
        /\ \E k \in DOMAIN Append(r, j) : Append(r, j)[k] = j
    BY <2>3, <2>5, AppendDistinct
  <2>7. /\ distinct(nl)
        /\ \A k \in DOMAIN nl : nl[k] = j \/ \E m \in DOMAIN r : nl[k] = r[m]
        /\ \A m \in DOMAIN r : \E k \in DOMAIN nl : nl[k] = r[m]
        /\ \E k \in DOMAIN nl : nl[k] = j
    BY <2>1, <2>6
  <2>8. \A k \in DOMAIN nl : nl[k] = j \/ \E m \in DOMAIN wl : nl[k] = wl[m]
    BY <2>3, <2>7
  <2>9. \A m \in DOMAIN wl : (\E k \in DOMAIN nl : nl[k] = wl[m])
                               \/ wl[m] \in replacedJobs(def, wl, partitionOf, j)
    BY <2>3, <2>4, <2>7
  <2> QED
    BY <2>7, <2>8, <2>9 DEF nl
<1> QED
  BY <1>2, <1>3, <1>4

-----------------------------------------------------------------------------
(***************************************************************************)
(* The loop of startJobsOnWaitList.                                        *)
(***************************************************************************)

\* A sequence of one element has an empty tail.
LEMMA SingleTail ==
  ASSUME NEW T, NEW s \in Seq(T), Len(s) = 1
  PROVE  s # <<>> /\ Head(s) \in T /\ Tail(s) = <<>>
<1>1. s # <<>>
  BY EmptySeq
<1>2. Head(s) \in T /\ Tail(s) \in Seq(T) /\ Len(Tail(s)) = 0
  BY <1>1, HeadTailProperties
<1> QED
  BY <1>1, <1>2, EmptySeq

\* The loop takes the head of t: s and t joined, then less the head.
LEMMA TakeHead ==
  ASSUME NEW T, NEW s \in Seq(T), NEW t \in Seq(T), t # <<>>
  PROVE  /\ Append(s, Head(t)) \o Tail(t) = s \o t
         /\ Len(s) + 1 \in 1 .. Len(s \o t)
         /\ (s \o t)[Len(s) + 1] = Head(t)
         /\ RemoveAt(s \o t, Len(s) + 1) = s \o Tail(t)
<1> DEFINE h == Head(t)
           u == Tail(t)
           c == s \o t
           a == Append(s, h)
           d == a \o u
           e == s \o u
<1>1. /\ h \in T /\ u \in Seq(T) /\ Len(u) = Len(t) - 1 /\ Len(t) \in Nat \ {0} /\ Len(s) \in Nat
      /\ h = t[1] /\ \A i \in 1 .. Len(u) : u[i] = t[i + 1]
  BY HeadTailProperties, EmptySeq
<1>2. /\ c \in Seq(T) /\ Len(c) = Len(s) + Len(t)
      /\ \A i \in 1 .. Len(s) + Len(t) : c[i] = IF i <= Len(s) THEN s[i] ELSE t[i - Len(s)]
  BY ConcatProperties
<1> HIDE DEF h, u, c
<1>3. /\ a \in Seq(T) /\ Len(a) = Len(s) + 1
      /\ \A i \in 1 .. Len(s) : a[i] = s[i]
      /\ a[Len(s) + 1] = h
  BY <1>1, AppendProperties
<1> HIDE DEF a
<1>4. /\ d \in Seq(T) /\ Len(d) = Len(a) + Len(u)
      /\ \A i \in 1 .. Len(a) + Len(u) : d[i] = IF i <= Len(a) THEN a[i] ELSE u[i - Len(a)]
  BY <1>1, <1>3, ConcatProperties
<1>5. /\ e \in Seq(T) /\ Len(e) = Len(s) + Len(u)
      /\ \A i \in 1 .. Len(s) + Len(u) : e[i] = IF i <= Len(s) THEN s[i] ELSE u[i - Len(s)]
  BY <1>1, ConcatProperties
<1> HIDE DEF d, e
<1>6. Len(s) + 1 \in 1 .. Len(c) /\ c[Len(s) + 1] = h
  <2>1. Len(s) + 1 \in 1 .. Len(s) + Len(t) /\ Len(s) + 1 - Len(s) = 1 /\ ~(Len(s) + 1 <= Len(s))
    BY <1>1
  <2>2. c[Len(s) + 1] = t[Len(s) + 1 - Len(s)]
    BY <1>2, <2>1
  <2> QED
    BY <1>1, <1>2, <2>1, <2>2
<1>7. d = c
  <2>1. Len(d) = Len(c)
    BY <1>1, <1>2, <1>3, <1>4
  <2>2. ASSUME NEW i \in 1 .. Len(d) PROVE d[i] = c[i]
    <3>1. CASE i <= Len(s)
      <4>1. /\ i \in 1 .. Len(s) + Len(t) /\ i \in 1 .. Len(a) + Len(u) /\ i \in 1 .. Len(s)
            /\ i <= Len(a)
        BY <1>1, <1>3, <1>4, <3>1
      <4>2. c[i] = s[i] /\ d[i] = a[i] /\ a[i] = s[i]
        BY <1>2, <1>3, <1>4, <3>1, <4>1
      <4> QED
        BY <4>2
    <3>2. CASE i = Len(s) + 1
      BY <1>1, <1>3, <1>4, <1>6, <3>2
    <3>3. CASE i > Len(s) + 1
      <4>1. i - Len(a) \in 1 .. Len(u) /\ (i - Len(a)) + 1 = i - Len(s)
        BY <1>1, <1>3, <1>4, <3>3
      <4>2. d[i] = u[i - Len(a)] /\ c[i] = t[i - Len(s)]
        BY <1>1, <1>2, <1>3, <1>4, <3>3
      <4> QED
        BY <1>1, <4>1, <4>2
    <3> QED
      BY <1>1, <1>4, <3>1, <3>2, <3>3
  <2> QED
    BY <1>2, <1>4, <2>1, <2>2, SeqEqual
<1>8. RemoveAt(c, Len(s) + 1) = e
  <2> DEFINE r == RemoveAt(c, Len(s) + 1)
  <2>1. /\ r \in Seq(T) /\ Len(r) = Len(c) - 1
        /\ \A k \in 1 .. Len(c) - 1 : r[k] = IF k < Len(s) + 1 THEN c[k] ELSE c[k + 1]
    <3> HIDE DEF r
    <3> QED
      BY <1>2, <1>6, RemoveAtPositions DEF r
  <2> HIDE DEF r
  <2>2. Len(r) = Len(e)
    BY <1>1, <1>2, <1>5, <2>1
  <2>3. ASSUME NEW k \in 1 .. Len(r) PROVE r[k] = e[k]
    <3>1. CASE k <= Len(s)
      <4>1. /\ k \in 1 .. Len(s) + Len(t) /\ k \in 1 .. Len(s) + Len(u) /\ k \in 1 .. Len(c) - 1
            /\ k < Len(s) + 1
        BY <1>1, <1>2, <2>1, <3>1
      <4>2. c[k] = s[k] /\ e[k] = s[k] /\ r[k] = c[k]
        BY <1>2, <1>5, <2>1, <3>1, <4>1
      <4> QED
        BY <4>2
    <3>2. CASE k > Len(s)
      <4>1. r[k] = c[k + 1] /\ e[k] = u[k - Len(s)]
        BY <1>1, <1>2, <1>5, <2>1, <3>2
      <4>2. k - Len(s) \in 1 .. Len(u) /\ (k - Len(s)) + 1 = (k + 1) - Len(s)
        BY <1>1, <1>2, <2>1, <3>2
      <4>3. c[k + 1] = t[(k + 1) - Len(s)]
        BY <1>1, <1>2, <2>1, <3>2
      <4> QED
        BY <1>1, <4>1, <4>2, <4>3
    <3> QED
      BY <1>1, <2>1, <3>1, <3>2
  <2> QED
    BY <1>5, <2>1, <2>2, <2>3, SeqEqual DEF r
<1> QED
  BY <1>6, <1>7, <1>8 DEF a, c, d, e, h, u

\* The only activation, while the loop runs.
LEMMA LoopState ==
  ASSUME RunnerInv, ~mutexFree
  PROVE  LET top == Head(calls)
         IN  /\ top \in Activation /\ top.pipeline \in Pipelines /\ top.freeSlots \in Int
             /\ top.kept \in Seq(Jobs) /\ top.todo \in Seq(Jobs)
             /\ Tail(calls) = <<>>
             /\ \A p \in Pipelines :
                  queue(p) = IF top.pipeline = p THEN top.kept \o top.todo
                             ELSE waitListByPipeline[p]
<1>1. calls \in Seq(Activation) /\ calls # <<>> /\ Len(calls) = 1
  BY DEF RunnerInv, TypeOK, SlotsOK, mutexFree
<1>2. Head(calls) \in Activation /\ Tail(calls) = <<>>
  BY <1>1, SingleTail
<1>3. /\ Head(calls).pipeline \in Pipelines /\ Head(calls).freeSlots \in Int
      /\ Head(calls).kept \in Seq(Jobs) /\ Head(calls).todo \in Seq(Jobs)
  BY <1>2 DEF Activation
<1> QED
  BY <1>2, <1>3 DEF queue

\* A step after which no more jobs are executing than before.
LEMMA NoStart ==
  ASSUME JobsStep, \A k \in Jobs : alive(k)' => alive(k)
  PROVE  WithinLimit
<1>1. \A p \in Pipelines : executing(p)' \subseteq executing(p)
  BY DEF JobsStep, sameJob, executing
<1> QED
  BY <1>1 DEF WithinLimit

\* A step of the loop that starts nothing leaves queues and jobs as they are.
LEMMA LoopIdle ==
  ASSUME RunnerInv, TypeOK', SlotsOK', UNCHANGED <<defs, jobsByID, job, goroutine>>,
         \A p \in Pipelines : queue(p)' = queue(p)
  PROVE  RunnerInv' /\ WithinLimit
<1>1. JobsStep
  BY DEF JobsStep, sameJob, RunnerInv, FlagsOK
<1>2. QueuesOK' /\ QueuesComplete'
  BY <1>1, QueuesKept
<1>3. DefinitionsOK' /\ CountsWhatRuns' /\ FlagsOK'
  BY DEF RunnerInv, DefinitionsOK, CountsWhatRuns, FlagsOK, alive, waits
<1>4. WithinLimit
  BY <1>1, NoStart DEF alive
<1> QED
  BY <1>2, <1>3, <1>4 DEF RunnerInv

\* WaitListKeep moves the head of the copy of the list to the new list.
LEMMA KeepMove ==
  ASSUME RunnerInv, WaitListKeep
  PROVE  LET top == Head(calls)
         IN  /\ ~mutexFree /\ top.todo # <<>> /\ calls' # <<>> /\ Len(calls') = 1
             /\ Head(calls').todo = Tail(top.todo)
             /\ Head(calls').kept = Append(top.kept, Head(top.todo))
             /\ Head(calls').pipeline = top.pipeline
             /\ Head(calls').freeSlots = top.freeSlots
             /\ \A p \in Pipelines : queue(p)' = queue(p)
<1> DEFINE top == Head(calls)
           j   == Head(top.todo)
           new == [top EXCEPT !.todo = Tail(@), !.kept = Append(@, j)]
<1>1. ~mutexFree /\ top.todo # <<>>
  BY DEF WaitListKeep
<1>2. /\ top \in Activation /\ top.kept \in Seq(Jobs) /\ top.todo \in Seq(Jobs)
      /\ Tail(calls) = <<>>
      /\ \A p \in Pipelines : queue(p) = IF top.pipeline = p THEN top.kept \o top.todo
                                         ELSE waitListByPipeline[p]
  BY <1>1, LoopState
<1>3. calls' = <<new>> \o <<>>
  BY <1>2 DEF WaitListKeep
<1>4. calls' = <<new>> /\ Head(calls') = new /\ Len(calls') = 1 /\ calls' # <<>>
  BY <1>3
<1>5. /\ new.todo = Tail(top.todo) /\ new.kept = Append(top.kept, j)
      /\ new.pipeline = top.pipeline /\ new.freeSlots = top.freeSlots
  BY <1>2 DEF Activation
<1>6. UNCHANGED waitListByPipeline
  BY DEF WaitListKeep, jobVars
<1>7. Append(top.kept, j) \o Tail(top.todo) = top.kept \o top.todo
  BY <1>1, <1>2, TakeHead
<1> HIDE DEF new, top, j
<1>8. \A p \in Pipelines : queue(p)' = queue(p)
  BY <1>2, <1>4, <1>5, <1>6, <1>7 DEF queue, mutexFree
<1> QED
  BY <1>1, <1>4, <1>5, <1>8 DEF top, j

LEMMA KeepStep ==
  ASSUME RunnerInv, TypeOK', WaitListKeep
  PROVE  RunnerInv' /\ WithinLimit
<1>1. /\ ~mutexFree /\ calls' # <<>> /\ Len(calls') = 1
      /\ Head(calls').pipeline = Head(calls).pipeline
      /\ Head(calls').freeSlots = Head(calls).freeSlots
      /\ \A p \in Pipelines : queue(p)' = queue(p)
  BY KeepMove
<1>2. UNCHANGED <<defs, jobsByID, job, goroutine>>
  BY DEF WaitListKeep, jobVars, runVars
<1>3. SlotsOK'
  <2>1. \A p \in Pipelines : executing(p)' = executing(p) /\ concurrency(p)' = concurrency(p)
    BY <1>2 DEF executing, alive, concurrency
  <2> QED
    BY <1>1, <2>1 DEF RunnerInv, SlotsOK
<1> QED
  BY <1>1, <1>2, <1>3, LoopIdle

\* WaitListReturn writes the new list back.
LEMMA ReturnMove ==
  ASSUME RunnerInv, WaitListReturn
  PROVE  /\ ~mutexFree /\ Head(calls).todo = <<>> /\ calls' = <<>>
         /\ \A p \in Pipelines : queue(p)' = queue(p)
<1> DEFINE top == Head(calls)
<1>1. ~mutexFree /\ top.todo = <<>>
  BY DEF WaitListReturn
<1>2. /\ top.pipeline \in Pipelines /\ top.kept \in Seq(Jobs)
      /\ Tail(calls) = <<>>
      /\ \A p \in Pipelines : queue(p) = IF top.pipeline = p THEN top.kept \o top.todo
                                         ELSE waitListByPipeline[p]
  BY <1>1, LoopState
<1>3. calls' = <<>>
  BY <1>2 DEF WaitListReturn
<1>4. waitListByPipeline' = [waitListByPipeline EXCEPT ![top.pipeline] = top.kept]
  BY DEF WaitListReturn
<1>5. top.kept \o top.todo = top.kept
  BY <1>1, <1>2, ConcatEmptySeq
<1>6. waitListByPipeline \in [Pipelines -> Seq(Jobs)]
  BY DEF RunnerInv, TypeOK
<1> HIDE DEF top
<1>7. \A p \in Pipelines : queue(p)' = queue(p)
  BY <1>2, <1>3, <1>4, <1>5, <1>6 DEF queue, mutexFree
<1> QED
  BY <1>1, <1>3, <1>7 DEF top

LEMMA ReturnStep ==
  ASSUME RunnerInv, TypeOK', WaitListReturn
  PROVE  RunnerInv' /\ WithinLimit
<1>1. calls' = <<>> /\ \A p \in Pipelines : queue(p)' = queue(p)
  BY ReturnMove
<1>2. UNCHANGED <<defs, jobsByID, job, goroutine>>
  BY DEF WaitListReturn, runVars
<1>3. SlotsOK'
  BY <1>1 DEF SlotsOK, mutexFree
<1> QED
  BY <1>1, <1>2, <1>3, LoopIdle

(***************************************************************************)
(* startJob on a job that waits and is known: the job runs, nothing else   *)
(* changes.                                                                *)
(***************************************************************************)
LEMMA Started ==
  ASSUME NEW js \in [Jobs -> PipelineJob], goroutine \in [Jobs -> goroutineStates],
         NEW j \in Jobs, NEW ids, NEW stack,
         js[j].buildable, ~js[j].Canceled, startJob(j, js, ids, stack)
  PROVE  /\ calls' = stack
         /\ \A k \in Jobs : k # j => job'[k] = js[k]
         /\ sameJob(job'[j], js[j]) /\ job'[j].Start
         /\ job'[j].Completed = js[j].Completed /\ ~job'[j].Canceled
         /\ job'[j].sched = "main"
         /\ \A k \in Jobs : alive(k)' <=> (alive(k) \/ k = j)
<1>1. /\ calls' = stack
      /\ job' = [js EXCEPT ![j].sched = "main", ![j].Start = TRUE]
      /\ goroutine' = [goroutine EXCEPT ![j] = "main"]
  BY DEF startJob
<1>2. job' = [js EXCEPT ![j] = [js[j] EXCEPT !.sched = "main", !.Start = TRUE]]
  BY <1>1
<1>3. /\ \A k \in Jobs : k # j => job'[k] = js[k]
      /\ job'[j] = [js[j] EXCEPT !.sched = "main", !.Start = TRUE]
  BY <1>2
<1>4. js[j] \in PipelineJob
  OBVIOUS
<1>5. /\ sameJob(job'[j], js[j]) /\ job'[j].Start
      /\ job'[j].Completed = js[j].Completed /\ job'[j].Canceled = js[j].Canceled
  <2> DEFINE u == [js[j] EXCEPT !.sched = "main", !.Start = TRUE]
  <2>1. sameJob(u, js[j]) /\ u.Start /\ u.Completed = js[j].Completed /\ u.Canceled = js[j].Canceled
    BY <1>4, RecordFields
  <2>2. job'[j] = u
    BY <1>3
  <2> HIDE DEF u
  <2> QED
    BY <2>1, <2>2
<1>6. \A k \in Jobs : alive(k)' <=> (alive(k) \/ k = j)
  BY <1>1 DEF alive
<1>7. job'[j].sched = "main"
  BY <1>3, <1>4 DEF PipelineJob
<1> QED
  BY <1>1, <1>3, <1>5, <1>6, <1>7

\* WaitListStart takes the head of the copy of the list, job j of pipeline P, off the
\* queue of P and starts it.
LEMMA StartMove ==
  ASSUME RunnerInv, WaitListStart
  PROVE  \E P \in Pipelines, j \in Jobs :
           LET top == Head(calls)
               pos == Len(top.kept) + 1
           IN  /\ ~mutexFree /\ calls' # <<>> /\ Len(calls') = 1
               /\ top.pipeline = P /\ top.freeSlots \in Int /\ top.freeSlots > 0
               /\ top.kept \in Seq(Jobs)
               /\ Head(calls').pipeline = P /\ Head(calls').freeSlots = top.freeSlots - 1
               /\ Head(calls').kept = top.kept
               /\ pos \in 1 .. Len(queue(P)) /\ queue(P) = top.kept \o top.todo
               /\ queue(P)[pos] = j
               /\ queue(P)' = RemoveAt(queue(P), pos)
               /\ \A p \in Pipelines : p # P => queue(p)' = queue(p)
               /\ canBeStarted(job[j]) /\ waits(j) /\ job[j].Pipeline = P /\ job[j].buildable
               /\ ~job[j].Completed /\ j \in jobsByID /\ ~alive(j)
               /\ \A k \in Jobs : k # j => job'[k] = job[k]
               /\ sameJob(job'[j], job[j]) /\ job'[j].Start
               /\ ~job'[j].Completed /\ ~job'[j].Canceled /\ job'[j].sched = "main"
               /\ \A k \in Jobs : alive(k)' <=> (alive(k) \/ k = j)
<1> DEFINE top == Head(calls)
           j   == Head(top.todo)
           new == [top EXCEPT !.todo = Tail(@), !.freeSlots = @ - 1]
<1>1. ~mutexFree /\ top.todo # <<>> /\ canBeStarted(job[j]) /\ top.freeSlots > 0
  BY DEF WaitListStart
<1>0. PICK P \in Pipelines : P = top.pipeline
  BY <1>1, LoopState
<1>2. /\ top \in Activation /\ top.pipeline = P /\ top.freeSlots \in Int
      /\ top.kept \in Seq(Jobs) /\ top.todo \in Seq(Jobs)
      /\ Tail(calls) = <<>>
      /\ \A p \in Pipelines : queue(p) = IF P = p THEN top.kept \o top.todo
                                         ELSE waitListByPipeline[p]
  BY <1>0, <1>1, LoopState
<1>3. startJob(j, job, jobsByID, <<new>>)
  <2>1. startJob(j, job, jobsByID, <<new>> \o <<>>)
    BY <1>2 DEF WaitListStart
  <2>2. <<new>> \o <<>> = <<new>>
    OBVIOUS
  <2> QED
    BY <2>1, <2>2
<1>4. UNCHANGED <<defs, jobsByID, waitListByPipeline>>
  BY DEF WaitListStart
<1>5. /\ new.todo = Tail(top.todo) /\ new.kept = top.kept
      /\ new.pipeline = P /\ new.freeSlots = top.freeSlots - 1
  BY <1>2 DEF Activation
<1>6. /\ job \in [Jobs -> PipelineJob] /\ goroutine \in [Jobs -> goroutineStates]
      /\ jobsByID \subseteq Jobs /\ waitListByPipeline \in [Pipelines -> Seq(Jobs)]
  BY DEF RunnerInv, TypeOK
<1> DEFINE pos == Len(top.kept) + 1
           Q   == top.kept \o top.todo
           R   == top.kept \o Tail(top.todo)
<1>7. Q \in Seq(Jobs) /\ pos \in 1 .. Len(Q) /\ Q[pos] = j /\ j \in Jobs /\ RemoveAt(Q, pos) = R
  BY <1>1, <1>2, TakeHead, ConcatProperties, HeadTailProperties
<1>8. \A p \in Pipelines : queue(p) \in Seq(Jobs)
  BY QueueType DEF RunnerInv
<1> HIDE DEF new, top, j, pos, Q, R
<1>9. /\ distinct(Q) /\ queue(P) = Q
      /\ created(job[j]) /\ job[j].Pipeline = P /\ ~job[j].Start
  <2>1. queue(P) = Q
    BY <1>2 DEF Q
  <2>2. pos \in DOMAIN Q
    BY <1>7
  <2> QED
    BY <1>2, <1>7, <2>1, <2>2 DEF RunnerInv, QueuesOK
<1>10. /\ ~job[j].Canceled /\ job[j].buildable /\ ~job[j].Completed /\ j \in jobsByID /\ ~alive(j)
  <2>1. ~job[j].Canceled
    BY <1>1 DEF canBeStarted
  <2>2. waits(j)
    BY <1>9, <2>1 DEF waits
  <2> QED
    BY <1>7, <1>9, <2>1, <2>2 DEF RunnerInv, FlagsOK, CountsWhatRuns, isRunning
<1>11. /\ calls' = <<new>>
       /\ \A k \in Jobs : k # j => job'[k] = job[k]
       /\ sameJob(job'[j], job[j]) /\ job'[j].Start
       /\ ~job'[j].Completed /\ ~job'[j].Canceled /\ job'[j].sched = "main"
       /\ \A k \in Jobs : alive(k)' <=> (alive(k) \/ k = j)
  BY <1>3, <1>6, <1>7, <1>10, Started
<1>12. calls' # <<>> /\ Head(calls') = new /\ Len(calls') = 1
  BY <1>11
<1>13. queue(P)' = R /\ \A p \in Pipelines : p # P => queue(p)' = queue(p)
  <2>1. queue(P)' = R
    BY <1>5, <1>12 DEF queue, mutexFree, R
  <2>2. ASSUME NEW p \in Pipelines, p # P PROVE queue(p)' = queue(p)
    BY <1>2, <1>4, <1>5, <1>12, <2>2 DEF queue, mutexFree
  <2> QED
    BY <2>1, <2>2
<1>14. canBeStarted(job[j]) /\ waits(j)
  BY <1>1, <1>9, <1>10 DEF waits
<1>15. /\ pos \in 1 .. Len(queue(P)) /\ queue(P)[pos] = j
       /\ queue(P)' = RemoveAt(queue(P), pos)
  BY <1>7, <1>9, <1>13
<1>16. /\ queue(P) = top.kept \o top.todo /\ pos = Len(top.kept) + 1
       /\ Head(calls').kept = top.kept /\ Head(calls').pipeline = P
       /\ Head(calls').freeSlots = top.freeSlots - 1
  BY <1>5, <1>9, <1>12 DEF pos, Q
<1> j \in Jobs
  BY <1>7
<1> WITNESS P \in Pipelines, j \in Jobs
<1> QED
  BY <1>1, <1>2, <1>7, <1>9, <1>10, <1>11, <1>12, <1>13, <1>14, <1>15, <1>16 DEF top, pos

LEMMA StartStep ==
  ASSUME RunnerInv, TypeOK', WaitListStart
  PROVE  RunnerInv' /\ WithinLimit
<1> DEFINE top == Head(calls)
           pos == Len(top.kept) + 1
<1>1. PICK P \in Pipelines, j \in Jobs :
        /\ ~mutexFree /\ calls' # <<>> /\ Len(calls') = 1
        /\ top.pipeline = P /\ top.freeSlots \in Int /\ top.freeSlots > 0
        /\ Head(calls').pipeline = P /\ Head(calls').freeSlots = top.freeSlots - 1
        /\ pos \in 1 .. Len(queue(P)) /\ queue(P)[pos] = j
        /\ queue(P)' = RemoveAt(queue(P), pos)
        /\ \A p \in Pipelines : p # P => queue(p)' = queue(p)
        /\ waits(j) /\ job[j].Pipeline = P /\ job[j].buildable
        /\ ~job[j].Completed /\ j \in jobsByID /\ ~alive(j)
        /\ \A k \in Jobs : k # j => job'[k] = job[k]
        /\ sameJob(job'[j], job[j]) /\ job'[j].Start
        /\ ~job'[j].Completed /\ ~job'[j].Canceled
        /\ \A k \in Jobs : alive(k)' <=> (alive(k) \/ k = j)
  BY StartMove
<1>2. UNCHANGED <<defs, jobsByID, waitListByPipeline>>
  BY DEF WaitListStart
<1> DEFINE Q == queue(P)
           R == RemoveAt(Q, pos)
<1>3. /\ Q \in Seq(Jobs) /\ pos \in 1 .. Len(Q) /\ Q[pos] = j /\ distinct(Q)
      /\ queue(P)' = R
  BY <1>1, QueueType DEF RunnerInv, QueuesOK
<1>4. \A p \in Pipelines : queue(p) \in Seq(Jobs)
  BY QueueType DEF RunnerInv
<1> HIDE DEF top, pos, Q, R
<1>5. /\ distinct(R)
      /\ \A k \in DOMAIN R : R[k] # j /\ \E m \in DOMAIN Q : R[k] = Q[m]
      /\ \A m \in DOMAIN Q : m # pos => \E k \in DOMAIN R : R[k] = Q[m]
  BY <1>3, RemoveAtDistinct DEF R
<1>6. DefinitionsOK' /\ CountsWhatRuns'
  <2>1. ASSUME NEW k \in Jobs
        PROVE  alive(k)' <=> k \in jobsByID' /\ isRunning(job'[k])
    BY <1>2, <1>1 DEF RunnerInv, CountsWhatRuns, isRunning
  <2> QED
    BY <1>2, <2>1 DEF RunnerInv, DefinitionsOK, CountsWhatRuns
<1>7. FlagsOK'
  <2> SUFFICES ASSUME NEW k \in Jobs
               PROVE  /\ job'[k].buildable
                      /\ job'[k].Completed => job'[k].Start
                      /\ k \in jobsByID' => created(job'[k])
                      /\ waits(k)' => k \in jobsByID'
    BY DEF FlagsOK
  <2>1. CASE k = j
    BY <1>1, <1>2, <2>1 DEF sameJob, created, waits
  <2>2. CASE k # j
    BY <1>2, <1>1, <2>2 DEF RunnerInv, FlagsOK, waits
  <2> QED
    BY <2>1, <2>2
<1>8. QueuesOK'
  <2> SUFFICES ASSUME NEW p \in Pipelines
               PROVE  /\ distinct(queue(p)')
                      /\ \A i \in DOMAIN queue(p)' :
                           /\ created(job'[queue(p)'[i]])
                           /\ job'[queue(p)'[i]].Pipeline = p
                           /\ ~job'[queue(p)'[i]].Start
    BY DEF QueuesOK, distinct
  <2>1. CASE p = P
    <3>1. ASSUME NEW i \in DOMAIN R
          PROVE  created(job'[R[i]]) /\ job'[R[i]].Pipeline = p /\ ~job'[R[i]].Start
      <4>1. PICK m \in DOMAIN Q : R[i] = Q[m] /\ R[i] # j
        BY <1>5
      <4>2. Q[m] \in Jobs
        BY <1>3
      <4>3. created(job[Q[m]]) /\ job[Q[m]].Pipeline = P /\ ~job[Q[m]].Start
        BY <1>1, <1>3 DEF RunnerInv, QueuesOK, Q
      <4> QED
        BY <1>1, <2>1, <4>1, <4>2, <4>3
    <3> QED
      BY <1>3, <1>5, <2>1, <3>1
  <2>2. CASE p # P
    <3>1. ASSUME NEW i \in DOMAIN queue(p)
          PROVE  /\ created(job'[queue(p)[i]]) /\ job'[queue(p)[i]].Pipeline = p
                 /\ ~job'[queue(p)[i]].Start
      <4>1. queue(p)[i] \in Jobs
        BY <1>4
      <4>2. created(job[queue(p)[i]]) /\ job[queue(p)[i]].Pipeline = p /\ ~job[queue(p)[i]].Start
        BY DEF RunnerInv, QueuesOK
      <4>3. queue(p)[i] # j
        BY <1>1, <2>2, <4>2
      <4> QED
        BY <1>1, <4>1, <4>2, <4>3
    <3>2. distinct(queue(p))
      BY DEF RunnerInv, QueuesOK
    <3> QED
      BY <1>1, <2>2, <3>1, <3>2
  <2> QED
    BY <2>1, <2>2
<1>9. QueuesComplete'
  <2> SUFFICES ASSUME NEW k \in Jobs, NEW p \in Pipelines, waits(k)', job'[k].Pipeline = p
               PROVE  \E i \in DOMAIN queue(p)' : queue(p)'[i] = k
    BY DEF QueuesComplete
  <2>1. k # j
    BY <1>1 DEF waits
  <2>2. waits(k) /\ job[k].Pipeline = p
    BY <1>1, <2>1 DEF waits
  <2>3. PICK m \in DOMAIN queue(p) : queue(p)[m] = k
    BY <2>2 DEF RunnerInv, QueuesComplete
  <2>4. CASE p = P
    BY <1>3, <1>5, <2>1, <2>3, <2>4 DEF Q
  <2>5. CASE p # P
    BY <1>1, <2>3, <2>5
  <2> QED
    BY <2>4, <2>5
<1>10. \A p \in Pipelines : executing(p)' = IF p = P THEN executing(p) \cup {j} ELSE executing(p)
  <2> TAKE p \in Pipelines
  <2>1. \A k \in Jobs : job'[k].Pipeline = job[k].Pipeline
    BY <1>1 DEF sameJob
  <2> QED
    BY <1>3, <1>1, <2>1 DEF executing
<1>11. /\ Cardinality(executing(P)') = Cardinality(executing(P)) + 1
       /\ Cardinality(executing(P)) \in Nat /\ concurrency(P) \in Int
       /\ concurrency(P)' = concurrency(P)
       /\ Cardinality(executing(P)) + top.freeSlots = concurrency(P)
  <2>1. IsFiniteSet(executing(P)) /\ Cardinality(executing(P)) \in Nat /\ j \notin executing(P)
    <3>1. executing(P) \in SUBSET Jobs
      BY DEF executing
    <3> QED
      BY <1>1, <3>1, JobSetsFinite DEF executing
  <2>2. Cardinality(executing(P) \cup {j}) = Cardinality(executing(P)) + 1
    BY <2>1, FS_AddElement
  <2>3. concurrency(P) \in Int /\ concurrency(P)' = concurrency(P)
    <3>1. concurrency(P) \in Int
      BY DEF RunnerInv, TypeOK, PipelinesDef, PipelineDef, concurrency
    <3> QED
      BY <1>2, <3>1 DEF concurrency
  <2>4. Cardinality(executing(P)) + top.freeSlots = concurrency(P)
    BY <1>1 DEF RunnerInv, SlotsOK, top
  <2> QED
    BY <1>1, <1>10, <2>1, <2>2, <2>3, <2>4
<1>12. SlotsOK'
  <2>1. Len(calls') = 1 /\ Head(calls').freeSlots >= 0
    BY <1>1
  <2>2. Cardinality(executing(P)') + Head(calls').freeSlots = concurrency(P)'
    <3>1. Head(calls').freeSlots = top.freeSlots - 1 /\ top.freeSlots \in Int
      BY <1>1
    <3> QED
      BY <1>11, <3>1
  <2> QED
    BY <1>1, <2>1, <2>2 DEF SlotsOK
<1>13. \A p \in Pipelines : executing(p)' \subseteq executing(p)
                           \/ Cardinality(executing(p)') <= concurrency(p)
  <2> TAKE p \in Pipelines
  <2>1. CASE p = P
    BY <1>1, <1>11, <2>1
  <2>2. CASE p # P
    BY <1>10, <2>2
  <2> QED
    BY <2>1, <2>2
<1> QED
  BY <1>6, <1>7, <1>8, <1>9, <1>12, <1>13 DEF RunnerInv, WithinLimit

-----------------------------------------------------------------------------
(***************************************************************************)
(* ScheduleAsync.                                                          *)
(***************************************************************************)

\* The record of a new job.
LEMMA NewJobFields ==
  ASSUME TypeOK, NEW p, NEW q, NEW b
  PROVE  LET n == newJob(p, q, b)
         IN  /\ n.Pipeline = p /\ n.buildable = b /\ created(n)
             /\ ~n.Start /\ ~n.Completed /\ ~n.Canceled
<1>1. Cardinality({k \in Jobs : created(job[k])}) \in Nat
  BY JobSetsFinite
<1> QED
  BY <1>1 DEF newJob, created

\* A job identity that is not in use: not known, not running, in no queue.
LEMMA UnusedJob ==
  ASSUME RunnerInv, mutexFree, NEW j \in Jobs, ~created(job[j])
  PROVE  /\ j \notin jobsByID /\ ~alive(j) /\ ~waits(j)
         /\ \A p \in Pipelines : /\ queue(p) = waitListByPipeline[p]
                                 /\ \A i \in DOMAIN queue(p) : queue(p)[i] # j
<1>1. j \notin jobsByID /\ ~alive(j)
  BY DEF RunnerInv, FlagsOK, CountsWhatRuns
<1>2. \A p \in Pipelines : \A i \in DOMAIN queue(p) : queue(p)[i] # j
  BY DEF RunnerInv, QueuesOK
<1>3. \A p \in Pipelines : queue(p) = waitListByPipeline[p]
  BY DEF queue
<1> QED
  BY <1>1, <1>2, <1>3 DEF waits

\* ScheduleAsync counts the free slots with the new job already in the job map.
LEMMA NewJobSlots ==
  ASSUME RunnerInv, mutexFree, NEW p \in Pipelines, NEW j \in Jobs, ~created(job[j]),
         NEW n \in PipelineJob, ~n.Start
  PROVE  /\ Cardinality(executing(p)) \in Nat /\ concurrency(p) \in Int
         /\ freeSlots(p, [job EXCEPT ![j] = n], jobsByID \cup {j})
              = concurrency(p) - Cardinality(executing(p))
<1> DEFINE js  == [job EXCEPT ![j] = n]
           ids == jobsByID \cup {j}
<1>1. j \notin jobsByID /\ ~alive(j)
  BY UnusedJob
<1>2. js[j] = n /\ (\A k \in Jobs : k # j => js[k] = job[k]) /\ jobsByID \subseteq Jobs
  BY DEF RunnerInv, TypeOK
<1> HIDE DEF js
<1>3. executing(p) = runningJobs(p, js, ids)
  <2>1. ASSUME NEW k \in Jobs
        PROVE  k \in executing(p) <=> k \in ids /\ js[k].Pipeline = p /\ isRunning(js[k])
    BY <1>1, <1>2 DEF executing, RunnerInv, CountsWhatRuns, isRunning
  <2>2. ids \subseteq Jobs /\ executing(p) \subseteq Jobs
    BY <1>2 DEF executing
  <2> QED
    BY <2>1, <2>2 DEF runningJobs
<1>4. Cardinality(executing(p)) \in Nat
  BY JobSetsFinite DEF executing
<1>5. concurrency(p) \in Int
  BY DEF RunnerInv, TypeOK, PipelinesDef, PipelineDef, concurrency
<1> QED
  BY <1>3, <1>4, <1>5 DEF freeSlots, js

(***************************************************************************)
(* enqueue lets the queue strategy rewrite the queue of p and marks the    *)
(* job that is replaced, a job of that queue; nothing else changes.        *)
(***************************************************************************)
Enqueued(p, j, n) ==
  LET wl          == waitListByPipeline[p]
      partitionOf == [k \in Jobs |-> [job EXCEPT ![j] = n][k].queuePartition]
      replaced    == replacedJobs(defs[p], wl, partitionOf, j)
      nl          == modifyWaitList(defs[p], wl, partitionOf, j)
  IN  /\ \A k \in replaced : /\ k \in Jobs /\ k # j /\ created(job[k])
                             /\ job[k].Pipeline = p /\ ~job[k].Start
                             /\ \E m \in DOMAIN wl : k = wl[m]
      /\ waitListByPipeline'[p] = nl /\ queue(p)' = nl
      /\ \A r \in Pipelines : r # p => /\ waitListByPipeline'[r] = waitListByPipeline[r]
                                       /\ queue(r)' = queue(r)
      /\ job'[j] = n
      /\ \A k \in Jobs : k # j =>
           job'[k] = IF k \in replaced
                     THEN [job[k] EXCEPT !.Canceled = TRUE, !.startTimer = FALSE]
                     ELSE job[k]
      /\ UNCHANGED <<goroutine, calls>>

\* The wait list enqueue finds is a list of other jobs, and its definition is valid.
LEMMA EnqueueState ==
  ASSUME RunnerInv, mutexFree, NEW p \in Pipelines, NEW j \in Jobs, ~created(job[j])
  PROVE  /\ defs[p] \in PipelineDef /\ validate(defs[p]) /\ ~modifyPanics(defs[p])
         /\ queue(p) = waitListByPipeline[p]
         /\ waitListByPipeline[p] \in Seq(Jobs) /\ distinct(waitListByPipeline[p])
         /\ \A i \in DOMAIN waitListByPipeline[p] : waitListByPipeline[p][i] # j
<1>1. queue(p) = waitListByPipeline[p] /\ \A i \in DOMAIN queue(p) : queue(p)[i] # j
  BY UnusedJob
<1>2. waitListByPipeline[p] \in Seq(Jobs) /\ distinct(queue(p))
  BY DEF RunnerInv, TypeOK, QueuesOK
<1>3. defs[p] \in PipelineDef /\ validate(defs[p]) /\ ~modifyPanics(defs[p])
  BY DEF RunnerInv, DefinitionsOK, TypeOK, PipelinesDef
<1> QED
  BY <1>1, <1>2, <1>3

\* What enqueue does.
LEMMA EnqueueMove ==
  ASSUME RunnerInv, mutexFree, NEW p \in Pipelines, NEW j \in Jobs, ~created(job[j]),
         NEW n \in PipelineJob, enqueue(p, j, [job EXCEPT ![j] = n])
  PROVE  Enqueued(p, j, n)
<1> DEFINE js          == [job EXCEPT ![j] = n]
           wl          == waitListByPipeline[p]
           partitionOf == [k \in Jobs |-> js[k].queuePartition]
           replaced    == replacedJobs(defs[p], wl, partitionOf, j)
           nl          == modifyWaitList(defs[p], wl, partitionOf, j)
<1>1. \A r \in Pipelines : queue(r) = waitListByPipeline[r]
  BY UnusedJob
<1>2. /\ job \in [Jobs -> PipelineJob]
      /\ waitListByPipeline \in [Pipelines -> Seq(Jobs)]
  BY DEF RunnerInv, TypeOK
<1>3. js[j] = n /\ \A k \in Jobs : k # j => js[k] = job[k]
  BY <1>2
<1>4. defs[p] \in PipelineDef /\ validate(defs[p]) /\ ~modifyPanics(defs[p])
  BY EnqueueState
<1>5. /\ waitListByPipeline' = [waitListByPipeline EXCEPT ![p] = nl]
      /\ job' = [k \in Jobs |-> IF k \in replaced
                                THEN [js[k] EXCEPT !.Canceled = TRUE, !.startTimer = FALSE]
                                ELSE js[k]]
      /\ UNCHANGED <<goroutine, calls>>
  <2> DEFINE R0 == IF modifyPanics(defs[p]) THEN {} ELSE replaced
  <2>1. R0 = replaced
    BY <1>4
  <2>2. /\ waitListByPipeline' = [waitListByPipeline EXCEPT ![p] = nl]
        /\ job' = [k \in Jobs |-> IF k \in R0
                                  THEN [js[k] EXCEPT !.Canceled = TRUE, !.startTimer = FALSE]
                                  ELSE js[k]]
        /\ UNCHANGED <<goroutine, calls>>
    BY <1>4 DEF enqueue
  <2> HIDE DEF R0, replaced, nl, js
  <2> QED
    BY <2>1, <2>2
<1>6. wl \in Seq(Jobs) /\ distinct(wl) /\ \A i \in DOMAIN wl : wl[i] # j
  BY EnqueueState
<1>7. \A k \in replaced : \E m \in DOMAIN wl : k = wl[m]
  <2>1. replacedSlot(defs[p], wl, partitionOf, j) \in 0 .. Len(wl)
    BY <1>4, <1>6, ReplacedSlotType
  <2>2. DOMAIN wl = 1 .. Len(wl) /\ Len(wl) \in Nat
    BY <1>6
  <2> QED
    BY <2>1, <2>2 DEF replacedJobs
<1>8. ASSUME NEW m \in DOMAIN wl
      PROVE  /\ wl[m] \in Jobs /\ wl[m] # j /\ created(job[wl[m]])
             /\ job[wl[m]].Pipeline = p /\ ~job[wl[m]].Start
  BY <1>1, <1>6 DEF RunnerInv, QueuesOK
<1>9. \A k \in replaced : /\ k \in Jobs /\ k # j /\ created(job[k])
                          /\ job[k].Pipeline = p /\ ~job[k].Start
  BY <1>7, <1>8
<1>10. job'[j] = n
  BY <1>3, <1>5, <1>9
<1>11. \A k \in Jobs : k # j =>
         job'[k] = IF k \in replaced
                   THEN [job[k] EXCEPT !.Canceled = TRUE, !.startTimer = FALSE]
                   ELSE job[k]
  <2> HIDE DEF replaced, js
  <2> QED
    BY <1>3, <1>5
<1> HIDE DEF nl, replaced
<1>12. /\ waitListByPipeline'[p] = nl
       /\ \A r \in Pipelines : r # p => waitListByPipeline'[r] = waitListByPipeline[r]
  BY <1>2, <1>5
<1>13. queue(p)' = nl /\ \A r \in Pipelines : r # p => queue(r)' = queue(r)
  BY <1>1, <1>5, <1>12 DEF queue, mutexFree
<1>14. UNCHANGED <<goroutine, calls>>
  BY <1>5
<1> QED
  BY <1>7, <1>9, <1>10, <1>11, <1>12, <1>13, <1>14 DEF Enqueued, nl, replaced

\* A new job that is started right away.
LEMMA ScheduleStarts ==
  ASSUME RunnerInv, TypeOK', mutexFree, NEW p \in Pipelines, NEW j \in Jobs, ~created(job[j]),
         NEW n \in PipelineJob, n.Pipeline = p, n.buildable, created(n),
         ~n.Start, ~n.Completed, ~n.Canceled,
         jobsByID' = jobsByID \cup {j},
         startJob(j, [job EXCEPT ![j] = n], jobsByID \cup {j}, calls),
         freeSlots(p, [job EXCEPT ![j] = n], jobsByID \cup {j}) > 0,
         UNCHANGED <<defs, waitListByPipeline>>
  PROVE  RunnerInv' /\ WithinLimit
<1> DEFINE js  == [job EXCEPT ![j] = n]
           ids == jobsByID \cup {j}
<1>1. /\ j \notin jobsByID /\ ~alive(j) /\ ~waits(j)
      /\ \A r \in Pipelines : /\ queue(r) = waitListByPipeline[r]
                              /\ \A i \in DOMAIN queue(r) : queue(r)[i] # j
  BY UnusedJob
<1>2. /\ job \in [Jobs -> PipelineJob] /\ goroutine \in [Jobs -> goroutineStates]
      /\ jobsByID \subseteq Jobs
  BY DEF RunnerInv, TypeOK
<1>3. js \in [Jobs -> PipelineJob] /\ js[j] = n /\ \A k \in Jobs : k # j => js[k] = job[k]
  BY <1>2
<1>4. startJob(j, js, ids, calls) /\ freeSlots(p, js, ids) > 0
  OBVIOUS
<1> HIDE DEF js, ids
<1>5. /\ calls' = calls
      /\ \A k \in Jobs : k # j => job'[k] = job[k]
      /\ sameJob(job'[j], n) /\ job'[j].Start
      /\ ~job'[j].Completed /\ ~job'[j].Canceled
      /\ \A k \in Jobs : alive(k)' <=> (alive(k) \/ k = j)
  BY <1>2, <1>3, <1>4, Started
<1>6. \A r \in Pipelines : queue(r)' = queue(r)
  BY <1>1, <1>5 DEF queue, mutexFree
<1>7. CountsWhatRuns'
  <2>1. ASSUME NEW k \in Jobs
        PROVE  alive(k)' <=> k \in jobsByID' /\ isRunning(job'[k])
    BY <1>1, <1>5 DEF RunnerInv, CountsWhatRuns, isRunning
  <2> QED
    BY <2>1 DEF CountsWhatRuns
<1>8. FlagsOK'
  <2> SUFFICES ASSUME NEW k \in Jobs
               PROVE  /\ job'[k].buildable
                      /\ job'[k].Completed => job'[k].Start
                      /\ k \in jobsByID' => created(job'[k])
                      /\ waits(k)' => k \in jobsByID'
    BY DEF FlagsOK
  <2>1. CASE k = j
    BY <1>5, <2>1 DEF sameJob, created
  <2>2. CASE k # j
    BY <1>5, <2>2 DEF RunnerInv, FlagsOK, waits
  <2> QED
    BY <2>1, <2>2
<1>9. QueuesOK'
  <2> SUFFICES ASSUME NEW r \in Pipelines
               PROVE  /\ distinct(queue(r)')
                      /\ \A i \in DOMAIN queue(r)' :
                           /\ created(job'[queue(r)'[i]])
                           /\ job'[queue(r)'[i]].Pipeline = r
                           /\ ~job'[queue(r)'[i]].Start
    BY DEF QueuesOK, distinct
  <2>1. ASSUME NEW i \in DOMAIN queue(r)
        PROVE  created(job'[queue(r)[i]]) /\ job'[queue(r)[i]].Pipeline = r /\ ~job'[queue(r)[i]].Start
    <3>1. queue(r)[i] \in Jobs /\ queue(r)[i] # j
      BY <1>1, QueueType DEF RunnerInv
    <3> QED
      BY <1>5, <3>1 DEF RunnerInv, QueuesOK
  <2>2. distinct(queue(r))
    BY DEF RunnerInv, QueuesOK
  <2> QED
    BY <1>6, <2>1, <2>2
<1>10. QueuesComplete'
  <2> SUFFICES ASSUME NEW k \in Jobs, NEW r \in Pipelines, waits(k)', job'[k].Pipeline = r
               PROVE  \E i \in DOMAIN queue(r)' : queue(r)'[i] = k
    BY DEF QueuesComplete
  <2>1. k # j
    BY <1>5 DEF waits
  <2> QED
    BY <1>5, <1>6, <2>1 DEF RunnerInv, QueuesComplete, waits
<1>11. SlotsOK' /\ DefinitionsOK'
  BY <1>5 DEF SlotsOK, mutexFree, RunnerInv, DefinitionsOK
<1>12. ASSUME NEW r \in Pipelines
       PROVE  executing(r)' \subseteq executing(r) \/ Cardinality(executing(r)') <= concurrency(r)
  <2>1. CASE r # p
    <3>1. executing(r)' \subseteq executing(r)
      BY <1>5, <2>1 DEF executing, sameJob
    <3> QED
      BY <3>1
  <2>2. CASE r = p
    <3>1. executing(p)' = executing(p) \cup {j} /\ j \notin executing(p)
      BY <1>1, <1>5 DEF executing, sameJob
    <3>2. /\ Cardinality(executing(p)) \in Nat /\ concurrency(p) \in Int
          /\ concurrency(p) - Cardinality(executing(p)) > 0
      BY <1>4, NewJobSlots DEF js, ids
    <3>3. IsFiniteSet(executing(p))
      BY JobSetsFinite DEF executing
    <3>4. Cardinality(executing(p)') = Cardinality(executing(p)) + 1
      BY <3>1, <3>3, FS_AddElement
    <3> QED
      BY <2>2, <3>2, <3>4
  <2> QED
    BY <2>1, <2>2
<1> QED
  BY <1>7, <1>8, <1>9, <1>10, <1>11, <1>12 DEF RunnerInv, WithinLimit

\* A new job that is put on the wait list, possibly in the place of another.
LEMMA ScheduleQueues ==
  ASSUME RunnerInv, TypeOK', mutexFree, NEW p \in Pipelines, NEW j \in Jobs, ~created(job[j]),
         NEW n \in PipelineJob, n.Pipeline = p, n.buildable, created(n),
         ~n.Start, ~n.Completed, ~n.Canceled,
         jobsByID' = jobsByID \cup {j},
         enqueue(p, j, [job EXCEPT ![j] = n]),
         UNCHANGED defs
  PROVE  RunnerInv' /\ WithinLimit
<1> DEFINE js          == [job EXCEPT ![j] = n]
           wl          == waitListByPipeline[p]
           partitionOf == [k \in Jobs |-> js[k].queuePartition]
           replaced    == replacedJobs(defs[p], wl, partitionOf, j)
           nl          == modifyWaitList(defs[p], wl, partitionOf, j)
<1>1. /\ j \notin jobsByID /\ ~alive(j)
      /\ \A r \in Pipelines : \A i \in DOMAIN queue(r) : queue(r)[i] # j
  BY UnusedJob
<1>0. /\ defs[p] \in PipelineDef /\ validate(defs[p]) /\ ~modifyPanics(defs[p])
      /\ queue(p) = wl /\ wl \in Seq(Jobs) /\ distinct(wl) /\ \A i \in DOMAIN wl : wl[i] # j
  BY EnqueueState
<1>2. /\ \A k \in replaced : k # j /\ created(job[k]) /\ ~job[k].Start
      /\ queue(p)' = nl /\ \A r \in Pipelines : r # p => queue(r)' = queue(r)
      /\ job'[j] = n
      /\ \A k \in Jobs : k # j =>
           job'[k] = IF k \in replaced
                     THEN [job[k] EXCEPT !.Canceled = TRUE, !.startTimer = FALSE]
                     ELSE job[k]
      /\ UNCHANGED <<goroutine, calls>>
  <2>1. Enqueued(p, j, n)
    BY EnqueueMove
  <2> QED
    BY <2>1 DEF Enqueued
<1>3. /\ distinct(nl)
      /\ \A k \in DOMAIN nl : nl[k] = j \/ \E m \in DOMAIN wl : nl[k] = wl[m]
      /\ \A m \in DOMAIN wl : (\E k \in DOMAIN nl : nl[k] = wl[m]) \/ wl[m] \in replaced
      /\ \E k \in DOMAIN nl : nl[k] = j
  <2>1. defs[p] \in PipelineDef /\ validate(defs[p]) /\ ~modifyPanics(defs[p])
    BY <1>0
  <2>2. wl \in Seq(Jobs) /\ distinct(wl) /\ \A i \in DOMAIN wl : wl[i] # j
    BY <1>0
  <2> HIDE DEF nl, replaced, partitionOf, wl
  <2> QED
    BY <2>1, <2>2, ModifyWaitListElements DEF nl, replaced
<1> HIDE DEF js, wl, partitionOf, replaced, nl
<1>4. \A k \in Jobs : k # j =>
        /\ sameJob(job'[k], job[k])
        /\ job'[k].Start = job[k].Start
        /\ job'[k].Completed = job[k].Completed
        /\ job[k].Canceled => job'[k].Canceled
        /\ k \in replaced => job'[k].Canceled
        /\ k \notin replaced => job'[k] = job[k]
  <2> SUFFICES ASSUME NEW k \in Jobs, k # j
               PROVE  /\ sameJob(job'[k], job[k])
                      /\ job'[k].Start = job[k].Start
                      /\ job'[k].Completed = job[k].Completed
                      /\ job[k].Canceled => job'[k].Canceled
                      /\ k \in replaced => job'[k].Canceled
                      /\ k \notin replaced => job'[k] = job[k]
    OBVIOUS
  <2>1. CASE k \in replaced
    <3> DEFINE u == [job[k] EXCEPT !.Canceled = TRUE, !.startTimer = FALSE]
    <3>1. sameJob(u, job[k]) /\ u.Start = job[k].Start /\ u.Completed = job[k].Completed /\ u.Canceled
      <4>1. job[k] \in PipelineJob
        BY DEF RunnerInv, TypeOK
      <4> QED
        BY <4>1, RecordFields
    <3>2. job'[k] = u
      BY <1>2, <2>1
    <3> HIDE DEF u
    <3> QED
      BY <2>1, <3>1, <3>2
  <2>2. CASE k \notin replaced
    BY <1>2, <2>2 DEF sameJob
  <2> QED
    BY <2>1, <2>2
<1>5. \A k \in Jobs : alive(k)' <=> alive(k)
  BY <1>2 DEF alive
<1>6. CountsWhatRuns'
  <2>1. ASSUME NEW k \in Jobs
        PROVE  alive(k)' <=> k \in jobsByID' /\ isRunning(job'[k])
    <3>1. CASE k = j
      BY <1>1, <1>2, <1>5, <3>1 DEF isRunning
    <3>2. CASE k # j
      BY <1>2, <1>4, <1>5, <3>2 DEF RunnerInv, CountsWhatRuns, isRunning
    <3> QED
      BY <3>1, <3>2
  <2> QED
    BY <2>1 DEF CountsWhatRuns
<1>7. FlagsOK'
  <2> SUFFICES ASSUME NEW k \in Jobs
               PROVE  /\ job'[k].buildable
                      /\ job'[k].Completed => job'[k].Start
                      /\ k \in jobsByID' => created(job'[k])
                      /\ waits(k)' => k \in jobsByID'
    BY DEF FlagsOK
  <2>1. CASE k = j
    BY <1>2, <2>1
  <2>2. CASE k # j
    <3>1. waits(k)' => waits(k)
      BY <1>4, <2>2 DEF waits, sameJob, created
    <3> QED
      BY <1>4, <2>2, <3>1 DEF RunnerInv, FlagsOK, sameJob, created
  <2> QED
    BY <2>1, <2>2
<1>8. QueuesOK'
  <2> SUFFICES ASSUME NEW r \in Pipelines
               PROVE  /\ distinct(queue(r)')
                      /\ \A i \in DOMAIN queue(r)' :
                           /\ created(job'[queue(r)'[i]])
                           /\ job'[queue(r)'[i]].Pipeline = r
                           /\ ~job'[queue(r)'[i]].Start
    BY DEF QueuesOK, distinct
  <2>1. ASSUME NEW i \in DOMAIN queue(r)
        PROVE  created(job'[queue(r)[i]]) /\ job'[queue(r)[i]].Pipeline = r /\ ~job'[queue(r)[i]].Start
    <3>1. queue(r)[i] \in Jobs /\ queue(r)[i] # j
      BY <1>1, QueueType DEF RunnerInv
    <3> QED
      BY <1>4, <3>1 DEF RunnerInv, QueuesOK, sameJob, created
  <2>2. CASE r = p
    <3>1. ASSUME NEW i \in DOMAIN nl
          PROVE  created(job'[nl[i]]) /\ job'[nl[i]].Pipeline = p /\ ~job'[nl[i]].Start
      <4>1. CASE nl[i] = j
        BY <1>2, <4>1
      <4>2. CASE \E m \in DOMAIN wl : nl[i] = wl[m]
        BY <1>0, <2>1, <2>2, <4>2
      <4> QED
        BY <1>3, <4>1, <4>2
    <3> QED
      BY <1>2, <1>3, <2>2, <3>1
  <2>3. CASE r # p
    <3>1. distinct(queue(r))
      BY DEF RunnerInv, QueuesOK
    <3> QED
      BY <1>2, <2>1, <2>3, <3>1
  <2> QED
    BY <2>2, <2>3
<1>9. QueuesComplete'
  <2> SUFFICES ASSUME NEW k \in Jobs, NEW r \in Pipelines, waits(k)', job'[k].Pipeline = r
               PROVE  \E i \in DOMAIN queue(r)' : queue(r)'[i] = k
    BY DEF QueuesComplete
  <2>1. CASE k = j
    BY <1>2, <1>3, <2>1
  <2>2. CASE k # j
    <3>1. waits(k) /\ job[k].Pipeline = r /\ k \notin replaced
      BY <1>4, <2>2 DEF waits, sameJob, created
    <3>2. PICK i \in DOMAIN queue(r) : queue(r)[i] = k
      BY <3>1 DEF RunnerInv, QueuesComplete
    <3>3. CASE r = p
      <4>1. i \in DOMAIN wl /\ wl[i] = k
        BY <1>0, <3>2, <3>3
      <4>2. PICK m \in DOMAIN nl : nl[m] = k
        BY <1>3, <3>1, <4>1
      <4>3. queue(p)' = nl
        BY <1>2
      <4> QED
        BY <3>3, <4>2, <4>3
    <3>4. CASE r # p
      <4>1. queue(r)' = queue(r)
        BY <1>2, <3>4
      <4> QED
        BY <3>2, <4>1
    <3> QED
      BY <3>3, <3>4
  <2> QED
    BY <2>1, <2>2
<1>10. SlotsOK' /\ DefinitionsOK'
  BY <1>2 DEF SlotsOK, mutexFree, RunnerInv, DefinitionsOK
<1>11. ASSUME NEW r \in Pipelines PROVE executing(r)' \subseteq executing(r)
  BY <1>1, <1>4, <1>5 DEF executing, sameJob
<1> QED
  BY <1>10, <1>11, <1>6, <1>7, <1>8, <1>9 DEF RunnerInv, WithinLimit

LEMMA ScheduleStep ==
  ASSUME WellBehaved, RunnerInv, TypeOK', NEW p \in Pipelines, NEW j \in Jobs,
         NEW q \in Partitions, NEW b \in Buildability, ScheduleAsync(p, j, q, b)
  PROVE  RunnerInv' /\ WithinLimit
<1> DEFINE n   == newJob(p, q, b)
           js  == [job EXCEPT ![j] = n]
           ids == jobsByID \cup {j}
<1>1. mutexFree /\ ~created(job[j]) /\ p \in DOMAIN defs /\ jobsByID' = ids /\ UNCHANGED defs
  BY DEF ScheduleAsync
<1>2. b = TRUE
  BY DEF WellBehaved, AllBuildable
<1>3. TypeOK
  BY DEF RunnerInv
<1>4. /\ n.Pipeline = p /\ n.buildable /\ created(n)
      /\ ~n.Start /\ ~n.Completed /\ ~n.Canceled
  <2>1. /\ n.Pipeline = p /\ n.buildable = b /\ created(n)
        /\ ~n.Start /\ ~n.Completed /\ ~n.Canceled
    BY <1>3, NewJobFields
  <2> QED
    BY <1>2, <2>1
<1>5. n \in PipelineJob
  BY <1>1, <1>2, <1>3, NewJobType
<1>6. \/ /\ startJob(j, js, ids, calls) /\ freeSlots(p, js, ids) > 0
         /\ UNCHANGED waitListByPipeline
      \/ enqueue(p, j, js)
  BY DEF ScheduleAsync
<1> HIDE DEF n
<1>7. CASE startJob(j, js, ids, calls) /\ freeSlots(p, js, ids) > 0 /\ UNCHANGED waitListByPipeline
  BY <1>1, <1>4, <1>5, <1>7, ScheduleStarts
<1>8. CASE enqueue(p, j, js)
  BY <1>1, <1>4, <1>5, <1>8, ScheduleQueues
<1> QED
  BY <1>6, <1>7, <1>8

-----------------------------------------------------------------------------
(***************************************************************************)
(* The other handlers start no job and leave the wait lists alone.         *)
(***************************************************************************)

\* cancelJobInternal marks only jobs that have not started.
LEMMA CancelQuiet ==
  ASSUME RunnerInv, NEW S, cancelJobInternal(S)
  PROVE  JobsStep /\ \A k \in Jobs : isRunning(job'[k]) <=> isRunning(job[k])
<1> SUFFICES ASSUME NEW k \in Jobs
             PROVE  /\ sameJob(job'[k], job[k])
                    /\ job'[k].Start = job[k].Start
                    /\ job'[k].Completed => job[k].Start
                    /\ job[k].Canceled => job'[k].Canceled
                    /\ isRunning(job'[k]) <=> isRunning(job[k])
  BY DEF JobsStep
<1>1. job[k] \in PipelineJob /\ (job[k].Completed => job[k].Start)
  BY DEF RunnerInv, TypeOK, FlagsOK
<1>2. CASE job'[k] = job[k]
  BY <1>1, <1>2 DEF sameJob
<1>3. CASE ~job[k].Start /\ job'[k] = [job[k] EXCEPT !.Canceled = TRUE]
  <2> DEFINE u == [job[k] EXCEPT !.Canceled = TRUE]
  <2>1. sameJob(u, job[k]) /\ u.Start = job[k].Start /\ u.Completed = job[k].Completed /\ u.Canceled
    BY <1>1, RecordFields
  <2>2. job'[k] = u
    BY <1>3
  <2> HIDE DEF u
  <2> QED
    BY <1>1, <1>3, <2>1, <2>2 DEF isRunning
<1> QED
  BY <1>2, <1>3 DEF cancelJobInternal

\* Handlers that cancel.
LEMMA CancelStep ==
  ASSUME RunnerInv, TypeOK', mutexFree, NEW S, cancelJobInternal(S),
         UNCHANGED <<defs, jobsByID, waitListByPipeline, goroutine, calls>>
  PROVE  RunnerInv' /\ WithinLimit
<1>1. JobsStep /\ \A k \in Jobs : isRunning(job'[k]) <=> isRunning(job[k])
  BY CancelQuiet
<1>2. \A k \in Jobs : alive(k)' <=> alive(k)
  BY DEF alive
<1>3. CountsWhatRuns'
  <2>1. ASSUME NEW k \in Jobs PROVE alive(k)' <=> k \in jobsByID' /\ isRunning(job'[k])
    BY <1>1, <1>2 DEF RunnerInv, CountsWhatRuns
  <2> QED
    BY <2>1 DEF CountsWhatRuns
<1>4. DefinitionsOK' /\ KnownKept
  BY DEF RunnerInv, DefinitionsOK, KnownKept
<1> QED
  BY <1>1, <1>2, <1>3, <1>4, QuietStep, NoStart

\* Handlers and goroutines that leave jobs, definitions and the liveness of goroutines alone.
LEMMA GoroutineStep ==
  ASSUME RunnerInv, TypeOK', mutexFree, \A k \in Jobs : alive(k)' <=> alive(k),
         UNCHANGED <<defs, jobsByID, waitListByPipeline, job, calls>>
  PROVE  RunnerInv' /\ WithinLimit
<1>1. JobsStep
  BY DEF JobsStep, sameJob, RunnerInv, FlagsOK
<1>2. CountsWhatRuns'
  <2>1. ASSUME NEW k \in Jobs PROVE alive(k)' <=> k \in jobsByID' /\ isRunning(job'[k])
    BY DEF RunnerInv, CountsWhatRuns
  <2> QED
    BY <2>1 DEF CountsWhatRuns
<1>3. DefinitionsOK' /\ KnownKept
  BY DEF RunnerInv, DefinitionsOK, KnownKept
<1> QED
  BY <1>1, <1>2, <1>3, QuietStep, NoStart

\* Retention drops neither running nor waiting jobs.
LEMMA RetentionStep ==
  ASSUME RunnerInv, TypeOK', mutexFree, removeExpiredJobs,
         UNCHANGED <<defs, waitListByPipeline, job, goroutine, calls>>
  PROVE  RunnerInv' /\ WithinLimit
<1>1. PICK age : jobsByID' = {j \in jobsByID :
                                ~determineIfJobShouldBeRemoved(j, age[job[j].Pipeline])}
  BY DEF removeExpiredJobs
<1>2. jobsByID' \subseteq jobsByID
  BY <1>1
<1>3. ASSUME NEW j \in jobsByID, waits(j) \/ isRunning(job[j]) PROVE j \in jobsByID'
  <2>1. job[j].Pipeline \in DOMAIN defs
    BY DEF RunnerInv, TypeOK, DefinitionsOK, PipelineJob
  <2>2. ~((job[j].Start \/ job[j].Canceled) /\ (job[j].Completed \/ job[j].Canceled))
    BY <1>3 DEF waits, isRunning, RunnerInv, FlagsOK, TypeOK
  <2> QED
    BY <1>1, <2>1, <2>2 DEF determineIfJobShouldBeRemoved
<1>4. JobsStep
  BY DEF JobsStep, sameJob, RunnerInv, FlagsOK
<1>5. \A k \in Jobs : alive(k)' <=> alive(k)
  BY DEF alive
<1>6. CountsWhatRuns'
  <2>1. ASSUME NEW k \in Jobs PROVE alive(k)' <=> k \in jobsByID' /\ isRunning(job'[k])
    BY <1>2, <1>3, <1>5 DEF RunnerInv, CountsWhatRuns
  <2> QED
    BY <2>1 DEF CountsWhatRuns
<1>7. DefinitionsOK' /\ KnownKept
  BY <1>2, <1>3 DEF RunnerInv, DefinitionsOK, KnownKept
<1> QED
  BY <1>4, <1>5, <1>6, <1>7, QuietStep, NoStart

LEMMA InitErrorStep ==
  ASSUME RunnerInv, TypeOK', NEW j \in Jobs, initErrorScheduler(j)
  PROVE  RunnerInv' /\ WithinLimit
<1>1. /\ mutexFree /\ goroutine[j] = "built"
      /\ job' = [job EXCEPT ![j].sched = "error"]
      /\ goroutine' = [goroutine EXCEPT ![j] = "handler"]
      /\ UNCHANGED <<defs, jobsByID, waitListByPipeline, calls>>
  BY DEF initErrorScheduler
<1>2. job \in [Jobs -> PipelineJob] /\ goroutine \in [Jobs -> goroutineStates]
  BY DEF RunnerInv, TypeOK
<1>3. \A k \in Jobs : alive(k)' <=> alive(k)
  BY <1>1, <1>2 DEF alive
<1>4. \A k \in Jobs : /\ sameJob(job'[k], job[k]) /\ job'[k].Start = job[k].Start
                     /\ job'[k].Completed = job[k].Completed /\ job'[k].Canceled = job[k].Canceled
  <2> DEFINE u == [job[j] EXCEPT !.sched = "error"]
  <2>1. /\ sameJob(u, job[j]) /\ u.Start = job[j].Start
        /\ u.Completed = job[j].Completed /\ u.Canceled = job[j].Canceled
    BY <1>2, RecordFields
  <2>2. job'[j] = u /\ \A k \in Jobs : k # j => job'[k] = job[k]
    BY <1>1, <1>2
  <2> HIDE DEF u
  <2> QED
    BY <2>1, <2>2 DEF sameJob
<1>5. JobsStep
  BY <1>4 DEF JobsStep, RunnerInv, FlagsOK
<1>6. CountsWhatRuns'
  <2>1. ASSUME NEW k \in Jobs PROVE alive(k)' <=> k \in jobsByID' /\ isRunning(job'[k])
    BY <1>1, <1>3, <1>4 DEF RunnerInv, CountsWhatRuns, isRunning
  <2> QED
    BY <2>1 DEF CountsWhatRuns
<1>7. DefinitionsOK' /\ KnownKept
  BY <1>1 DEF RunnerInv, DefinitionsOK, KnownKept
<1> QED
  BY <1>1, <1>3, <1>5, <1>6, <1>7, QuietStep, NoStart

LEMMA ReloadStep ==
  ASSUME WellBehaved, RunnerInv, TypeOK', NEW D \in ReloadDefs, ReplaceDefinitions(D)
  PROVE  RunnerInv' /\ WithinLimit
<1>1. mutexFree /\ defs' = D /\ UNCHANGED <<jobsByID, waitListByPipeline, job, goroutine, calls>>
  BY DEF ReplaceDefinitions, jobVars, runVars
<1>2. DefinitionsOK'
  BY <1>1 DEF WellBehaved, NoneRemoved, ReplaceIsLimited, DefinitionsOK
<1>3. JobsStep /\ KnownKept
  BY <1>1 DEF JobsStep, sameJob, RunnerInv, FlagsOK, KnownKept
<1>4. CountsWhatRuns' /\ \A k \in Jobs : alive(k)' <=> alive(k)
  BY <1>1 DEF RunnerInv, CountsWhatRuns, alive
<1> QED
  BY <1>1, <1>2, <1>3, <1>4, QuietStep, NoStart

(***************************************************************************)
(* The handlers that look for waiting jobs before they return.             *)
(***************************************************************************)
LEMMA LookingStep ==
  ASSUME RunnerInv, TypeOK', mutexFree, NEW p \in Pipelines, JobsStep, CountsWhatRuns',
         \A k \in Jobs : alive(k)' => alive(k),
         calls' = startJobsOnWaitList(p, job', jobsByID, calls),
         UNCHANGED <<defs, jobsByID, waitListByPipeline>>
  PROVE  RunnerInv' /\ WithinLimit
<1>1. SlotsOK' /\ \A r \in Pipelines : queue(r)' = queue(r)
  BY ActivationOK
<1>2. QueuesOK' /\ QueuesComplete'
  BY <1>1, QueuesKept
<1>3. DefinitionsOK' /\ KnownKept
  BY DEF RunnerInv, DefinitionsOK, KnownKept
<1>4. FlagsOK'
  BY <1>3, FlagsKept
<1>5. WithinLimit
  BY NoStart
<1> QED
  BY <1>1, <1>2, <1>3, <1>4, <1>5 DEF RunnerInv

LEMMA DelayedStep ==
  ASSUME RunnerInv, TypeOK', NEW j \in Jobs, StartDelayedJob(j)
  PROVE  RunnerInv' /\ WithinLimit
<1>1. mutexFree /\ UNCHANGED <<defs, jobsByID, waitListByPipeline, goroutine>>
  BY DEF StartDelayedJob, runVars
<1>2. \A k \in Jobs : alive(k)' <=> alive(k)
  BY <1>1 DEF alive
<1>3. CASE UNCHANGED <<job, calls>>
  BY <1>1, <1>2, <1>3, GoroutineStep
<1>4. CASE /\ job' = [job EXCEPT ![j].startTimer = FALSE]
           /\ calls' = startJobsOnWaitList(job[j].Pipeline, job', jobsByID, calls)
  <2>1. job \in [Jobs -> PipelineJob]
    BY DEF RunnerInv, TypeOK
  <2>2. PICK p \in Pipelines : p = job[j].Pipeline
    BY <2>1 DEF PipelineJob
  <2>3. \A k \in Jobs : /\ sameJob(job'[k], job[k]) /\ job'[k].Start = job[k].Start
                       /\ job'[k].Completed = job[k].Completed /\ job'[k].Canceled = job[k].Canceled
    <3> DEFINE u == [job[j] EXCEPT !.startTimer = FALSE]
    <3>1. /\ sameJob(u, job[j]) /\ u.Start = job[j].Start
          /\ u.Completed = job[j].Completed /\ u.Canceled = job[j].Canceled
      BY <2>1, RecordFields
    <3>2. job'[j] = u /\ \A k \in Jobs : k # j => job'[k] = job[k]
      BY <1>4, <2>1
    <3> HIDE DEF u
    <3> QED
      BY <3>1, <3>2 DEF sameJob
  <2>4. JobsStep
    BY <2>3 DEF JobsStep, RunnerInv, FlagsOK
  <2>5. CountsWhatRuns'
    <3>1. ASSUME NEW k \in Jobs PROVE alive(k)' <=> k \in jobsByID' /\ isRunning(job'[k])
      BY <1>1, <1>2, <2>3 DEF RunnerInv, CountsWhatRuns, isRunning
    <3> QED
      BY <3>1 DEF CountsWhatRuns
  <2> QED
    BY <1>1, <1>2, <1>4, <2>2, <2>4, <2>5, LookingStep
<1> QED
  BY <1>3, <1>4 DEF StartDelayedJob

LEMMA CompletedStep ==
  ASSUME RunnerInv, TypeOK', NEW j \in Jobs, JobCompleted(j)
  PROVE  RunnerInv' /\ WithinLimit
<1> DEFINE u == [job[j] EXCEPT !.sched = "nil", !.Completed = TRUE, !.LastError = result[j],
                               !.Canceled = @ \/ result[j] = "canceled"]
<1>1. /\ mutexFree /\ goroutine[j] = "returning"
      /\ goroutine' = [goroutine EXCEPT ![j] = "done"]
      /\ UNCHANGED <<defs, jobsByID, waitListByPipeline>>
      /\ calls' = startJobsOnWaitList(job[j].Pipeline, job', jobsByID, calls)
  BY DEF JobCompleted
<1>2. /\ job \in [Jobs -> PipelineJob] /\ goroutine \in [Jobs -> goroutineStates]
      /\ job[j] \in PipelineJob /\ result[j] \in Errors
  BY DEF RunnerInv, TypeOK
<1>3. PICK p \in Pipelines : p = job[j].Pipeline
  BY <1>2 DEF PipelineJob
<1>4. job' = [job EXCEPT ![j] = u]
  BY <1>2 DEF JobCompleted
<1>5. job'[j] = u /\ \A k \in Jobs : k # j => job'[k] = job[k]
  BY <1>2, <1>4
<1>6. /\ sameJob(u, job[j]) /\ u.Start = job[j].Start /\ u.Completed
      /\ job[j].Canceled => u.Canceled
  BY <1>2 DEF PipelineJob, sameJob
<1> HIDE DEF u
<1>7. alive(j) /\ job[j].Start
  <2>1. alive(j)
    BY <1>1 DEF alive
  <2> QED
    BY <2>1 DEF RunnerInv, CountsWhatRuns, isRunning
<1>8. \A k \in Jobs : alive(k)' <=> (alive(k) /\ k # j)
  BY <1>1, <1>2 DEF alive
<1>9. JobsStep
  BY <1>5, <1>6, <1>7 DEF JobsStep, sameJob, RunnerInv, FlagsOK
<1>10. CountsWhatRuns'
  <2>1. ASSUME NEW k \in Jobs PROVE alive(k)' <=> k \in jobsByID' /\ isRunning(job'[k])
    BY <1>1, <1>5, <1>6, <1>8 DEF RunnerInv, CountsWhatRuns, isRunning
  <2> QED
    BY <2>1 DEF CountsWhatRuns
<1> QED
  BY <1>1, <1>3, <1>8, <1>9, <1>10, LookingStep

(***************************************************************************)
(* Shutdown cancels what waits, and empties the wait lists.                *)
(***************************************************************************)
LEMMA ShutdownStep ==
  ASSUME RunnerInv, TypeOK', ShutdownBegins
  PROVE  RunnerInv' /\ WithinLimit
<1>1. /\ mutexFree
      /\ job' = [k \in Jobs |-> IF k \in waitingJobs
                                THEN [job[k] EXCEPT !.Canceled = TRUE]
                                ELSE job[k]]
      /\ waitListByPipeline' = [p \in Pipelines |-> <<>>]
      /\ UNCHANGED <<defs, jobsByID, goroutine, calls>>
  BY DEF ShutdownBegins, runVars
<1>2. job \in [Jobs -> PipelineJob] /\ waitListByPipeline \in [Pipelines -> Seq(Jobs)]
  BY DEF RunnerInv, TypeOK
<1>3. \A p \in Pipelines : queue(p) = waitListByPipeline[p] /\ queue(p)' = <<>>
  BY <1>1 DEF queue, mutexFree
<1>4. ASSUME NEW k \in waitingJobs PROVE ~job[k].Start
  <2>1. PICK p \in Pipelines : k \in ToSet(waitListByPipeline[p])
    BY DEF waitingJobs
  <2>2. PICK i \in DOMAIN waitListByPipeline[p] : k = waitListByPipeline[p][i]
    BY <2>1 DEF ToSet
  <2> QED
    BY <1>3, <2>2 DEF RunnerInv, QueuesOK
<1>5. ASSUME NEW k \in Jobs, waits(k) PROVE k \in waitingJobs
  <2>1. PICK p \in Pipelines : p = job[k].Pipeline
    BY <1>2 DEF PipelineJob
  <2>2. PICK i \in DOMAIN queue(p) : queue(p)[i] = k
    BY <1>5, <2>1 DEF RunnerInv, QueuesComplete
  <2>3. k \in ToSet(waitListByPipeline[p])
    BY <1>3, <2>2 DEF ToSet
  <2> QED
    BY <2>3 DEF waitingJobs
<1>6. \A k \in Jobs :
        /\ sameJob(job'[k], job[k]) /\ job'[k].Start = job[k].Start
        /\ job'[k].Completed = job[k].Completed
        /\ k \in waitingJobs => job'[k].Canceled
        /\ k \notin waitingJobs => job'[k] = job[k]
  <2> SUFFICES ASSUME NEW k \in Jobs
               PROVE  /\ sameJob(job'[k], job[k]) /\ job'[k].Start = job[k].Start
                      /\ job'[k].Completed = job[k].Completed
                      /\ k \in waitingJobs => job'[k].Canceled
                      /\ k \notin waitingJobs => job'[k] = job[k]
    OBVIOUS
  <2>1. CASE k \in waitingJobs
    <3> DEFINE u == [job[k] EXCEPT !.Canceled = TRUE]
    <3>1. sameJob(u, job[k]) /\ u.Start = job[k].Start /\ u.Completed = job[k].Completed /\ u.Canceled
      BY <1>2, RecordFields
    <3>2. job'[k] = u
      BY <1>1, <2>1
    <3> HIDE DEF u
    <3> QED
      BY <2>1, <3>1, <3>2
  <2>2. CASE k \notin waitingJobs
    BY <1>1, <2>2 DEF sameJob
  <2> QED
    BY <2>1, <2>2
<1>7. JobsStep
  BY <1>6 DEF JobsStep, RunnerInv, FlagsOK
<1>8. \A k \in Jobs : alive(k)' <=> alive(k)
  BY <1>1 DEF alive
<1>9. CountsWhatRuns'
  <2>1. ASSUME NEW k \in Jobs PROVE alive(k)' <=> k \in jobsByID' /\ isRunning(job'[k])
    BY <1>1, <1>4, <1>6, <1>8 DEF RunnerInv, CountsWhatRuns, isRunning
  <2> QED
    BY <2>1 DEF CountsWhatRuns
<1>10. DefinitionsOK' /\ KnownKept
  BY <1>1 DEF RunnerInv, DefinitionsOK, KnownKept
<1>11. FlagsOK'
  BY <1>7, <1>10, FlagsKept
<1>12. QueuesOK'
  <2>1. \A p \in Pipelines : queue(p)' = <<>>
    BY <1>3
  <2> QED
    BY <2>1 DEF QueuesOK, distinct
<1>13. QueuesComplete'
  <2>1. \A k \in Jobs : ~waits(k)'
    BY <1>5, <1>6 DEF waits
  <2> QED
    BY <2>1 DEF QueuesComplete
<1>14. SlotsOK' /\ WithinLimit
  BY <1>1, <1>7, <1>8, NoStart DEF SlotsOK, mutexFree
<1> QED
  BY <1>9, <1>10, <1>11, <1>12, <1>13, <1>14 DEF RunnerInv

-----------------------------------------------------------------------------
(***************************************************************************)
(* The invariant.                                                          *)
(***************************************************************************)

\* NewPipelineRunner starts with no job at all.
LEMMA InitInv ==
  ASSUME WellBehaved, Init
  PROVE  RunnerInv
<1>1. TypeOK
  BY InitType
<1>2. /\ defs \in InitDefs /\ jobsByID = {} /\ calls = <<>>
      /\ waitListByPipeline = [p \in Pipelines |-> <<>>]
      /\ \A j \in Jobs : job[j] = noJob /\ goroutine[j] = "none"
  BY DEF Init
<1>3. /\ noJob.buildable /\ ~noJob.Completed /\ ~noJob.Start /\ ~created(noJob)
      /\ ~isRunning(noJob)
  BY DEF noJob, created, isRunning
<1>4. DefinitionsOK
  BY <1>2 DEF WellBehaved, NoneRemoved, ReplaceIsLimited, DefinitionsOK
<1>5. CountsWhatRuns
  BY <1>2 DEF CountsWhatRuns, alive
<1>6. FlagsOK /\ QueuesComplete
  BY <1>2, <1>3 DEF FlagsOK, QueuesComplete, waits
<1>7. QueuesOK
  <2>1. \A p \in Pipelines : queue(p) = <<>>
    BY <1>2 DEF queue, mutexFree
  <2> QED
    BY <2>1 DEF QueuesOK, distinct
<1>8. SlotsOK
  BY <1>2 DEF SlotsOK, mutexFree
<1> QED
  BY <1>1, <1>4, <1>5, <1>6, <1>7, <1>8 DEF RunnerInv

\* A step that leaves everything as it is.
LEMMA StutterStep ==
  ASSUME RunnerInv, TypeOK', UNCHANGED vars
  PROVE  RunnerInv' /\ WithinLimit
<1>1. UNCHANGED <<defs, jobsByID, waitListByPipeline, job, goroutine, calls>>
  BY DEF vars, jobVars, runVars
<1>2. \A p \in Pipelines : queue(p)' = queue(p)
  BY <1>1 DEF queue, mutexFree
<1>3. SlotsOK'
  BY <1>1 DEF RunnerInv, SlotsOK, mutexFree, executing, alive, concurrency
<1> QED
  BY <1>1, <1>2, <1>3, LoopIdle

\* The steps of the goroutine of a job.
LEMMA JobGoroutineStep ==
  ASSUME RunnerInv, TypeOK', NEW j \in Jobs, JobGoroutine(j)
  PROVE  RunnerInv' /\ WithinLimit
<1>0. goroutine \in [Jobs -> goroutineStates]
  BY DEF RunnerInv, TypeOK
<1>1. ASSUME NEW err \in {"nil", "failed", "canceled"}, ScheduleReturns(j, err)
      PROVE  RunnerInv' /\ WithinLimit
  <2>1. mutexFree /\ UNCHANGED <<defs, jobsByID, waitListByPipeline, job, calls>>
    BY <1>1 DEF ScheduleReturns, jobVars
  <2>2. \A k \in Jobs : alive(k)' <=> alive(k)
    BY <1>0, <1>1 DEF ScheduleReturns, alive
  <2> QED
    BY <2>1, <2>2, GoroutineStep
<1>2. CASE buildErrorGraph(j)
  <2>1. mutexFree /\ UNCHANGED <<defs, jobsByID, waitListByPipeline, job, calls>>
    BY <1>2 DEF buildErrorGraph, jobVars
  <2>2. \A k \in Jobs : alive(k)' <=> alive(k)
    BY <1>0, <1>2 DEF buildErrorGraph, alive
  <2> QED
    BY <2>1, <2>2, GoroutineStep
<1>3. CASE initErrorScheduler(j)
  BY <1>3, InitErrorStep
<1>4. CASE ErrorGraphReturns(j)
  <2>1. mutexFree /\ UNCHANGED <<defs, jobsByID, waitListByPipeline, job, calls>>
    BY <1>4 DEF ErrorGraphReturns, jobVars
  <2>2. \A k \in Jobs : alive(k)' <=> alive(k)
    BY <1>0, <1>4 DEF ErrorGraphReturns, alive
  <2> QED
    BY <2>1, <2>2, GoroutineStep
<1>5. CASE JobCompleted(j)
  BY <1>5, CompletedStep
<1> QED
  BY <1>1, <1>2, <1>3, <1>4, <1>5 DEF JobGoroutine

\* The steps that touch no job: timers, cancelling goroutines, signals, the persist loop.
Bystander ==
  /\ mutexFree
  /\ UNCHANGED <<defs, jobsByID, waitListByPipeline, job, goroutine, calls>>

LEMMA BystanderStep ==
  ASSUME RunnerInv, TypeOK', Bystander
  PROVE  RunnerInv' /\ WithinLimit
BY GoroutineStep DEF Bystander, alive

\* Every step keeps the invariant and starts no job beyond the limit.
LEMMA NextInv ==
  ASSUME WellBehaved, RunnerInv, [Next]_vars
  PROVE  RunnerInv' /\ WithinLimit
<1>1. TypeOK'
  BY NextType DEF RunnerInv
<1>2. CASE UNCHANGED vars
  BY <1>1, <1>2, StutterStep
<1>3. CASE WaitListLoop
  BY <1>1, <1>3, StartStep, KeepStep, ReturnStep DEF WaitListLoop
<1>4. ASSUME NEW j \in Jobs, NEW p \in Pipelines, NEW q \in Partitions, NEW b \in Buildability,
             ScheduleAsync(p, j, q, b)
      PROVE  RunnerInv' /\ WithinLimit
  BY <1>1, <1>4, ScheduleStep
<1>5. ASSUME NEW j \in Jobs, CancelJob(j)
      PROVE  RunnerInv' /\ WithinLimit
  BY <1>1, <1>5, CancelStep DEF CancelJob, runVars
<1>6. ASSUME NEW j \in Jobs, NEW s \in Schedulers, SchedulerCancel(j, s)
      PROVE  RunnerInv' /\ WithinLimit
  <2>1. Bystander
    BY <1>6 DEF Bystander, SchedulerCancel, jobVars
  <2> QED
    BY <1>1, <2>1, BystanderStep
<1>7. ASSUME NEW j \in Jobs, NEW errored \in BOOLEAN, HandleTaskChange(j, errored)
      PROVE  RunnerInv' /\ WithinLimit
  <2>1. PICK S : cancelJobInternal(S)
    BY <1>7 DEF HandleTaskChange
  <2>2. mutexFree /\ UNCHANGED <<defs, jobsByID, waitListByPipeline, goroutine, calls>>
    BY <1>7 DEF HandleTaskChange, runVars
  <2> QED
    BY <1>1, <2>1, <2>2, CancelStep
<1>8. ASSUME NEW j \in Jobs, JobGoroutine(j)
      PROVE  RunnerInv' /\ WithinLimit
  BY <1>1, <1>8, JobGoroutineStep
<1>9. ASSUME NEW j \in Jobs, StartTimer(j)
      PROVE  RunnerInv' /\ WithinLimit
  <2>1. CASE TimerFires(j)
    <3>1. Bystander
      BY <2>1 DEF Bystander, TimerFires, jobVars, runVars
    <3> QED
      BY <1>1, <3>1, BystanderStep
  <2>2. CASE StartDelayedJob(j)
    BY <1>1, <2>2, DelayedStep
  <2> QED
    BY <1>9, <2>1, <2>2 DEF StartTimer
<1>10. ASSUME NEW D \in ReloadDefs, ReplaceDefinitions(D)
       PROVE  RunnerInv' /\ WithinLimit
  BY <1>1, <1>10, ReloadStep
<1>11. CASE PersistLoop
  <2>1. CASE PersistRequested \/ PersistLoopStops
    <3>1. Bystander
      BY <2>1 DEF Bystander, PersistRequested, PersistLoopStops, jobVars, runVars
    <3> QED
      BY <1>1, <3>1, BystanderStep
  <2>2. CASE SaveToStore
    BY <1>1, <2>2, RetentionStep DEF SaveToStore, runVars
  <2> QED
    BY <1>11, <2>1, <2>2 DEF PersistLoop
<1>12. CASE Signal
  <2>1. Bystander
    BY <1>12 DEF Bystander, Signal, jobVars, runVars
  <2> QED
    BY <1>1, <2>1, BystanderStep
<1>13. CASE Shutdown
  <2>1. CASE ShutdownBegins
    BY <1>1, <2>1, ShutdownStep
  <2>2. CASE ShutdownPolls \/ ShutdownWakes
    <3>1. Bystander
      BY <2>2 DEF Bystander, ShutdownPolls, ShutdownWakes, jobVars, runVars
    <3> QED
      BY <1>1, <3>1, BystanderStep
  <2>3. CASE ShutdownEnds
    BY <1>1, <2>3, RetentionStep DEF ShutdownEnds, runVars
  <2> QED
    BY <1>13, <2>1, <2>2, <2>3 DEF Shutdown
<1>14. CASE ShutdownForced
  BY <1>1, <1>14, CancelStep DEF ShutdownForced, runVars
<1>15. CASE Terminated
  BY <1>1, <1>15, StutterStep DEF Terminated
<1> QED
  BY <1>2, <1>3, <1>4, <1>5, <1>6, <1>7, <1>8, <1>9, <1>10, <1>11, <1>12, <1>13, <1>14, <1>15
     DEF Next

(***************************************************************************)
(* RunnerInv holds in every state of prunner.go's PipelineRunner, for any  *)
(* number of jobs, pipelines, partitions and definitions, as long as no    *)
(* reload removes a pipeline, the task graph of every job can be built and *)
(* no queue strategy replaces on an unbounded queue.                       *)
(***************************************************************************)
THEOREM RunnerInvariant == WellBehaved => (Spec => []RunnerInv)
<1> SUFFICES ASSUME WellBehaved PROVE Spec => []RunnerInv
  OBVIOUS
<1>1. Init => RunnerInv
  BY InitInv
<1>2. RunnerInv /\ [Next]_vars => RunnerInv'
  BY NextInv
<1> QED
  BY <1>1, <1>2, PTL DEF Spec

(***************************************************************************)
(* What runningJobsCount counts are exactly the jobs whose goroutine is    *)
(* alive.                                                                  *)
(***************************************************************************)
THEOREM RunnerCountsWhatRuns == WellBehaved => (Spec => []CountsWhatRuns)
<1>1. RunnerInv => CountsWhatRuns
  BY DEF RunnerInv
<1> QED
  BY <1>1, RunnerInvariant, PTL

(***************************************************************************)
(* Between two handlers every job that was neither started nor cancelled   *)
(* stands on the wait list of its pipeline exactly once: the two functions *)
(* that rewrite the list (startJobsOnWaitList, modifyWaitList) drop none   *)
(* and double none.                                                        *)
(***************************************************************************)
THEOREM RunnerLosesNoJob == WellBehaved => (Spec => []NoLostJob)
<1>1. RunnerInv => NoLostJob
  <2> SUFFICES ASSUME RunnerInv, mutexFree, NEW j \in Jobs, waits(j),
                      NEW wl, wl = waitListByPipeline[job[j].Pipeline]
               PROVE  Cardinality({i \in DOMAIN wl : wl[i] = j}) = 1 /\ j \in jobsByID
    BY DEF NoLostJob
  <2>1. PICK p \in Pipelines : p = job[j].Pipeline
    BY DEF RunnerInv, TypeOK, PipelineJob
  <2>2. queue(p) = wl
    BY <2>1 DEF queue
  <2>3. PICK i \in DOMAIN wl : wl[i] = j
    BY <2>1, <2>2 DEF RunnerInv, QueuesComplete
  <2>4. distinct(wl)
    BY <2>2 DEF RunnerInv, QueuesOK
  <2>5. {k \in DOMAIN wl : wl[k] = j} = {i}
    BY <2>3, <2>4 DEF distinct
  <2>6. Cardinality({i}) = 1
    BY FS_Singleton
  <2> QED
    BY <2>5, <2>6 DEF RunnerInv, FlagsOK
<1> QED
  BY <1>1, RunnerInvariant, PTL

(***************************************************************************)
(* No step of ScheduleAsync or startJobsOnWaitList leaves more jobs of a   *)
(* pipeline executing than its concurrency allows at that time.            *)
(***************************************************************************)
THEOREM RunnerStartsWithinLimit == WellBehaved => (Spec => StartsWithinLimit)
<1> SUFFICES ASSUME WellBehaved PROVE Spec => StartsWithinLimit
  OBVIOUS
<1>1. Spec => []RunnerInv
  BY RunnerInvariant
<1>2. RunnerInv /\ [Next]_vars => [WithinLimit]_vars
  BY NextInv
<1> QED
  BY <1>1, <1>2, PTL DEF Spec, StartsWithinLimit

=============================================================================
