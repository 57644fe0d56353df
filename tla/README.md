# A TLA+ model of prunner

prunner runs *pipelines*: named graphs of shell tasks. A client schedules a *job* of a
pipeline over HTTP; the job waits in a queue, runs within the pipeline's concurrency limit,
may be cancelled, and is kept in a history until a retention rule drops it. This directory
holds TLA+ modules that model prunner from the HTTP handlers down to the process groups of its
scripts, TLC configurations that check them on small instances, and TLAPS proofs for instances
of any size. `PROJECT.json` maps every definition to the source lines it models and lists runs,
findings, hazards and theorems.

## 1. The system

| Part | State | Operations | Hard because |
|---|---|---|---|
| Definitions (`definition/`) | `PipelineDef`s | load, validate, compare | replaced while jobs run |
| Queue strategies (`prunner.go`) | none (pure) | `canAcceptJob`, `modifyWaitList` | limits, partitions, displaced jobs |
| PipelineRunner (`prunner.go`) | job map, wait lists, job records, timers | `ScheduleAsync`, `CancelJob`, `StartDelayedJob`, `JobCompleted`, `HandleTaskChange`, `ReplaceDefinitions`, `SaveToStore`, `Shutdown` | goroutines, timers and requests in any order; a loop that re-enters itself |
| Scheduler, TaskRunner (`taskctl/`) | stage statuses, `lastErr`, `cancelled`, context | `Schedule`, `Run`, `execute`, `Cancel` | one goroutine per task, callbacks, cancel goroutines |
| Executor (`taskctl/executor*.go`) | processes, waiting goroutines | start, interrupt, kill after a timeout | children outlive their leader; the kill may come late |
| Task order (`prunner.go`) | none (pure) | `sortTasksByDependencies` | maps iterate in any order; cycles |
| Output store, data store | files | write, read, remove; save, load | crash or error between two steps |
| HTTP API (`server/`) | none | schedule, cancel, detail, list, logs | reads race saves and retention |
| App (`app/`) | contexts | signals, reload, start and stop | a signal at any time, also during a reload |

A request or a timer calls the runner. The runner starts one goroutine per job, which calls
`Schedule` on the job's scheduler; the scheduler starts one goroutine per task and calls back
(`HandleStageChange`, `HandleTaskChange`). A cancel starts a further goroutine that calls
`Scheduler.Cancel`. All callbacks and handlers take the one mutex `r.mx`. When a job is done its
goroutine calls `JobCompleted`, which starts waiting jobs. A persist loop saves the job map,
applying retention; `Shutdown` cancels what waits, polls for what runs, and waits for everybody.

What makes each part correct:

* the queue stays within its limits and displaces the right job;
* the runner loses no job, runs none twice, never starts one beyond the limit, leaves no slot
  idle, settles every job, and lets a shutdown end with nothing left behind;
* the scheduler starts a task only after its dependencies, reports failures, and stops when
  cancelled;
* a script ends once it is cancelled, and leaves no process behind;
* a client's view of its job never goes back, and what its cancel was answered stays true; the
  data file never takes a result back, whatever crashes;
* a reload is all or nothing, and the last one asked for takes effect.

## 2. Modules

| Module | Models |
|---|---|
| `Definition` | the relevant fields of `PipelineDef`, and `validate` |
| `WaitList` | the three queue strategies as pure operators |
| `PipelineRunner` | the runner; its properties; the inductive invariants `RunnerInv` and `WaitListInv` |
| `JobLifecycle` | abstract specification: the life of a job as a client sees it |
| `Restart` | the runner with its data file and log directories; failed saves, crashes, restarts |
| `Api` | the runner with its HTTP handlers and the read lock, and one client that follows a job |
| `Reload` | definition files, `LoadRecursively`, `Equals`, the reloading goroutine |
| `JobExecution` | one job in detail: scheduler, task goroutines, callbacks, cancel, on_error |
| `Executor` | the scripts of several tasks as processes, process groups and signals |
| `Script` | abstract specification: what `TaskRunner.execute` promises about a script |
| `TaskOrder` | `sortTasksByDependencies` |
| `MC...` | instances for TLC |
| `PipelineRunnerSafety` | proofs of `TypeOK`, of `RunnerInv` and of the safety properties that follow |
| `PipelineRunnerLife` | proofs that the runner implements `JobLifecycle`, that shutdown is complete and results are final; and that the wait lists keep their order, their limits and no job that could run |
| `ApiProofs`, `RestartProofs` | proofs about the runner with its clients, and with its stores |
| `JobExecutionProofs`, `ExecutorProofs`, `ReloadProofs`, `TaskOrderProofs` | proofs about these modules |

`PipelineRunner` extends `WaitList`, which extends `Definition`, and instantiates
`JobLifecycle` with a refinement mapping. `Restart` and `Api` extend `PipelineRunner`: their
actions are the runner's, composed with the stores and with the client. `Executor` implements
`Script`, which is what `JobExecution` assumes of a script.
`PipelineRunner` and `JobExecution` meet at the job's
goroutine: `PipelineRunner` reduces a call of `Schedule` to what it may return and to the task
failures it may report, `JobExecution` shows how these come about. `Reload` and `PipelineRunner`
meet at `ReplaceDefinitions`: `OnlyValidDefinitions` is what `ConstantsAssumption` assumes.

### PipelineRunner and the code

One variable per field: `defs`, `jobsByID` (also stands for `jobsByPipeline`, which holds the
same jobs), `waitListByPipeline`, `job` (the `PipelineJob` structs), plus what Go keeps
implicitly: the state of each `AfterFunc` timer, where each job goroutine is (`goroutine`, with
its local `lastErr` in `result`), the cancel goroutines (`cancelGo`), whether the scheduler a job
points to has been cancelled, the buffered save request, the persist loop, and the progress of
`Shutdown`.

A handler is one action, because it runs under `r.mx` from start to end. The exception is
`startJobsOnWaitList`: `startJob` may call it again (a graph that cannot be built), while the
outer call still holds its own copy of the list and of the free slots. It is stepped one entry
at a time over an explicit stack `calls`; while the stack is not empty the mutex is held and no
other action is enabled. `RunJobErrorHandler` takes the mutex twice and is two actions with a
gap.

Times are reduced to what is compared: `Created` is a rank, `Start` and `StartDelay` are the
tests for nil and for zero; retention by age picks, per save, any rank up to which jobs count as
expired. `buildable` is whether `buildPipelineGraph` accepts the job: it refuses a cyclic
`depends_on` and the reserved variable name, so it may differ from job to job.

### JobExecution and the code

The state is the status of every stage, where the goroutine of every stage is, the `jobTask`
records the API shows, the goroutine of the job, and per scheduler the `cancelled` flag, the
context and the goroutines in `Cancel`. A round of `Schedule` visits the waiting stages in any
order (`g.Nodes()` is a map). A callback is one step with the change of status it reports.
`checkStatus` reads the dependencies in one step: their statuses only move forward, so reading
them one by one gives no other result. A script is reduced to how it ends; an interrupted script
may still end in its own way.

### Restart and the code

`SaveToStore` is two steps: under the read lock it drops expired jobs, removes their logs and
takes a snapshot (`Snapshot`); then `JsonDataStore.Save` writes a temporary file and renames it
(`SaveRenames`, or `SaveFails`). All other goroutines go on in between; the persist loop and
`Shutdown` do not. `removeLogs` may fail for any of the dropped jobs. `Crash` may happen in any
state: it leaves the data file and the logs and forgets everything else, the unfinished
temporary file included. `NewPipelineRunner` then loads the data file and marks what was running
or waiting as cancelled. A clean exit is followed by `Restart` in the same way. The history
variable `faults` records what has failed. Renaming is taken to be atomic and the contents of a
renamed file to be complete: the death of the process is modelled, the loss of power (there is no
`fsync`) is not, and neither are child processes that survive the death of prunner.

### Api and the code

`request` is where the client's read is: between `ReadBegins` and the answer it holds the read
lock, which keeps out every handler that takes the write lock but not `SaveToStore`
(`Saves`). Deleting from a map that is being read is undefined in Go: the step may go on, or stop
prunner (`fatal`). `jobLogs` gives up the lock before it opens the log files (`Reader`). `seen`
is what the client was last told about its job; other clients schedule and cancel meanwhile.
`jobCancel` is the whole handler: 404 for an unknown job, 500 for a completed one that was not
cancelled (`errJobAlreadyCompleted`), else 200, also for a job that is cancelled already and for
a failed assertion of `cancelJobInternal`, which is only logged. `cancelAnswer` is the status the
client's own last cancel got.

### Executor and the code

A command is a process, leader of its own group, which may leave one child in its group, holding
the output pipe or not. For every started command `createExecHandler` leaves a goroutine that
waits for the context (`waiter`) and then signals the group *by number*: the number may by then
belong to a command of another task (`freePids`: a number is free once its leader was reaped and
no process of the group is left). `cmd.Wait` returns when the leader has ended and nobody holds
the pipe. SIGINT obliges a process to nothing, so it needs no action of its own:
`LeaderExits` and `ChildExits` are always possible. Processes are assumed to stay in their
process group (no `setsid`).

### Reload and the code

`BeginReload` globs the files (`matches`); they are read one by one, in the order of their names
(`LoadFile`), and may be edited, broken, removed or added between any two reads.
`LoadRecursively` is the reference: what a load of files that nobody edits comes to. A signal is buffered once (`notify`). `Equals` is translated field by field,
including the fields it leaves out; `Script` and `DependsOn` are compared as lists.

### TaskOrder and the code

The list comes from a map and starts in any order; the inner loop meets the nodes in any order;
the three sorts are by name or by order. Names are numbers: only their order counts.

## 3. What TLC checks

Passing runs (`PROJECT.json` has the properties of each):

| Run | Instance | States | Shows |
|---|---|---|---|
| `queues` | 3 jobs; append, replace, partitioned; 1 or 2 slots; with and without delay; concurrency 1, 2; on_error | 1.0 M | limits, order, no lost job, a complete shutdown, timers racing replacement; `WaitListInv`, which contains `RunnerInv`; `PipelineRunner` implements `JobLifecycle` |
| `tenants` | 3 jobs, buildable or not; 2 partitions with 1 slot each | 639 k | tenants displace only their own newest job; re-entrancy loses no job and leaves no slot idle |
| `api` | 2 jobs, 1 client that follows one; on_error, retention, a reload, shutdown | 5.7 M | answers never go back; a cancel finds the scheduler at work and does what its answer says; what runs is counted |
| `restart` | 2 jobs, 1 restart; crashes, failing saves and removals, a reload of the retention rule | 3.4 M | saved results are final, a clean stop loses nothing, the oldest go first, no logs are left behind |
| `saves` | 2 jobs, fairness; a replace queue with delay | 214 k | every end of a job is saved, every shutdown ends |
| `job_graph` | 3 tasks; chain plus one, join | 3.8 M | dependencies, failures, fail-fast, statuses |
| `job_completes` | 2 tasks, all configurations | 420 k | a job completes if its scripts end; without on_error a cancelled one completes even if they would not |
| `executor` | 2 tasks, 3 commands, 2 process numbers; with and without kill timeout and allow_failure | 212 k | `Executor` implements `Script`; a cancelled task leaves no process; output is complete |
| `reload` | 2 files, 8 contents, 2 edits, watch on and off | 152 k | only valid definitions, all or nothing, the last request takes effect |
| `task_order` | 4 tasks, all acyclic graphs and all graphs of single dependencies, all orders of the maps | 1.2 M | dependencies first, the result does not depend on the maps, cycles do not block |

**Bounds.** Three jobs are the smallest number with one running, one in front and one behind on
a wait list (or one per partition plus a displacing one); four are needed for the stale outer
loop of the run `unbuildable`. Two are enough for `api`, `restart` and `saves`: one running beside
one that is waiting, settled or dropped, which is where answers, snapshots and a retention order
first differ. One pipeline is enough: handlers touch one pipeline only, apart
from shutdown and retention, which treat each alike; the proofs cover any number. Three tasks
are the smallest number with a dependency and an independent task, and with a join; with four, a
task can be freed while two others are queued. One restart (`MaxRestarts`) shows what a start
makes of the data file and of the logs, and everything that follows is again a state of the
runner. Two edits (`MaxEdits`) are one before and one during a reload. Three commands on two
process numbers make a number be used again by a command of the other task. No state constraint
is used, and every other state space is finite because a job identity is used once. No run loads
definitions that lack a pipeline known before, lets a replace queue be unlimited, or edits files
in a way that `Equals` does not see: section 4 says what happens then.

**Symmetry.** Job identities are interchangeable (creation order is the `Created` rank, not the
identity), so `Permutations(Jobs)` is used in the safety runs, never in the liveness runs.

**Fairness.** Weak fairness of each goroutine (the Go scheduler runs runnable goroutines, and
`sync.Mutex` does not starve a waiter), of timers, of saves, of the persist loop and of
`Shutdown`. For `EveryEndIsSaved`, `ShutdownExits` and `JobCompletes` the scripts of a job are assumed to end (`ScriptsEnd`);
`CancelEndsPlainJob` assumes only that a script ends once its context is cancelled, which the
kill timeout of the executor brings about: this is the fairness of `Script`, which `Executor` is
checked to implement from the fairness of its goroutines alone. In `Reload` the goroutine takes a
ready case of its select and, in watch mode, the ticker ticks. Clients, processes, signals, reloads and failures are never assumed to happen.

**Deadlock** is checked everywhere; the exit of prunner and the end of a job are explicit
stuttering actions (`Terminated`, `Exited`, `Stopped`, `Ended`).

## 4. Where code and documentation disagree

Two runs have a single property that states what a comment says, and TLC refutes it. The quotes
are in `PROJECT.json`.

* `unbuildable` – a start that fails inside the wait list loop re-enters the loop; the stale
  outer loop puts a running job back on the list, where it can be marked as cancelled.
* `map_race` – `SaveToStore` deletes from the job maps under the read lock, beside readers.

Also seen while modelling, in definitions that are part of the model but without a run:

* With `queue_limit: 2`, replace and a start delay, a job cancelled while waiting keeps its slot,
  so that new jobs displace each other in the other one (`modifyWaitList`; `src/README.md:275`
  says the first slot is always worked on).
* `replace` without `queue_limit` panics after registering the job (`modifyPanics`).
* After a reload without the pipeline, a save forgets a running job
  (`determineIfJobShouldBeRemoved`).
* A cancel does not reach an on_error task that starts after it (`initErrorScheduler`), and a
  cancel noticed between two tasks leaves a job that looks successful (`ScheduleLoop`).
* `Equals` does not compare `OnError` and `QueuePartitionLimit`, and takes an environment with
  `A=""` for one with `B="1"`: a reload that changes nothing else is ignored (`pipelineEquals`,
  `envEquals`).
* `queue_limit: 0` refuses every job, also when nothing runs (`canAcceptJob`).
* The on_error task runs after a cancel without any failed task, and under fail-fast a failed job
  may be marked as cancelled though nobody cancelled it: `NothingWithoutCause` states what does
  hold. A task that fails before its script starts does not abort the others (`RunRefuses` calls
  no `HandleTaskChange`).
* The logs of an expired job are removed before the data file forgets the job: after a crash or a
  failed save in between, the job is back without its logs; and a job that crashed before its
  first save leaves logs nobody owns (`LogsBelongToJobs` holds only without faults).

## 5. What is proved

For every set of jobs, pipelines, partitions and definitions:

| Module | Theorems | From |
|---|---|---|
| `PipelineRunnerSafety` | `TypeCorrect` | no condition |
| | `RunnerCountsWhatRuns`, `RunnerLosesNoJob`, `RunnerStartsWithinLimit` | `RunnerInvariant` |
| `PipelineRunnerLife` | `RunnerImplementsLifecycle`, `ShutdownCompletes`, `SettledStays` | `LifeInvariant` |
| | `DisplacesNewest` | `WaitListInvariant` |
| | `WorkIsConserved`, `StartsAreInOrder` | the same, and `ConservingInvariant` |
| | `WaitListsAreBounded` | `RunnerInvariant` and `QueuesBounded` |
| `ApiProofs` | `CancelsAreHonoured`, `ReadsAreMonotone` | `ApiInvariant` |
| `RestartProofs` | `StopLosesNothing`, `LogsHaveOwners`, `SavedResultsStay`, `RetentionIsOldestFirst` | `StoreInvariant` |
| `JobExecutionProofs` | `TypeCorrect`, `DependenciesAreKept`, `ScheduleWaitsForAll`, `FailuresAreReported`, `FailFastReachesScheduler`, `OnErrorIsSpared`, `CancelsAndErrorsHaveCauses`, `StatusesAreFinal` | `JobInvariant` |
| `ExecutorProofs` | `OutputComplete`, `ExecutorImplementsScript` | `ExecutorInvariant` |
| `ReloadProofs` | `DefinitionsAreValid`, `ReloadIsAllOrNothing` | `ReloadInvariant` |
| `TaskOrderProofs` | `TasksFollowDependencies`, `OnlyCyclesAreStuck`, `OrderIsStable` | `OrderInvariant` |

**Assumptions.** The constants are assumed as the modules declare them: finitely many jobs, and
definitions that pass `validate` (which `DefinitionsAreValid` proves of every reload); finitely
many tasks; markers such as `NoLimit`, `NoTask` and `NoData` that are told from the values they
stand beside. The theorems about the runner, its clients and its stores (the first four modules,
`TypeCorrect` excepted) have the form `WellBehaved => (Spec => ...)`. `WellBehaved` has three
parts, and each is needed: a reload removes no pipeline, every graph can be built
(`unbuildable`), and no replace queue is unlimited (section 4 has the counterexamples). So these
theorems say exactly when the runner is right. The other modules need no such condition.

Three theorems about the wait lists have one more hypothesis, about reloads, since
`ReplaceDefinitions` changes `r.defs` and nothing else. `WorkIsConserved` and `StartsAreInOrder`
assume `ConcurrencyNotRaised`: after a reload that raises a concurrency nobody looks for a job to
start until the next completion or timer, so jobs wait beside a free slot and the next request
overtakes them. `WaitListsAreBounded` assumes `LimitsNotLowered`: a list that was filled under a
higher limit is not trimmed, and a replace strategy that finds it too long still gives up one
slot only. Reloads that do the opposite, or change anything else, are covered.

**The runner.** `CountsWhatRuns` is not inductive by itself. A job is marked as cancelled by
three functions: `cancelJobInternal`, which looks at `Start`, and `modifyWaitList` and
`Shutdown`, which do not – they rely on the wait list holding only jobs that have not started.
`QueuesOK` states that, and that no job is on a list twice. While `startJobsOnWaitList` runs, the
list in `waitListByPipeline` is stale; `queue(p)` is the list as it will be written back (what
was kept, then what is still to do), and all invariants are about `queue`. `QueuesComplete` says
that no waiting job is missing from it, which gives `NoLostJob` once the mutex is free. `SlotsOK`
says that the loop is never entered twice and that its remaining free slots plus the jobs
executing stay within the concurrency; that gives `WithinLimit` for a start from the wait list,
and `CountsWhatRuns` gives it for a direct start.

The proof has one lemma per action (or group of like actions); they rest on `QuietStep` (a
handler that leaves the lists alone), `LookingStep` (one that then calls `startJobsOnWaitList`),
`TakeHead` (taking the head of the list in the loop) and `ModifyWaitListElements` (what the
queue strategies do to a list). TLC checks `RunnerInv` in the run `queues`, as a part of
`WaitListInv`.

**The life of a job.** `PipelineRunnerLife` puts one lemma between the handlers and everything
said about jobs over time: `StepHasEffect`. Whatever step the runner takes, its effect on the
jobs is that some waiting jobs are cancelled, one is started with a slot free, one finishes, one
is launched at once, one is accepted (perhaps in the place of another one of its pipeline), or
that the definitions change and no job does. Each effect is one action of `JobLifecycle`, which is
the refinement. `LifeInv` adds to `RunnerInv` that a started job is executing or completed
(else a job could be neither waiting, running nor settled), that nothing waits from
`ShutdownBegins` on, and that nothing is alive after `ShutdownEnds`.

**The wait lists.** The code decides by position which job is displaced and which one is
started; the properties speak of the order in which jobs were created. `WaitListInv` adds to
`RunnerInv` what makes the two agree: `RanksOK`, `Created` is a rank, so a new job is the newest;
`QueuesOrdered`, every `queue(p)` is in creation order; and `KeptOK`, a `startJobsOnWaitList` that
still has a free slot has kept no job that could use it. The last is what the loop needs in
order not to overtake (`StartsAreInOrder`) and to leave nothing behind (`ReturnConserves`: it
returns with its list used up, so either no slot or no startable job is left). That the other
pipelines conserve their work while the loop runs is `OthersConserving`, an invariant of its own
because only it needs the condition on reloads. One lemma, `StepHasMove`, says what any step does
to the lists and to the startable jobs: nothing, a call of `startJobsOnWaitList`, a step of its
loop, a `ScheduleAsync`, or the beginning of a shutdown. Displacement follows from
`ReplacedSlotLast` (the slot given up is the last of the list or of the partition) and the order
of the list. The bounds follow from `ModifyWaitListWithin`, which takes the test before the new
job is on the list (`canAcceptJob`) and the replacement afterwards together; the slots of a
partition are counted through an injection into those the list had before (`RemoveAtSlots`).
`QueuesBounded` states the bounds of the stored list and of `queue(p)` alike, since
`WaitListReturn` stores the latter.

**Clients.** A step of `Api` is a step of the runner or leaves it alone (`ApiStep`), so `LifeInv`
holds there as well. `Scheduled` says that a job whose goroutine is alive points to the scheduler
at work, as `cancelJobInternal` asserts. With it `StepAtWork` shows that no step takes a cancel
back before on_error takes over: a cancel goroutine that is done has cancelled the scheduler the
tasks run under. `CancelOK` adds what was answered, and a job that is settled stays so. `ClientOK` relates the answer a client has seen to its job: what it was told
is what the job was at some time (`tellsPast`), and a job that was not found stays unknown –
identities are not used again, and retention only forgets.

**Restarts.** A step of `SpecStore` is a step of the runner (with `StepHasEffect` again) or
`NewPipelineRunner`, which must establish the runner's part of the invariant from nothing but the
data file (`FreshRunner`). The part of `LifeInv` that fails there is replaced by `EndedOK`: a
started job is executing, completed or cancelled. The order `follows` on job records then chains
data file, snapshot and runner: each holds what the next one has made of it (`RecordsOK`), so a
rename, a failed rename and a restart can only move a record forward. `RetentionOK` says that
what the runner has dropped, and what the snapshot will drop, is older than what it keeps;
it rests on `RemovesOldestFirst`: both rules of `determineIfJobShouldBeRemoved` are monotone in
the age of a job. `NothingLost` is `GracefulStopLosesNothing` from the final snapshot on; the logs
of a clean restart need it.

**Tasks of a job.** `Inv` of `JobExecutionProofs` says, for every stage, which combinations of
status, goroutine, recorded error and `jobTask` flags exist, what a cancelled scheduler and a
pending cancel goroutine say about their causes, and where the job's goroutine can be meanwhile.
Dependencies are kept because a status that `checkStatus` has seen as done never changes back.

**Scripts.** The invariant of `ExecutorProofs` ties processes to the commands they belong to: only
the command `execute` is at can have a leader that is not reaped, and a pipe is held only by
processes of its own command. That the result of a script is one `Script` allows follows.

**Reload.** While a load goes on, `loaded` is exactly `pipelinesOf` the files read so far, if
nobody has edited since it began, and valid in any case; hence the two theorems.

**Task order.** The invariant `OrderInv` says which edges are still there: exactly those from
nodes not visited yet and, while a node is being scanned, those of the visited node to nodes not
met yet. Hence a node is in the queue or visited once all its dependencies are, and a visited node
has a higher order than its dependencies; the final sort then keeps them apart. When the queue is
empty, a node without an order still has an edge from another one. That the order is stable
needs more: `Greedy` says that a node was visited before any node with a greater name whose
dependencies had all been visited by then (the queue is sorted before each visit, so its head is
the smallest free node). Another order that respects the dependencies has, at the first place
where it differs from the result, a node that was free when the result's was taken, so it has a
greater name there.

Every inductive invariant was checked by TLC on the instances of section 3 before it was proved
(`WaitListInv`, and `RunnerInv` with it, still is, in the run `queues`).

**Only model-checked:** liveness (`EveryEndIsSaved`, `ShutdownExits`, `JobCompletes`,
`CancelEndsPlainJob`, `ReloadTakesEffect`, `CancelLeavesNoProcess`, `SortTerminates`, and the
fairness part of `ImplementsScript`): fairness and `ENABLED` are out of the prover's reach.

## 6. Not modelled, and the plan

Left out for good: malformed HTTP requests, JWT and the encoding of answers, the list of
pipelines (`ListPipelines` reads under the lock and nobody promises that it agrees with the list
of jobs in the same answer), command line, logging, configuration, the line writer (not used),
the Windows executor and reload, a runner without a data store (only tests have one, and its
`Shutdown` would wait for ever), and what taskctl offers but prunner never sets (conditions,
contexts, before and after commands, timeouts, nested pipelines).

Every safety property the runs check is proved, `ImplementsScript` up to its fairness. (TLC also
checks two of them where a condition of the proofs fails: `tenants` checks `NoLostJob` and
`WorkConserving` with jobs whose graph cannot be built.) What is left to do is on the side of the code:
were one of the disagreements of section 4 repaired, its condition in `WellBehaved` could be
dropped, and were `ReplaceDefinitions` to call `startJobsOnWaitList` and to trim the lists, so
could the two on reloads.
