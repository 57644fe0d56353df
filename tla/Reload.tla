------------------------------- MODULE Reload -------------------------------
(***************************************************************************)
(* How pipeline definitions get from the disk into the runner:             *)
(* LoadRecursively and Load (definition/loader.go), the comparison with    *)
(* the definitions in use (Equals in definition/pipelines.go), and the     *)
(* goroutine that reloads on SIGUSR1 or, in watch mode, on a ticker        *)
(* (handleDefinitionChanges in app/app.go).                                *)
(*                                                                         *)
(* The files are read one after the other while somebody may edit them.    *)
(***************************************************************************)
EXTENDS Definition, Sequences, FiniteSets

CONSTANTS
  Files,         \* the files the glob pattern can match, in the order of their names
  Contents,      \* what a file may contain
  InitialDisks,  \* the files prunner is started with
  Absent, Broken,\* files that are not there, or not readable as YAML
  LoadError,     \* the result of a load that fails
  Watch,         \* subset of BOOLEAN: the --watch flag
  MaxEdits       \* bound on the changes to the files

(***************************************************************************)
(* A file is absent, or broken, or maps pipeline names to definitions: the *)
(* PipelineDef of module Definition, the environment and the tasks.  An    *)
(* environment maps names to values; Script and DependsOn are lists.       *)
(***************************************************************************)
NotDecoded == {Absent, Broken}

ASSUME ReloadAssumption ==
  /\ MaxEdits \in Nat
  /\ \A D \in InitialDisks : D \in [1..Len(Files) -> Contents]

VARIABLES
  disk,      \* the files
  defs,      \* the definitions in use, the runner's and the goroutine's
  watch,     \* watchEnabled
  notify,    \* is a signal buffered in notifyReload?
  loop,      \* the goroutine: "select", "loading", "stopped"
  matches,   \* the files still to be loaded, in the order of their names
  loaded,    \* pipelinesDef: what has been loaded so far
  ctxDone,   \* is prunner shutting down?
  edits,     \* number of changes to the files
  asked,     \* history: has a reload been due since the last change?
  since      \* history: edits when the current reload began

vars == <<disk, defs, watch, notify, loop, matches, loaded, ctxDone, edits, asked, since>>

-----------------------------------------------------------------------------
(***************************************************************************)
(* Loading.                                                                *)
(***************************************************************************)
setDefaults(d) == IF d.def.Concurrency = 0 THEN [d EXCEPT !.def.Concurrency = 1] ELSE d

validTasks(tasks) ==
  \A t \in DOMAIN tasks : \A k \in DOMAIN tasks[t].DependsOn : tasks[t].DependsOn[k] \in DOMAIN tasks

\* Mutant: the definitions are not validated.
canLoadUnchecked(content, sofar) ==
  content \notin NotDecoded /\ \A p \in DOMAIN content : p \notin DOMAIN sofar

\* The file can be decoded, and validate accepts its pipelines.
validContent(content) ==
  /\ content \notin NotDecoded
  /\ \A p \in DOMAIN content :
       LET d == setDefaults(content[p]) IN validate(d.def) /\ validTasks(d.Tasks)

\* Does Load accept the file, given the pipelines of the files before it?
canLoad(content, sofar) ==
  validContent(content) /\ \A p \in DOMAIN content : p \notin DOMAIN sofar

\* What Load stores of the definition d in file f.
stored(f, d) == [pipeline |-> setDefaults(d), SourcePath |-> f]

\* The pipelines of file f, each with its SourcePath, added to those of other files.
Load(f, content, sofar) ==
  [p \in DOMAIN sofar \cup DOMAIN content |->
     IF p \in DOMAIN sofar THEN sofar[p] ELSE stored(f, content[p])]

\* What the glob pattern finds on the disk D.
present(D) == {f \in 1..Len(Files) : D[f] # Absent}

NoDefs == [p \in {} |-> LoadError]

\* The files F of the disk D can all be loaded: no two declare the same pipeline.
loadable(D, F) ==
  /\ \A f \in F : validContent(D[f])
  /\ \A f, g \in F : f # g => DOMAIN D[f] \cap DOMAIN D[g] = {}

\* Their pipelines.
pipelinesOf(D, F) ==
  [p \in UNION {DOMAIN D[f] : f \in F} |->
     LET f == CHOOSE f \in F : p \in DOMAIN D[f] IN stored(f, D[f][p])]

\* LoadRecursively on a disk that does not change: all files, or an error.
LoadRecursively(D) ==
  IF loadable(D, present(D)) THEN pipelinesOf(D, present(D)) ELSE LoadError

-----------------------------------------------------------------------------
(***************************************************************************)
(* Equals.  The names of an environment are looked up in the other one,    *)
(* where a missing name reads as the empty string.                         *)
(***************************************************************************)
lookup(env, k) == IF k \in DOMAIN env THEN env[k] ELSE ""

envEquals(e1, e2) ==
  /\ Cardinality(DOMAIN e1) = Cardinality(DOMAIN e2)
  /\ \A k \in DOMAIN e1 : lookup(e2, k) = e1[k]

taskEquals(t1, t2) ==
  /\ t1.Script = t2.Script
  /\ t1.DependsOn = t2.DependsOn
  /\ t1.AllowFailure = t2.AllowFailure
  /\ envEquals(t1.Env, t2.Env)

\* PipelineDef.Equals: OnError and QueuePartitionLimit are not compared.
pipelineEquals(p1, p2) ==
  LET d1 == p1.pipeline  d2 == p2.pipeline
  IN  /\ d1.def.Concurrency = d2.def.Concurrency
      /\ d1.def.QueueLimit = d2.def.QueueLimit
      /\ d1.def.QueueStrategy = d2.def.QueueStrategy
      /\ d1.def.StartDelay = d2.def.StartDelay
      /\ d1.def.ContinueRunningTasksAfterFailure = d2.def.ContinueRunningTasksAfterFailure
      /\ d1.def.RetentionPeriod = d2.def.RetentionPeriod
      /\ d1.def.RetentionCount = d2.def.RetentionCount
      /\ envEquals(d1.Env, d2.Env)
      /\ DOMAIN d1.Tasks = DOMAIN d2.Tasks
      /\ \A t \in DOMAIN d1.Tasks : taskEquals(d1.Tasks[t], d2.Tasks[t])
      /\ p1.SourcePath = p2.SourcePath

Equals(ds1, ds2) ==
  /\ DOMAIN ds1 = DOMAIN ds2
  /\ \A p \in DOMAIN ds1 : pipelineEquals(ds1[p], ds2[p])

-----------------------------------------------------------------------------
\* appAction has loaded the definitions and started the goroutine.
Init ==
  /\ disk \in {D \in InitialDisks : LoadRecursively(D) # LoadError}
  /\ defs = LoadRecursively(disk)
  /\ watch \in Watch
  /\ notify = FALSE
  /\ loop = "select"
  /\ matches = {}
  /\ loaded = NoDefs
  /\ ctxDone = FALSE
  /\ edits = 0
  /\ asked = watch
  /\ since = 0

\* Somebody writes, breaks, renames or removes a file.
Edit(f, content) ==
  /\ edits < MaxEdits
  /\ disk[f] # content
  /\ disk' = [disk EXCEPT ![f] = content]
  /\ edits' = edits + 1
  /\ asked' = watch
  /\ UNCHANGED <<defs, watch, notify, loop, matches, loaded, ctxDone, since>>

\* SIGUSR1: a signal more than the channel holds is dropped.
Signal ==
  /\ ~notify \/ ~asked
  /\ notify' = TRUE
  /\ asked' = TRUE
  /\ UNCHANGED <<disk, defs, watch, loop, matches, loaded, ctxDone, edits, since>>

Shutdown ==
  /\ ~ctxDone
  /\ ctxDone' = TRUE
  /\ UNCHANGED <<disk, defs, watch, notify, loop, matches, loaded, edits, asked, since>>

\* The select statement: the ticker, in watch mode, or a signal; glob the files.
BeginReload ==
  /\ loop = "select"
  /\ \/ watch /\ UNCHANGED notify
     \/ notify /\ notify' = FALSE
  /\ loop' = "loading"
  /\ matches' = present(disk)
  /\ loaded' = NoDefs
  /\ since' = edits
  /\ UNCHANGED <<disk, defs, watch, ctxDone, edits, asked>>

\* Mutant: a file that cannot be loaded is skipped.
LoadFileSkips ==
  /\ loop = "loading"
  /\ \E f \in matches :
       /\ \A g \in matches : f <= g
       /\ loaded' = IF canLoad(disk[f], loaded) THEN Load(f, disk[f], loaded) ELSE loaded
       /\ matches' = matches \ {f}
  /\ UNCHANGED <<disk, defs, watch, notify, loop, ctxDone, edits, asked, since>>

\* The next file: the load goes on, or it fails and the old definitions stay.
LoadFile ==
  /\ loop = "loading"
  /\ \E f \in matches :
       /\ \A g \in matches : f <= g
       /\ \/ /\ canLoad(disk[f], loaded)
             /\ loaded' = Load(f, disk[f], loaded)
             /\ matches' = matches \ {f}
             /\ UNCHANGED loop
          \/ /\ ~canLoad(disk[f], loaded)
             /\ matches' = {}
             /\ loop' = "select"
             /\ UNCHANGED loaded
  /\ UNCHANGED <<disk, defs, watch, notify, ctxDone, edits, asked, since>>

\* Mutant: signals that came during the reload are taken as answered.
EndReloadDrains ==
  /\ loop = "loading"
  /\ matches = {}
  /\ defs' = IF Equals(defs, loaded) THEN defs ELSE loaded
  /\ loop' = "select"
  /\ notify' = FALSE
  /\ UNCHANGED <<disk, watch, matches, loaded, ctxDone, edits, asked, since>>

\* All files are loaded: ReplaceDefinitions, if the definitions changed.
EndReload ==
  /\ loop = "loading"
  /\ matches = {}
  /\ defs' = IF Equals(defs, loaded) THEN defs ELSE loaded
  /\ loop' = "select"
  /\ UNCHANGED <<disk, watch, notify, matches, loaded, ctxDone, edits, asked, since>>

LoopStops ==
  /\ loop = "select"
  /\ ctxDone
  /\ loop' = "stopped"
  /\ UNCHANGED <<disk, defs, watch, notify, matches, loaded, ctxDone, edits, asked, since>>

ReloadLoop == BeginReload \/ LoadFile \/ EndReload \/ LoopStops

Stopped == loop = "stopped" /\ UNCHANGED vars

Next ==
  \/ \E f \in 1..Len(Files), content \in Contents : Edit(f, content)
  \/ Signal
  \/ Shutdown
  \/ ReloadLoop
  \/ Stopped

Spec == Init /\ [][Next]_vars

\* The goroutine goes on: a ready case of the select is taken, and the ticker ticks.
FairSpec == Spec /\ WF_vars(ReloadLoop)

-----------------------------------------------------------------------------
(***************************************************************************)
(* The runner never sees a definition that validate would refuse, whatever *)
(* is done to the files while they are read: module PipelineRunner assumes *)
(* this of every reload (ConstantsAssumption).                             *)
(***************************************************************************)
OnlyValidDefinitions ==
  \A p \in DOMAIN defs : validate(defs[p].pipeline.def) /\ validTasks(defs[p].pipeline.Tasks)

(***************************************************************************)
(* "Prunner will reload pipeline definitions from disk when a SIGUSR1      *)
(* signal is received (and if the definitions changed)": once the files    *)
(* have stopped changing and can be loaded, and a signal was sent          *)
(* afterwards or watch mode is on, the runner gets to use exactly these    *)
(* definitions, also if the signal came in the middle of another reload.   *)
(***************************************************************************)
ReloadTakesEffect ==
  \A n \in 0..MaxEdits :
    (edits = n /\ asked /\ LoadRecursively(disk) # LoadError)
      ~> (defs = LoadRecursively(disk) \/ edits # n \/ ctxDone)

(***************************************************************************)
(* A reload is all or nothing: when the files were left alone during it,   *)
(* it gives the runner all of them or, if one of them cannot be loaded or  *)
(* two declare the same pipeline, changes nothing.                         *)
(***************************************************************************)
NoPartialReload ==
  [][defs' # defs => (edits = since => defs' = LoadRecursively(disk))]_vars

=============================================================================
