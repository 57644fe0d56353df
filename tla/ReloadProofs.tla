---------------------------- MODULE ReloadProofs ----------------------------
(***************************************************************************)
(* Proofs about Reload, for any number of files with any contents and any  *)
(* number of changes to them: the definitions in use are valid, and a      *)
(* reload the files did not change under is all or nothing.                *)
(***************************************************************************)
EXTENDS Reload, TLAPS

valid(ds) ==
  \A p \in DOMAIN ds : validate(ds[p].pipeline.def) /\ validTasks(ds[p].pipeline.Tasks)

\* What is used is valid, and so is what has been read so far.
ValidInv == valid(defs) /\ valid(loaded)

\* since is a state of the files the current reload has seen.
CountInv == edits \in Nat /\ since \in Nat /\ since <= edits

\* While the files stay as they were at the start of the reload, loaded holds the
\* pipelines of the files read so far, and these can be loaded together.
read == present(disk) \ matches

ProgressInv ==
  loop = "loading" /\ edits = since =>
    matches \subseteq present(disk) /\ loadable(disk, read) /\ loaded = pipelinesOf(disk, read)

Inv == ValidInv /\ CountInv /\ ProgressInv

-----------------------------------------------------------------------------
\* Load adds valid pipelines to valid ones, if it accepts the file.
LEMMA LoadKeepsValid ==
  ASSUME NEW f, NEW content, NEW sofar, valid(sofar), canLoad(content, sofar)
  PROVE  valid(Load(f, content, sofar))
<1> SUFFICES ASSUME NEW p \in DOMAIN sofar \cup DOMAIN content
             PROVE  LET d == Load(f, content, sofar)[p].pipeline
                    IN  validate(d.def) /\ validTasks(d.Tasks)
  BY DEF valid, Load
<1>1. CASE p \in DOMAIN sofar
  BY <1>1 DEF valid, Load
<1>2. CASE p \notin DOMAIN sofar
  <2>1. validate(setDefaults(content[p]).def) /\ validTasks(setDefaults(content[p]).Tasks)
    BY <1>2 DEF canLoad, validContent
  <2>2. Load(f, content, sofar)[p].pipeline = setDefaults(content[p])
    BY <1>2 DEF Load, stored
  <2> QED BY <2>1, <2>2
<1> QED BY <1>1, <1>2

\* The pipelines of files that can be loaded together: each is declared in one
\* of them, and stored as that file has it.
LEMMA PipelinesOfFiles ==
  ASSUME NEW D, NEW F, loadable(D, F)
  PROVE  /\ \A p : p \in DOMAIN pipelinesOf(D, F) <=> \E f \in F : p \in DOMAIN D[f]
         /\ \A f \in F : \A p \in DOMAIN D[f] : pipelinesOf(D, F)[p] = stored(f, D[f][p])
<1>1. \A p : p \in DOMAIN pipelinesOf(D, F) <=> \E f \in F : p \in DOMAIN D[f]
  BY DEF pipelinesOf
<1>2. ASSUME NEW f \in F, NEW p \in DOMAIN D[f]
      PROVE  pipelinesOf(D, F)[p] = stored(f, D[f][p])
  <2> DEFINE g == CHOOSE g \in F : p \in DOMAIN D[g]
  <2>1. g \in F /\ p \in DOMAIN D[g]
    OBVIOUS
  <2>2. g = f
    BY <2>1 DEF loadable
  <2>3. pipelinesOf(D, F)[p] = stored(g, D[g][p])
    BY DEF pipelinesOf
  <2> QED BY <2>2, <2>3
<1> QED BY <1>1, <1>2

\* All of them are valid.
LEMMA LoadableIsValid ==
  ASSUME NEW D, NEW F, loadable(D, F)
  PROVE  valid(pipelinesOf(D, F))
<1> SUFFICES ASSUME NEW f \in F, NEW p \in DOMAIN D[f]
             PROVE  LET d == pipelinesOf(D, F)[p].pipeline
                    IN  validate(d.def) /\ validTasks(d.Tasks)
  <2>1. \A p : p \in DOMAIN pipelinesOf(D, F) <=> \E f \in F : p \in DOMAIN D[f]
    BY PipelinesOfFiles
  <2> QED BY <2>1 DEF valid
<1>1. validate(setDefaults(D[f][p]).def) /\ validTasks(setDefaults(D[f][p]).Tasks)
  BY DEF loadable, validContent
<1>2. pipelinesOf(D, F)[p] = stored(f, D[f][p])
  BY PipelinesOfFiles
<1>3. pipelinesOf(D, F)[p].pipeline = setDefaults(D[f][p])
  BY <1>2 DEF stored
<1> QED BY <1>1, <1>3

\* Loading one file more: Load computes the pipelines of the larger set of files.
LEMMA LoadOneMore ==
  ASSUME NEW D, NEW F, NEW f, f \notin F, loadable(D, F), canLoad(D[f], pipelinesOf(D, F))
  PROVE  /\ loadable(D, F \cup {f})
         /\ pipelinesOf(D, F \cup {f}) = Load(f, D[f], pipelinesOf(D, F))
<1> DEFINE G == F \cup {f}
           old == pipelinesOf(D, F)
           new == pipelinesOf(D, G)
           all == DOMAIN old \cup DOMAIN D[f]
<1>1. \A p : p \in DOMAIN old <=> \E g \in F : p \in DOMAIN D[g]
  BY PipelinesOfFiles
<1>2. \A g \in F : \A p \in DOMAIN D[g] : old[p] = stored(g, D[g][p])
  BY PipelinesOfFiles
<1>3. loadable(D, G)
  BY <1>1 DEF loadable, canLoad
<1>4. \A p : p \in DOMAIN new <=> \E g \in G : p \in DOMAIN D[g]
  BY <1>3, PipelinesOfFiles
<1>5. \A g \in G : \A p \in DOMAIN D[g] : new[p] = stored(g, D[g][p])
  BY <1>3, PipelinesOfFiles
<1>6. new = [p \in DOMAIN new |-> new[p]]
  BY DEF pipelinesOf
<1> HIDE DEF old, new
<1>7. DOMAIN new = all
  BY <1>1, <1>4
<1>8. ASSUME NEW p \in all
      PROVE  new[p] = IF p \in DOMAIN old THEN old[p] ELSE stored(f, D[f][p])
  <2>1. CASE p \in DOMAIN old
    BY <2>1, <1>1, <1>2, <1>5
  <2>2. CASE p \notin DOMAIN old
    BY <2>2, <1>5
  <2> QED BY <2>1, <2>2
<1>9. new = Load(f, D[f], old)
  BY <1>6, <1>7, <1>8 DEF Load
<1> QED BY <1>3, <1>9 DEF old, new

-----------------------------------------------------------------------------
\* prunner only starts with files that can be loaded.
LEMMA InitInv ==
  ASSUME Init
  PROVE  Inv
<1>1. loadable(disk, present(disk)) /\ defs = pipelinesOf(disk, present(disk))
  BY DEF Init, LoadRecursively
<1>2. valid(defs)
  BY <1>1, LoadableIsValid
<1>3. valid(loaded)
  BY DEF Init, valid, NoDefs
<1>4. CountInv /\ ProgressInv
  BY DEF Init, CountInv, ProgressInv
<1> QED BY <1>2, <1>3, <1>4 DEF Inv, ValidInv

\* A file is changed: what the current reload has seen is out of date.
LEMMA EditStep ==
  ASSUME Inv, NEW f, NEW content, Edit(f, content)
  PROVE  Inv'
<1>1. edits' = edits + 1 /\ UNCHANGED <<defs, loaded, since>>
  BY DEF Edit
<1>2. ValidInv'
  BY <1>1 DEF Inv, ValidInv, valid
<1>3. CountInv' /\ ProgressInv'
  BY <1>1 DEF Inv, CountInv, ProgressInv
<1> QED BY <1>2, <1>3 DEF Inv

\* A reload begins: no file has been read.
LEMMA BeginReloadStep ==
  ASSUME Inv, BeginReload
  PROVE  Inv'
<1>1. /\ matches' = present(disk) /\ loaded' = NoDefs /\ since' = edits
      /\ UNCHANGED <<disk, defs, edits>>
  BY DEF BeginReload
<1>2. ValidInv'
  BY <1>1 DEF Inv, ValidInv, valid, NoDefs
<1>3. CountInv'
  BY <1>1 DEF Inv, CountInv
<1>4. ProgressInv'
  <2>1. present(disk)' = present(disk) /\ read' = {}
    BY <1>1 DEF present, read
  <2>2. loadable(disk, {}) /\ pipelinesOf(disk, {}) = NoDefs
    BY DEF loadable, pipelinesOf, NoDefs
  <2>3. loadable(disk', read') /\ pipelinesOf(disk', read') = NoDefs
    BY <1>1, <2>1, <2>2
  <2> QED BY <1>1, <2>1, <2>3 DEF ProgressInv
<1> QED BY <1>2, <1>3, <1>4 DEF Inv

\* The next file is read.
LEMMA LoadFileStep ==
  ASSUME Inv, LoadFile
  PROVE  Inv'
<1>1. /\ loop = "loading"
      /\ UNCHANGED <<disk, defs, edits, since>>
      /\ \E f \in matches :
           \/ /\ canLoad(disk[f], loaded) /\ loaded' = Load(f, disk[f], loaded)
              /\ matches' = matches \ {f} /\ loop' = loop
           \/ loop' = "select" /\ loaded' = loaded
  BY DEF LoadFile
<1>2. CountInv'
  BY <1>1 DEF Inv, CountInv
<1>3. ASSUME NEW f \in matches, canLoad(disk[f], loaded), loaded' = Load(f, disk[f], loaded),
             matches' = matches \ {f}
      PROVE  ValidInv' /\ ProgressInv'
  <2>1. ValidInv'
    <3>1. valid(Load(f, disk[f], loaded))
      BY <1>3, LoadKeepsValid DEF Inv, ValidInv
    <3> QED BY <1>1, <1>3, <3>1 DEF Inv, ValidInv, valid
  <2>2. ASSUME edits = since
        PROVE  /\ matches' \subseteq present(disk)
               /\ loadable(disk, read') /\ loaded' = pipelinesOf(disk, read')
    <3>1. matches \subseteq present(disk) /\ loadable(disk, read) /\ loaded = pipelinesOf(disk, read)
      BY <1>1, <2>2 DEF Inv, ProgressInv
    <3>2. present(disk)' = present(disk)
      BY <1>1 DEF present
    <3>3. read' = read \cup {f} /\ f \notin read
      BY <1>3, <3>1, <3>2 DEF read
    <3> QED BY <1>3, <3>1, <3>3, LoadOneMore
  <2>3. present(disk)' = present(disk) /\ disk' = disk
    BY <1>1 DEF present
  <2> QED BY <1>1, <2>1, <2>2, <2>3 DEF ProgressInv
<1>4. ASSUME loop' = "select" /\ loaded' = loaded
      PROVE  ValidInv' /\ ProgressInv'
  BY <1>1, <1>4 DEF Inv, ValidInv, valid, ProgressInv
<1>5. ValidInv' /\ ProgressInv'
  BY <1>1, <1>3, <1>4
<1> QED BY <1>2, <1>5 DEF Inv

\* What a step of the loop that reads no file, of a client or of nobody leaves.
LEMMA OtherSteps ==
  ASSUME Inv, EndReload \/ LoopStops \/ Signal \/ Shutdown \/ UNCHANGED vars
  PROVE  Inv'
<1>1. /\ UNCHANGED <<disk, matches, loaded, edits, since>>
      /\ defs' \in {defs, loaded}
      /\ loop' = loop \/ loop' # "loading"
  BY DEF EndReload, LoopStops, Signal, Shutdown, vars
<1>2. ValidInv'
  BY <1>1 DEF Inv, ValidInv, valid
<1>3. CountInv'
  BY <1>1 DEF Inv, CountInv
<1>4. ProgressInv'
  <2>1. CASE loop' = loop
    <3>1. present(disk)' = present(disk) /\ read' = read
      BY <1>1 DEF present, read
    <3>2. loadable(disk, read)' <=> loadable(disk, read)
      BY <1>1, <3>1
    <3>3. pipelinesOf(disk, read)' = pipelinesOf(disk, read)
      BY <1>1, <3>1
    <3> QED BY <1>1, <2>1, <3>1, <3>2, <3>3 DEF Inv, ProgressInv
  <2>2. CASE loop' # "loading"
    BY <2>2 DEF ProgressInv
  <2> QED BY <1>1, <2>1, <2>2
<1> QED BY <1>2, <1>3, <1>4 DEF Inv

\* Inv is kept by whoever edits the files and by the goroutine that reads them.
THEOREM ReloadInvariant == Spec => []Inv
<1>1. Init => Inv
  BY InitInv
<1>2. Inv /\ [Next]_vars => Inv'
  BY EditStep, BeginReloadStep, LoadFileStep, OtherSteps DEF Next, ReloadLoop, Stopped
<1> QED BY <1>1, <1>2, PTL DEF Spec

(***************************************************************************)
(* The runner never gets a definition validate would refuse: Load checks   *)
(* every pipeline before it is stored, and a reload that fails stores      *)
(* nothing.  Module PipelineRunner assumes this of every reload.           *)
(***************************************************************************)
THEOREM DefinitionsAreValid == Spec => []OnlyValidDefinitions
<1>1. Inv => OnlyValidDefinitions
  BY DEF Inv, ValidInv, valid, OnlyValidDefinitions
<1> QED BY <1>1, ReloadInvariant, PTL

(***************************************************************************)
(* A reload of files that nobody changes meanwhile puts all their          *)
(* pipelines to use or none: reading them one by one, with a check against *)
(* those read before, comes to what LoadRecursively is of them together.   *)
(***************************************************************************)
THEOREM ReloadIsAllOrNothing == Spec => NoPartialReload
<1>1. Inv /\ [Next]_vars =>
        [defs' # defs => (edits = since => defs' = LoadRecursively(disk))]_vars
  <2> SUFFICES ASSUME Inv, [Next]_vars, defs' # defs, edits = since
               PROVE  defs' = LoadRecursively(disk)
    OBVIOUS
  <2>1. EndReload
    BY DEF Next, Edit, Signal, Shutdown, ReloadLoop, BeginReload, LoadFile, LoopStops, Stopped, vars
  <2>2. loop = "loading" /\ matches = {} /\ defs' = loaded
    BY <2>1 DEF EndReload
  <2>3. read = present(disk)
    BY <2>2 DEF read
  <2>4. loadable(disk, read) /\ loaded = pipelinesOf(disk, read)
    BY <2>2 DEF Inv, ProgressInv
  <2> QED BY <2>2, <2>3, <2>4 DEF LoadRecursively
<1> QED BY <1>1, ReloadInvariant, PTL DEF NoPartialReload, Spec

=============================================================================
