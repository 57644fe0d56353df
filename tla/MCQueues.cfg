SPECIFICATION Spec
CONSTANTS
  NoLimit = NoLimit
  P1 = P1
  Pipelines = {P1}
  Partitions = {q1}
  Jobs = {j1, j2, j3}
  Buildability = {TRUE}
  InitDefs <- QueueDefs
  ReloadDefs = {}
SYMMETRY JobSymmetry
INVARIANTS WaitListInv WaitListBounded ShutdownIsComplete
PROPERTIES StartsWithinLimit StartsInOrder SettledIsFinal DisplacesNewestOfPartition ImplementsLifecycle
