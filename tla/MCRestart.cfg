SPECIFICATION SpecStore
CONSTANTS
  NoLimit = NoLimit
  NoData = NoData
  P1 = P1
  Pipelines = {P1}
  Partitions = {q1}
  Jobs = {j1, j2}
  Buildability = {TRUE}
  InitDefs <- KeepOneDefs
  ReloadDefs <- KeepForAWhileDefs
  MaxRestarts = 1
  Faults = {"crash", "disk"}
  Logged = {j1, j2}
SYMMETRY JobSymmetry
INVARIANTS GracefulStopLosesNothing LogsBelongToJobs
PROPERTIES SavedResultsAreFinal RetentionDropsOldestFirst
