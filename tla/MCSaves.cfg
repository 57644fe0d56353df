SPECIFICATION FairStore
CONSTANTS
  NoLimit = NoLimit
  NoData = NoData
  P1 = P1
  Pipelines = {P1}
  Partitions = {q1}
  Jobs = {j1, j2}
  Buildability = {TRUE}
  InitDefs <- DelayedDefs
  ReloadDefs = {}
  MaxRestarts = 0
  Faults = {}
  Logged = {}
PROPERTIES EveryEndIsSaved ShutdownExits
