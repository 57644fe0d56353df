SPECIFICATION SpecApi
CONSTANTS
  NoLimit = NoLimit
  NoJob = NoJob
  P1 = P1
  Pipelines = {P1}
  Partitions = {q1}
  Jobs = {j1, j2}
  Buildability = {TRUE}
  InitDefs <- ApiDefs
  ReloadDefs <- ApiReloadDefs
SYMMETRY JobSymmetry
PROPERTIES ReadersAreSafe
