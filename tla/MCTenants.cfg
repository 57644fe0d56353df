SPECIFICATION Spec
CONSTANTS
  NoLimit = NoLimit
  P1 = P1
  Pipelines = {P1}
  Partitions = {q1, q2}
  Jobs = {j1, j2, j3}
  Buildability = {TRUE, FALSE}
  InitDefs <- OneSlotDefs
  ReloadDefs = {}
SYMMETRY JobSymmetry
INVARIANTS NoLostJob WorkConserving
PROPERTIES DisplacesNewestOfPartition
