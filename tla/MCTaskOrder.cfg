SPECIFICATION FairSpec
CONSTANTS
  Names = {1, 2, 3, 4}
  Graphs <- AcyclicOrSingle
INVARIANTS DependenciesFirst StuckOnlyOnCycles StableOrder
PROPERTIES SortTerminates
