SPECIFICATION FairSpec
CONSTANTS
  NoLimit = NoLimit
  Absent = Absent
  Broken = Broken
  LoadError = LoadError
  Files <- TwoFiles
  Contents <- SeenContents
  InitialDisks <- SeenDisks
  Watch = {TRUE, FALSE}
  MaxEdits = 2
INVARIANTS OnlyValidDefinitions
PROPERTIES ReloadTakesEffect NoPartialReload
