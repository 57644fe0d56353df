SPECIFICATION FairSpec
CONSTANTS
  s1 = s1
  s2 = s2
  Scripts = {s1, s2}
  Length <- TwoAndOne
  Pids = {p1, p2}
  NoPid = NoPid
  AllowFailure = {{}, {s1}}
  KillTimeout = {TRUE, FALSE}
INVARIANTS OutputIsComplete
PROPERTIES ImplementsScript CancelLeavesNoProcess
