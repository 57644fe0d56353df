SPECIFICATION FairSpec
CONSTANTS
  a = a
  b = b
  c = c
  Tasks = {a, b}
  OnErrorTask = on_error
  NoTask = NoTask
  Graphs <- TwoTasks
  FailFast = {TRUE, FALSE}
  OnError = {TRUE, FALSE}
PROPERTIES JobCompletes CancelEndsPlainJob
