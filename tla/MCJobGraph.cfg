SPECIFICATION Spec
CONSTANTS
  a = a
  b = b
  c = c
  Tasks = {a, b, c}
  OnErrorTask = on_error
  NoTask = NoTask
  Graphs <- ThreeTasks
  FailFast = {TRUE, FALSE}
  OnError = {TRUE, FALSE}
INVARIANTS TypeOK DependenciesHold NothingOutlivesSchedule FailureIsReported FailFastCancels OnErrorIsNotCancelledByFailFast NothingWithoutCause StatusIsFinal
