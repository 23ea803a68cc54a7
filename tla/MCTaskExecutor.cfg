CONSTANTS
  a = a
  b = b
  c = c
  x = x
  Tasks = {a, b, c, x}
  Batches <- MCBatches
  Adhoc = {x}
  Endless = {a}
  NoTask = NoTask
SPECIFICATION Spec
INVARIANTS TypeOK DoneIsSettled FailFast NotRunMeansNotSent NeverOversleeps
PROPERTIES DoneIsFinal KeepsLifecycle WorkerEnds
CHECK_DEADLOCK FALSE
