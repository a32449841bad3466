\* Safety, refinement and liveness: two ids submitted three times by whoever asks,
\* two workers, room for one finished record.
CONSTANTS
  j1 = j1
  j2 = j2
  w1 = w1
  w2 = w2
  Ids = {j1, j2}
  Workers = {w1, w2}
  MaxKeep = 1
  Keep = 0
  MaxSubmits = 3
  MaxNow = 2
SPECIFICATION LiveSpec
INVARIANTS
  NoLostJob
  OneWorkerPerJob
  CancelIsExact
PROPERTIES
  StartsInOrder
  ImplementsLifecycle
  NobodyIsLeftWaiting
CHECK_DEADLOCK FALSE
