SPECIFICATION Spec
CONSTANTS
  w1 = w1
  w2 = w2
  Worker <- TwoWorkers
  Batches = 2
  Asks = 3
  Splits = 2
  Recoveries = 1
  Crashes = 1
  Failures = 1
SYMMETRY Interchangeable
CONSTRAINT ThirdAlone
INVARIANTS
  TypeOK
  ImportedOnce
  NothingSkipped
  QueuedHasTask
\* The import comes to rest: nothing is queued and every worker is idle.
CHECK_DEADLOCK FALSE
