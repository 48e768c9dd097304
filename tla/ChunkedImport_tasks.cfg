SPECIFICATION Spec
CONSTANTS
  w1 = w1
  w2 = w2
  r1 = r1
  NumChunks = 3
  MaxChunks = 2
  Batches = 1
  Contents <- First
  Worker <- TwoWorkers
  Request <- OneRequest
  Faults <- AllFaults
SYMMETRY Interchangeable
INVARIANTS
  TypeOK
  ParentReflectsChunks
  CompletedIsApplied
  NoDoubleDispatch
  WithinCap
PROPERTIES
  Implements
\* The import comes to rest: nothing is queued and every worker is idle.
CHECK_DEADLOCK FALSE
