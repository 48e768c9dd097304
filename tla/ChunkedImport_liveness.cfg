SPECIFICATION FairSpec
CONSTANTS
  w1 = w1
  w2 = w2
  r1 = r1
  NumChunks = 3
  MaxChunks = 2
  Batches = 2
  Contents <- First
  Worker <- OneWorker
  Request <- OneRequest
  Faults <- NoFaults
INVARIANTS
  CancelStopsSoon
PROPERTIES
  ImportEnds
\* The import comes to rest: nothing is queued and every worker is idle.
CHECK_DEADLOCK FALSE
