SPECIFICATION FairSpec
CONSTANTS
  w1 = w1
  w2 = w2
  r1 = r1
  NumChunks = 2
  MaxChunks = 1
  Batches = 1
  Contents <- Both
  Worker <- OneWorker
  Request <- OneRequest
  Faults <- NoFaults
PROPERTIES
  CancelEndsEveryChunk
\* The import comes to rest: nothing is queued and every worker is idle.
CHECK_DEADLOCK FALSE
