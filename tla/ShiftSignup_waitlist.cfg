SPECIFICATION Spec
CONSTANTS
  v1 = v1
  v2 = v2
  v3 = v3
  r1 = r1
  r2 = r2
  r3 = r3
  None = None
  Volunteer <- Volunteers
  Request <- Requests
  Sizes <- UpToTwo
  Resizes = 1
  Checks = 3
SYMMETRY Interchangeable
INVARIANTS
  TypeOK
  CapacityHeld
  NoPlaceIdle
  PositionsDistinct
PROPERTIES
  FirstComeFirstPromoted
  CancellationStands
\* A deleted shift takes no more requests.
CHECK_DEADLOCK FALSE
