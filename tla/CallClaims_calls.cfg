SPECIFICATION Spec
CONSTANTS
  c1 = c1
  c2 = c2
  e1 = e1
  e2 = e2
  p1 = p1
  p2 = p2
  r1 = r1
  r2 = r2
  None = None
  Caller <- TwoCallers
  Entry <- OneEntry
  Phone <- TwoPhones
  MaxAttempts = 2
  Request <- TwoRequests
  Results = 2
  Helps = 1
SYMMETRY Interchangeable
INVARIANTS
  TypeOK
  OneCallerPerVoter
  ReachedStaysDone
  TriesRunOut
  ClaimHasOwner
\* A completed list with nobody on a screen may have nothing left to do.
CHECK_DEADLOCK FALSE
