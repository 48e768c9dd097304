SPECIFICATION Spec
CONSTANTS
  r1 = r1
  r2 = r2
  h1 = h1
  h2 = h2
  Invites = 2
  Request <- TwoRequests
  Hook <- TwoHooks
  Events <- ThreeEvents
SYMMETRY Interchangeable
INVARIANTS
  TypeOK
  OneAccountPerAddress
  DecisionReachesApplicant
  MailShowsWorst
\* The address is invited and decided about for the last time.
CHECK_DEADLOCK FALSE
