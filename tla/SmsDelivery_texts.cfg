SPECIFICATION Spec
CONSTANTS
  s1 = s1
  b1 = b1
  t1 = t1
  t2 = t2
  h1 = h1
  h2 = h2
  None = None
  Single <- OneSingle
  Bulk <- OneBulk
  Reported <- OneSingle
  Text <- TwoTexts
  Handler <- TwoHandlers
  Budget = 1
  Crashes = 1
SYMMETRY Interchangeable
INVARIANTS
  TypeOK
  KeywordDecides
  AppliedOnce
PROPERTIES
  OptOutHeld
  SettledStays
\* Every text has its end, and the voter no more replies.
CHECK_DEADLOCK FALSE
