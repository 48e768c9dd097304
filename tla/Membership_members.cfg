SPECIFICATION Spec
CONSTANTS
  u1 = u1
  u2 = u2
  c1 = c1
  c2 = c2
  s1 = s1
  s2 = s2
  None = None
  User <- TwoUsers
  Home <- OneAtHome
  Campaign <- TwoCampaigns
  Founder = u1
  First = c1
  Slot <- TwoSlots
  Given = {"viewer", "admin"}
  Asks = 3
  Fails = 2
SYMMETRY Interchangeable
INVARIANTS
  TypeOK
  CreatorIsMember
  GrantHasMember
  OrgFollowsCampaigns
\* Requests are bounded.
CHECK_DEADLOCK FALSE
