SPECIFICATION Spec
CONSTANTS
  cafe = cafe
  grill = grill
  mine = mine
  shared = shared
  given = given
  firm = firm
  other = other
  None = None
  Requests = {r1, r2}
  Businesses = {cafe, grill}
  Numbers = {mine, shared}
  Accounts = {firm, other}
  Platform = {given}
  CanSee <- MCCanSee
  MaxCalls = 3
INVARIANTS ConfirmedByMeta PlatformOnlyAfterLeaving
SYMMETRY Symmetry
CHECK_DEADLOCK FALSE
