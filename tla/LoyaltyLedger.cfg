SPECIFICATION Spec
CONSTANTS
  r1 = r1
  r2 = r2
  Requests = {r1, r2}
  Customers = {amy, amy2}
  Sales = {"sale"}
  Remote = {"order"}
  Keys = {"k"}
  NoKey = NoKey
  NoOne = NoOne
  Costs = {1, 2}
  Earns = {1}
  Deltas <- MCDeltas
  MaxEntries = 4
SYMMETRY Symmetry
INVARIANTS BalanceExplained RedeemedAndReturnedOnce
PROPERTIES WalletsAreAccounts
CHECK_DEADLOCK FALSE
