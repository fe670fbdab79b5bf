SPECIFICATION Spec
CONSTANTS
  r1 = r1
  r2 = r2
  c1 = c1
  c2 = c2
  Requests = {r1, r2}
  Ingredients = {"flour"}
  Orders = {"o"}
  Reported = {"x"}
  Entries = {"w"}
  Deliveries = {"d"}
  Counts = {c1, c2}
  Options = {"large", "plain"}
  Recipes <- MCRecipes
  Baskets <- MCBaskets
  Milli = {1}
  MaxTime = 1
  MaxPosts = 2
  MaxCalls = 4
SYMMETRY Symmetry
INVARIANTS BookedOnce ReturnsMirror RejectionReturnsStock
PROPERTIES ExpectedIsBook
CHECK_DEADLOCK FALSE
