SPECIFICATION Spec
CONSTANTS
  hi = hi
  order = order
  ours = ours
  theirs = theirs
  Workers = {w1, w2}
  Messages = {hi, order}
  Shops = {ours}
  Shop <- MCShop
  Connected = {ours}
  MaxDays = 2
  MaxPosts = 2
  MaxTries = 2
  MaxAttempts = 2
  MaxFaults = 1
SYMMETRY Symmetry
INVARIANTS AcceptedIsQueued HandledOnce CopiesExplained ToldOncePerDay StuckOnlyByAccident
CHECK_DEADLOCK FALSE
