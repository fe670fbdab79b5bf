SPECIFICATION FairSpec
CONSTANTS
  hi = hi
  order = order
  ours = ours
  theirs = theirs
  Workers = {w1, w2}
  Messages = {hi, order}
  Shops = {ours}
  Shop <- MCShop
  MaxDays = 1
  Connected = {ours}
  MaxPosts = 1
  MaxTries = 2
  MaxAttempts = 2
  MaxFaults = 2
PROPERTIES OutboxDrains
CHECK_DEADLOCK FALSE
