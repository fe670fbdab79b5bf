SPECIFICATION FairSpec
CONSTANTS
  placed = placed
  placedAgain = placedAgain
  cancel = cancel
  o1 = o1
  Requests = {r1, r2}
  Workers = {w1, w2}
  Orders = {o1}
  Events = {placed, placedAgain, cancel}
  Order <- MCOrder
  Cancels = {cancel}
  MaxPosts = 3
  MaxTries = 2
  MaxEdits = 2
  MaxFaults = 1
INVARIANTS AnsweredIsQueued SoldOnce KitchenConsents AcceptedIsTold
PROPERTIES FinalIsFinal OffersAreSettled
CHECK_DEADLOCK FALSE
