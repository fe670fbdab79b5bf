SPECIFICATION FairSpec
CONSTANTS
  Api = {r1, r2}
  Sales = {o1, o2}
  Intents = {i1, i2}
  Keys = {k1}
  NoKey = NoKey
  NoSale = NoSale
  Payments <- CashOneLinkOrAll
  Handlers = {"create_pos_order", "open_till", "close_till", "void_pos_order", "create_pos_payment_intent", "get_pos_payment_intent", "mark_intent_paid", "update_payment_status"}
  MaxSessions = 1
  MaxPatches = 1
  MaxCrashes = 0
INVARIANTS RepliesAgree SpentInOneSale
PROPERTIES RequestsEnd
CHECK_DEADLOCK FALSE
