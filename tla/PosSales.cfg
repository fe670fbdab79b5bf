SPECIFICATION Spec
CONSTANTS
  Api = {r1, r2}
  Sales = {o1, o2}
  Intents = {i1}
  Keys = {k1}
  NoKey = NoKey
  NoSale = NoSale
  Payments <- CashAndLink
  Handlers = {"create_pos_order", "open_till", "close_till", "refund_pos_order", "void_pos_order", "confirm_pos_order_provider_refund", "refund_order_payment", "create_pos_payment_intent", "get_pos_payment_intent", "resend_pos_payment_intent", "cancel_pos_payment_intent", "mark_intent_paid"}
  MaxSessions = 2
  MaxPatches = 0
  MaxCrashes = 1
SYMMETRY Symmetry
INVARIANTS CashUpExact RefundWithinTotal
PROPERTIES IntentsFollowStateMachine
CHECK_DEADLOCK FALSE
