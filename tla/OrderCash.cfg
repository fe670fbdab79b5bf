CONSTANTS
  Orders = {o1, o2}
  Api = {a1}
  Bot = {b1}
  NoTxn = NoTxn
  NoOrder = NoOrder
  Handlers = {"update_order_status", "set_delivery_fee",
    "cancel_stale_delivery_fee_orders", "place", "chat", "finalise", "reject"}
  OnlinePaymentRequired = FALSE
  InventoryEnabled = TRUE
  Corrections = {}
  MaxPaymentRequests = 0
  MaxCrashes = 0
SPECIFICATION Spec
SYMMETRY Symmetry
INVARIANTS HandedOverOnlyIfCooked CancelledStockReturned
CHECK_DEADLOCK FALSE
