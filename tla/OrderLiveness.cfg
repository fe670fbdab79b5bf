CONSTANTS
  Orders = {o1}
  Api = {a1}
  Bot = {b1}
  NoTxn = NoTxn
  NoOrder = NoOrder
  Handlers = {"update_order_status", "set_delivery_fee", "update_payment_status",
    "mark_order_paid", "refund_order_payment", "cancel_stale_delivery_fee_orders",
    "cancel_unpaid_orders", "place", "chat", "finalise", "reject"}
  OnlinePaymentRequired = TRUE
  InventoryEnabled = TRUE
  Corrections = {"PAID"}
  MaxPaymentRequests = 1
  MaxCrashes = 0
SPECIFICATION FairSpec
PROPERTIES FeeQueueDrains UnpaidResolved LocksReleased
CHECK_DEADLOCK FALSE
