CONSTANTS
  Orders = {o1}
  Api = {a1, a2}
  Bot = {b1}
  NoTxn = NoTxn
  NoOrder = NoOrder
  Handlers = {"update_order_status", "update_payment_status",
    "mark_order_paid", "refund_order_payment",
    "place"}
  OnlinePaymentRequired = TRUE
  InventoryEnabled = TRUE
  Corrections = {"PENDING", "PAID"}
  MaxPaymentRequests = 4
  MaxCrashes = 1
SPECIFICATION Spec
SYMMETRY Symmetry
INVARIANTS KitchenOnlyAfterPayment RefundsExplained
CHECK_DEADLOCK FALSE
