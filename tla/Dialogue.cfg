SPECIFICATION Spec
CONSTANTS
  Dishes <- MCDishes
  Answered <- MCAnswered
  Variants <- MCVariants
  NoLine = NoLine
  NoOrder = NoOrder
  MaxOrders = 2
  DeliveryEnabled = TRUE
  NameRequired = FALSE
  PhoneRequired = FALSE
  OnlinePaymentRequired = FALSE
  MaxUnits = 1
INVARIANTS
  OneOpenOrder
PROPERTIES
  OrderedAsShown
  SeenThrough
