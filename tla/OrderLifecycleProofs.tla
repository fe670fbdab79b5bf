------------------------ MODULE OrderLifecycleProofs ------------------------
(***************************************************************************)
(* What OrderLifecycle promises for every set of orders, of request slots  *)
(* and every configuration, proved with TLAPS.                             *)
(*                                                                         *)
(* The invariants about the stock and the kitchen are not inductive: a     *)
(* commit is decided on the row its transaction READ, so the invariant has *)
(* to say what a snapshot may still claim of the row as it is now          *)
(* (SnapshotOK) next to what holds of the row itself (RowOK).              *)
(***************************************************************************)
EXTENDS OrderLifecycle, TLAPS

BeforeKitchen == PRE_PREPARATION_STATUSES \cup {"CANCELLED"}

\* A row the kitchen never had is before the kitchen or absent, and has its
\* stock back when it is cancelled.
RowOK(o) ==
  /\ o \notin cooked => /\ order[o].status \in BeforeKitchen \cup {"ABSENT"}
                        /\ order[o].status = "CANCELLED" => order[o].stock # "CONSUMED"
  /\ ~InventoryEnabled => order[o].stock # "CONSUMED"

\* What t read of a row the kitchen never had: it was before the kitchen, and
\* if it was cancelled then its stock is still back.
SnapshotOK(t) ==
  \A o \in DOMAIN txn[t].read :
    /\ Exists(o)
    /\ o \notin cooked =>
         /\ txn[t].read[o].status \in BeforeKitchen
         /\ txn[t].read[o].status = "CANCELLED" => order[o].stock # "CONSUMED"
    /\ txn[t].op = "update_order_status" =>
         <<txn[t].read[o].status, txn[t].to>> \in Transitions

\* The value a handler asked for is one its handler accepts.
RequestOK(t) ==
  /\ txn[t].op = "update_order_status" => txn[t].to \in Statuses
  /\ txn[t].op \in {"update_payment_status", "refund_order_payment", "finalise"}
       => txn[t].to \in Payments

\* Orders with a link, orders paid through it and the session's pending order
\* are rows of the table.
KnownOK ==
  /\ \A o \in linked \cup captured : Exists(o)
  /\ conv.pending # NoOrder => Exists(conv.pending)

StockInv ==
  /\ TypeOK
  /\ KnownOK
  /\ \A t \in Txns : RequestOK(t) /\ SnapshotOK(t)
  /\ \A o \in Orders : RowOK(o)

-----------------------------------------------------------------------------
(* How a step may treat the rows and the transactions *)

\* Rows stay, and stock that is back stays back.
RowsStep ==
  \A o \in Orders :
    Exists(o) => /\ order'[o].status # "ABSENT"
                 /\ order[o].stock # "CONSUMED" => order'[o].stock # "CONSUMED"

\* A transaction that has just read: its snapshot is the row.
JustRead(t) ==
  /\ order' = order /\ cooked' = cooked
  /\ \A o \in DOMAIN txn'[t].read :
       /\ o \in Orders /\ Exists(o)
       /\ txn'[t].read[o] = order[o]
       /\ txn'[t].op = "update_order_status" =>
            <<order[o].status, txn'[t].to>> \in Transitions

TxnStep ==
  \A t \in Txns :
    \/ /\ txn'[t].op = txn[t].op /\ txn'[t].to = txn[t].to
       /\ txn'[t].read = txn[t].read
    \/ txn'[t] = Idle
    \/ JustRead(t)

\* A snapshot stays credible across such a step.
LEMMA SnapshotStep ==
  ASSUME StockInv, RowsStep, TxnStep, cooked \subseteq cooked',
         NEW t \in Txns
  PROVE  SnapshotOK(t)'
<1>1. CASE txn'[t] = Idle
  BY <1>1 DEF SnapshotOK, Idle, NoRead
<1>2. CASE JustRead(t)
  BY <1>2 DEF SnapshotOK, JustRead, StockInv, RowOK, Exists
<1>3. CASE /\ txn'[t].op = txn[t].op /\ txn'[t].to = txn[t].to
           /\ txn'[t].read = txn[t].read
  <2>1. DOMAIN txn[t].read \subseteq Orders
    BY DEF StockInv, TypeOK, Txn, Snapshots
  <2>2. SnapshotOK(t)
    BY DEF StockInv
  <2>. QED
    BY <1>3, <2>1, <2>2 DEF SnapshotOK, RowsStep, Exists
<1>. QED
  BY <1>1, <1>2, <1>3 DEF TxnStep

\* What an action that begins a transaction does to the slots.
LEMMA BeginsSlots ==
  ASSUME TypeOK, NEW t \in Txns, NEW op, NEW to \in Requested,
         NEW S \in SUBSET Orders, \A o \in S : Exists(o),
         Begins(t, op, to, S)
  PROVE  /\ txn' \in [Txns -> Txn]
         /\ txn'[t].op = op /\ txn'[t].to = to
         /\ txn'[t].read = [o \in S |-> order[o]]
         /\ \A u \in Txns \ {t} : txn'[u] = txn[u]
<1>. DEFINE new == [Idle EXCEPT !.op = op, !.to = to,
                                !.read = [o \in S |-> order[o]]]
<1>1. op \in HandlerNames
  BY ConstantsAssumption DEF Begins
<1>2. [o \in S |-> order[o]] \in [S -> Row]
  BY DEF TypeOK, Exists, NoRow
<1>3. [o \in S |-> order[o]] \in Snapshots
  BY <1>2 DEF Snapshots
<1>4. NoConv \in Conv
  BY DEF NoConv, Conv, ConvStates, MaybeOrder
<1>5. new \in Txn
  BY <1>1, <1>3, <1>4 DEF Txn, Idle, Phases
<1>6. /\ new.op = op /\ new.to = to /\ new.read = [o \in S |-> order[o]]
  BY DEF Idle
<1>7. txn' = [txn EXCEPT ![t] = new] /\ txn \in [Txns -> Txn]
  BY DEF Begins, TypeOK
<1>8. txn'[t] = new /\ \A u \in Txns \ {t} : txn'[u] = txn[u]
  BY <1>7
<1>9. txn' \in [Txns -> Txn]
  BY <1>5, <1>7
<1>. QED
  BY <1>6, <1>8, <1>9

LEMMA IdleType == Idle \in Txn
<1>1. NoRead \in [{} -> Row]
  BY DEF NoRead
<1>2. NoRead \in Snapshots
  BY <1>1 DEF Snapshots
<1>. QED
  BY <1>2 DEF Idle, Txn, Phases, Requested, NoConv, Conv, ConvStates, MaybeOrder

LEMMA EndsSlots ==
  ASSUME TypeOK, NEW t \in Txns, Ends(t)
  PROVE  /\ txn' \in [Txns -> Txn]
         /\ txn'[t] = Idle
         /\ \A u \in Txns \ {t} : txn'[u] = txn[u]
  BY IdleType DEF Ends, TypeOK

LEMMA PhaseSlots ==
  ASSUME TypeOK, NEW t \in Txns, NEW p \in Phases,
         txn' = [txn EXCEPT ![t].phase = p]
  PROVE  /\ txn' \in [Txns -> Txn]
         /\ \A u \in Txns : /\ txn'[u].op = txn[u].op
                              /\ txn'[u].to = txn[u].to
                              /\ txn'[u].read = txn[u].read
<1>1. txn[t] \in Txn /\ txn \in [Txns -> Txn]
  BY DEF TypeOK
<1>2. [txn[t] EXCEPT !.phase = p] \in Txn
  BY <1>1 DEF Txn
<1>. QED
  BY <1>1, <1>2 DEF Txn

-----------------------------------------------------------------------------
(* The invariant across the shapes of step the actions have *)

\* No transaction begins: each goes on with what it read, or is over.
TxnGoesOn ==
  \A t \in Txns : \/ /\ txn'[t].op = txn[t].op /\ txn'[t].to = txn[t].to
                     /\ txn'[t].read = txn[t].read
                  \/ txn'[t] = Idle

LEMMA RowStep ==
  ASSUME StockInv, TypeOK', TxnGoesOn, RowsStep, cooked \subseteq cooked',
         KnownOK', \A o \in Orders : RowOK(o)'
  PROVE  StockInv'
<1>1. TxnStep
  BY DEF TxnGoesOn, TxnStep
<1>2. \A t \in Txns : SnapshotOK(t)'
  BY <1>1, SnapshotStep
<1>3. \A t \in Txns : RequestOK(t)'
  BY DEF StockInv, RequestOK, TxnGoesOn, Idle
<1>. QED
  BY <1>2, <1>3 DEF StockInv

LEMMA QuietStep ==
  ASSUME StockInv, TypeOK', TxnGoesOn, KnownOK', order' = order, cooked' = cooked
  PROVE  StockInv'
<1>1. RowsStep
  BY DEF RowsStep, Exists
<1>2. \A o \in Orders : RowOK(o)'
  BY DEF StockInv, RowOK
<1>. QED
  BY <1>1, <1>2, RowStep

LEMMA BeginStep ==
  ASSUME StockInv, TypeOK', order' = order, cooked' = cooked,
         linked' = linked, captured' = captured, conv' = conv,
         NEW t \in Txns, NEW op, NEW to \in Requested, NEW S \in SUBSET Orders,
         \A o \in S : Exists(o),
         op = "update_order_status" =>
           /\ to \in Statuses
           /\ \A o \in S : <<order[o].status, to>> \in Transitions,
         op \in {"update_payment_status", "refund_order_payment", "finalise"}
           => to \in Payments,
         Begins(t, op, to, S)
  PROVE  StockInv'
<1>1. /\ txn'[t].op = op /\ txn'[t].to = to
      /\ txn'[t].read = [o \in S |-> order[o]]
      /\ \A u \in Txns \ {t} : txn'[u] = txn[u]
  BY BeginsSlots DEF StockInv
<1>2. JustRead(t)
  BY <1>1 DEF JustRead
<1>3. TxnStep
  BY <1>1, <1>2 DEF TxnStep
<1>4. RowsStep
  BY DEF RowsStep, Exists
<1>5. \A u \in Txns : SnapshotOK(u)'
  BY <1>3, <1>4, SnapshotStep
<1>6. \A u \in Txns : RequestOK(u)'
  BY <1>1 DEF StockInv, RequestOK
<1>. QED
  BY <1>5, <1>6 DEF StockInv, RowOK, KnownOK, Exists

-----------------------------------------------------------------------------
(* Staff and payment handlers begin *)

LEMMA PaidExists ==
  ASSUME TypeOK, NEW o \in Orders, order[o].pay \in Payments
  PROVE  Exists(o)
  BY DEF TypeOK, NoRow, Exists, Row, Payments, SettablePayments, Statuses

LEMMA ApiBegins ==
  ASSUME StockInv, NEW t \in Api, NEW o \in Orders,
         \/ \E s \in Statuses : update_order_status(t, o, s)
         \/ set_delivery_fee(t, o)
         \/ \E p \in Corrections, manager \in BOOLEAN :
              update_payment_status(t, o, p, manager)
         \/ \E p \in {"REFUNDED", "PARTIALLY_REFUNDED"} :
              refund_order_payment(t, o, p)
         \/ mark_order_paid(t, o)
  PROVE  StockInv'
<1>0. t \in Txns /\ TypeOK /\ {o} \in SUBSET Orders
  BY DEF Txns, StockInv
<1>1. ASSUME NEW s \in Statuses, update_order_status(t, o, s)
      PROVE  StockInv'
  <2>1. /\ Exists(o) /\ <<order[o].status, s>> \in Transitions
        /\ Begins(t, "update_order_status", s, {o})
    BY <1>1 DEF update_order_status, Transitions, Exists
  <2>2. s \in Requested
    BY DEF Requested
  <2>3. UNCHANGED <<order, lock, conv, sessLock, linked, cooked, paid, refunded,
                    lostRefunds, reopened, late, captured, requests, crashes>>
    BY <1>1 DEF update_order_status, rows, ledgers, env
  <2>4. TypeOK'
    BY <1>0, <2>1, <2>2, <2>3, BeginsSlots DEF TypeOK
  <2>. QED
    BY <1>0, <2>1, <2>2, <2>3, <2>4, BeginStep
<1>2. ASSUME set_delivery_fee(t, o)
      PROVE  StockInv'
  <2>1. Exists(o) /\ Begins(t, "set_delivery_fee", "FEE_SENT", {o})
    BY <1>2 DEF set_delivery_fee, Exists
  <2>2. "FEE_SENT" \in Requested
    BY DEF Requested, Statuses
  <2>3. UNCHANGED <<order, lock, conv, sessLock, linked, cooked, paid, refunded,
                    lostRefunds, reopened, late, captured, requests, crashes>>
    BY <1>2 DEF set_delivery_fee, rows, ledgers, env
  <2>4. TypeOK'
    BY <1>0, <2>1, <2>2, <2>3, BeginsSlots DEF TypeOK
  <2>. QED
    BY <1>0, <2>1, <2>2, <2>3, <2>4, BeginStep
<1>3. ASSUME NEW p \in Corrections, NEW manager \in BOOLEAN,
             update_payment_status(t, o, p, manager)
      PROVE  StockInv'
  <2>1. Exists(o) /\ Begins(t, "update_payment_status", p, {o})
    BY <1>3 DEF update_payment_status
  <2>2. p \in Payments /\ p \in Requested
    BY ConstantsAssumption DEF Requested, Payments
  <2>3. UNCHANGED <<order, lock, conv, sessLock, linked, cooked, paid, refunded,
                    lostRefunds, reopened, late, captured, crashes>>
    BY <1>3 DEF update_payment_status, rows, ledgers
  <2>4. requests' \in Nat
    BY <1>0, <1>3 DEF update_payment_status, PaymentRequest, TypeOK
  <2>5. TypeOK'
    BY <1>0, <2>1, <2>2, <2>3, <2>4, BeginsSlots DEF TypeOK
  <2>. QED
    BY <1>0, <2>1, <2>2, <2>3, <2>5, BeginStep
<1>4. ASSUME NEW p \in {"REFUNDED", "PARTIALLY_REFUNDED"},
             refund_order_payment(t, o, p)
      PROVE  StockInv'
  <2>1. Exists(o) /\ Begins(t, "refund_order_payment", p, {o})
    BY <1>0, <1>4, PaidExists
    DEF refund_order_payment, Payments, SettablePayments
  <2>2. p \in Payments /\ p \in Requested
    BY DEF Requested, Payments
  <2>3. UNCHANGED <<order, conv, sessLock, linked, cooked, paid, refunded,
                    lostRefunds, reopened, late, captured, crashes>>
    BY <1>4 DEF refund_order_payment, ledgers
  <2>4. requests' \in Nat /\ lock' \in [Orders -> Txns \cup {NoTxn}]
    BY <1>0, <1>4 DEF refund_order_payment, PaymentRequest, TypeOK
  <2>5. TypeOK'
    BY <1>0, <2>1, <2>2, <2>3, <2>4, BeginsSlots DEF TypeOK
  <2>. QED
    BY <1>0, <2>1, <2>2, <2>3, <2>5, BeginStep
<1>5. ASSUME mark_order_paid(t, o)
      PROVE  StockInv'
  <2>1. Exists(o) /\ Begins(t, "mark_order_paid", "PAID", {o})
    BY <1>5 DEF mark_order_paid, StockInv, KnownOK
  <2>2. "PAID" \in Requested
    BY DEF Requested, Payments, SettablePayments
  <2>3. UNCHANGED <<order, lock, conv, sessLock, linked, cooked, paid, refunded,
                    lostRefunds, reopened, late, captured, crashes>>
    BY <1>5 DEF mark_order_paid, rows, ledgers
  <2>4. requests' \in Nat
    BY <1>0, <1>5 DEF mark_order_paid, PaymentRequest, TypeOK
  <2>5. TypeOK'
    BY <1>0, <2>1, <2>2, <2>3, <2>4, BeginsSlots DEF TypeOK
  <2>. QED
    BY <1>0, <2>1, <2>2, <2>3, <2>5, BeginStep
<1>. QED
  BY <1>1, <1>2, <1>3, <1>4, <1>5

-----------------------------------------------------------------------------
(* Worker and bot begin *)

LEMMA WorkerBegins ==
  ASSUME StockInv, cancel_stale_delivery_fee_orders \/ cancel_unpaid_orders
  PROVE  StockInv'
<1>0. TypeOK /\ FeeCron \in Txns /\ PayCron \in Txns /\ "CANCELLED" \in Requested
  BY DEF StockInv, Txns, Requested, Statuses
<1>1. StaleFeeOrders \in SUBSET Orders /\ \A o \in StaleFeeOrders : Exists(o)
  BY <1>0 DEF StaleFeeOrders, TypeOK, Exists
<1>2. UnpaidOrders \in SUBSET Orders /\ \A o \in UnpaidOrders : Exists(o)
  BY <1>0, PaidExists
  DEF UnpaidOrders, TypeOK, Outstanding, Payments, SettablePayments
<1>3. UNCHANGED <<order, lock, conv, sessLock, linked, cooked, paid, refunded,
                  lostRefunds, reopened, late, captured, requests, crashes>>
  BY DEF cancel_stale_delivery_fee_orders, cancel_unpaid_orders, rows, ledgers, env
<1>4. CASE cancel_stale_delivery_fee_orders
  <2>1. Begins(FeeCron, "cancel_stale_delivery_fee_orders", "CANCELLED", StaleFeeOrders)
    BY <1>4 DEF cancel_stale_delivery_fee_orders
  <2>2. TypeOK'
    BY <1>0, <1>1, <1>3, <2>1, BeginsSlots DEF TypeOK
  <2>. QED
    BY <1>0, <1>1, <1>3, <2>1, <2>2, BeginStep
<1>5. CASE cancel_unpaid_orders
  <2>1. Begins(PayCron, "cancel_unpaid_orders", "CANCELLED", UnpaidOrders)
    BY <1>5 DEF cancel_unpaid_orders
  <2>2. TypeOK'
    BY <1>0, <1>2, <1>3, <2>1, BeginsSlots DEF TypeOK
  <2>. QED
    BY <1>0, <1>2, <1>3, <2>1, <2>2, BeginStep
<1>. QED
  BY <1>4, <1>5

LEMMA JobBegins ==
  ASSUME StockInv, NEW t \in Bot, NEW op, NEW to \in Requested,
         NEW S \in SUBSET Orders, \A o \in S : Exists(o),
         op \notin {"update_order_status", "update_payment_status",
                    "refund_order_payment"},
         op = "finalise" => to \in Payments,
         BotBegins(t, op, to, S)
  PROVE  StockInv'
<1>1. TypeOK /\ t \in Txns
  BY DEF StockInv, Txns
<1>2. /\ Begins(t, op, to, S)
      /\ sessLock' = t
      /\ UNCHANGED <<order, lock, conv, linked, cooked, paid, refunded,
                     lostRefunds, reopened, late, captured, requests, crashes>>
  BY DEF BotBegins, ledgers, env
<1>3. TypeOK'
  BY <1>1, <1>2, BeginsSlots DEF TypeOK
<1>. QED
  BY <1>1, <1>2, <1>3, BeginStep

LEMMA BotBeginsAny ==
  ASSUME StockInv, NEW t \in Bot,
         \/ \E mode \in {"PICKUP", "DELIVERY"} : place(t, mode)
         \/ \E p \in {"UNPAID", "PENDING", "CASH_ON_COLLECTION"} : finalise(t, p)
         \/ reject(t)
  PROVE  StockInv'
<1>1. ASSUME NEW mode \in {"PICKUP", "DELIVERY"}, place(t, mode)
      PROVE  StockInv'
  <2>1. Superseding \cup PriorLive \in SUBSET Orders
    BY DEF Superseding, PriorLive
  <2>2. \A o \in Superseding \cup PriorLive : Exists(o)
    BY DEF Superseding, PriorLive, PRE_PREPARATION_STATUSES, Exists
  <2>3. mode \in Requested
    BY DEF Requested
  <2>4. BotBegins(t, "place", mode, Superseding \cup PriorLive)
    BY <1>1 DEF place
  <2>. QED
    BY <2>1, <2>2, <2>3, <2>4, JobBegins
<1>2. ASSUME NEW p \in {"UNPAID", "PENDING", "CASH_ON_COLLECTION"}, finalise(t, p)
      PROVE  StockInv'
  <2>1. p \in Requested /\ p \in Payments
    BY DEF Requested, Payments, SettablePayments
  <2>2. BotBegins(t, "finalise", p, {})
    BY <1>2 DEF finalise
  <2>. QED
    BY <2>1, <2>2, JobBegins
<1>3. ASSUME reject(t)
      PROVE  StockInv'
  <2>1. conv.pending \in Orders
    BY <1>3 DEF reject, StockInv, TypeOK, Conv, MaybeOrder
  <2>2. Exists(conv.pending)
    BY <1>3 DEF StockInv, KnownOK, reject
  <2>3. "CANCELLED" \in Requested
    BY DEF Requested, Statuses
  <2>4. BotBegins(t, "reject", "CANCELLED", {conv.pending})
    BY <1>3 DEF reject
  <2>. QED
    BY <2>1, <2>2, <2>3, <2>4, JobBegins
<1>. QED
  BY <1>1, <1>2, <1>3

-----------------------------------------------------------------------------
(* Commits *)

\* What a commit may leave in a row it writes.
RowWritten(o) ==
  /\ order'[o].status # "ABSENT"
  /\ o \notin cooked' =>
       /\ order'[o].status \in BeforeKitchen
       /\ order'[o].status = "CANCELLED" => order'[o].stock # "CONSUMED"
  /\ ~InventoryEnabled => order'[o].stock # "CONSUMED"
  /\ Exists(o) /\ order[o].stock # "CONSUMED" => order'[o].stock # "CONSUMED"

LEMMA CommitStep ==
  ASSUME StockInv, TypeOK', TxnGoesOn, KnownOK', cooked \subseteq cooked',
         \A o \in Orders : order'[o] = order[o] \/ RowWritten(o)
  PROVE  StockInv'
<1>1. RowsStep
  BY DEF RowsStep, Exists, RowWritten
<1>2. \A o \in Orders : RowOK(o)'
  BY DEF StockInv, RowOK, RowWritten, BeforeKitchen
<1>. QED
  BY <1>1, <1>2, RowStep

LEMMA AfterCancelOK ==
  ASSUME TypeOK, NEW o \in Orders, Exists(o), NEW previous
  PROVE  /\ AfterCancel(o, previous) \in Stocks
         /\ order[o].stock # "CONSUMED" => AfterCancel(o, previous) # "CONSUMED"
         /\ previous \in PRE_PREPARATION_STATUSES /\ InventoryEnabled
              => AfterCancel(o, previous) # "CONSUMED"
<1>1. order[o] \in Row
  BY DEF TypeOK, Exists, NoRow
<1>2. order[o].stock \in Stocks
  BY <1>1 DEF Row
<1>3. AfterCancel(o, previous) \in {order[o].stock, "REVERSED"}
  BY DEF AfterCancel
<1>. QED
  BY <1>2, <1>3 DEF AfterCancel, Stocks

\* A cancelled row, decided on what t read, is a row the invariant accepts.
LEMMA CancelledRowOK ==
  ASSUME StockInv, NEW t \in Txns, NEW o \in DOMAIN txn[t].read
  PROVE  LET row == CancelledRow(o, txn[t].read[o].status)
         IN  /\ o \in Orders /\ Exists(o)
             /\ row \in Row /\ row.status = "CANCELLED"
             /\ o \notin cooked => row.stock # "CONSUMED"
             /\ ~InventoryEnabled => row.stock # "CONSUMED"
             /\ order[o].stock # "CONSUMED" => row.stock # "CONSUMED"
<1>. DEFINE previous == txn[t].read[o].status
            row == CancelledRow(o, previous)
<1>0. DOMAIN txn[t].read \subseteq Orders
  BY DEF StockInv, TypeOK, Txn, Snapshots
<1>1. o \in Orders /\ Exists(o) /\ TypeOK
  BY <1>0 DEF StockInv, SnapshotOK
<1>2. order[o] \in Row
  BY <1>1 DEF TypeOK, Exists, NoRow
<1>3. AfterCancel(o, previous) \in Stocks
  BY <1>1, AfterCancelOK
<1>4. row \in Row /\ row.status = "CANCELLED" /\ row.stock = AfterCancel(o, previous)
  BY <1>2, <1>3 DEF CancelledRow, Row, Statuses
<1>5. o \notin cooked => previous \in BeforeKitchen /\
                         (previous = "CANCELLED" => order[o].stock # "CONSUMED")
  BY DEF StockInv, SnapshotOK
<1>6. ~InventoryEnabled => order[o].stock # "CONSUMED"
  BY <1>1 DEF StockInv, RowOK
<1>7. /\ order[o].stock # "CONSUMED" => row.stock # "CONSUMED"
      /\ previous \in PRE_PREPARATION_STATUSES /\ InventoryEnabled => row.stock # "CONSUMED"
  BY <1>1, <1>4, AfterCancelOK
<1>. HIDE DEF row, previous
<1>8. o \notin cooked => row.stock # "CONSUMED"
  BY <1>5, <1>6, <1>7, ConstantsAssumption DEF BeforeKitchen
<1>. QED
  BY <1>1, <1>4, <1>6, <1>7, <1>8 DEF row, previous

\* What a transaction knows of the rows it read.
LEMMA ReadRows ==
  ASSUME StockInv, NEW t \in Txns, NEW o \in DOMAIN txn[t].read
  PROVE  o \in Orders /\ Exists(o) /\ order[o] \in Row
<1>1. DOMAIN txn[t].read \subseteq Orders
  BY DEF StockInv, TypeOK, Txn, Snapshots
<1>2. o \in Orders /\ Exists(o)
  BY <1>1 DEF StockInv, SnapshotOK
<1>3. order[o] \in Row
  BY <1>2 DEF StockInv, TypeOK, Exists, NoRow
<1>. QED
  BY <1>2, <1>3

LEMMA EndsGoesOn ==
  ASSUME TypeOK, NEW t \in Txns, Ends(t)
  PROVE  TxnGoesOn /\ txn' \in [Txns -> Txn]
  BY EndsSlots DEF TxnGoesOn

LEMMA PhaseGoesOn ==
  ASSUME TypeOK, NEW t \in Txns, NEW p \in Phases,
         txn' = [txn EXCEPT ![t].phase = p]
  PROVE  TxnGoesOn /\ txn' \in [Txns -> Txn]
  BY PhaseSlots DEF TxnGoesOn

LEMMA KnownKept ==
  ASSUME TypeOK, KnownOK, \A o \in Orders : Exists(o) => Exists(o)',
         linked' = linked, captured' = captured, conv' = conv
  PROVE  KnownOK'
<1>1. linked \subseteq Orders /\ captured \subseteq Orders
  BY DEF TypeOK
<1>2. conv.pending # NoOrder => conv.pending \in Orders
  BY DEF TypeOK, Conv, MaybeOrder
<1>. QED
  BY <1>1, <1>2 DEF KnownOK

LEMMA StatusCommits ==
  ASSUME StockInv, NEW t \in Txns, CommitStatus(t)
  PROVE  StockInv'
<1>1. PICK o \in DOMAIN txn[t].read :
        /\ order' = [order EXCEPT ![o] =
             IF txn[t].to = "CANCELLED" THEN CancelledRow(o, txn[t].read[o].status)
             ELSE MovedRow(o, txn[t].read[o], txn[t].to)]
        /\ cooked' = IF txn[t].to = "IN_PROGRESS" THEN cooked \cup {o} ELSE cooked
  BY DEF CommitStatus
<1>. DEFINE was == txn[t].read[o]
            to == txn[t].to
<1>2. /\ TypeOK /\ o \in Orders /\ Exists(o) /\ order[o] \in Row
      /\ order \in [Orders -> Row \cup {NoRow}]
  BY ReadRows DEF StockInv, TypeOK
<1>3. txn[t].op = "update_order_status" /\ <<was.status, to>> \in Transitions
  BY DEF CommitStatus, StockInv, SnapshotOK
<1>4. AcceptedPay(o, was) \in Payments
  BY <1>2 DEF AcceptedPay, Row, Payments, SettablePayments
<1>5. to \in Statuses
  BY <1>3 DEF StockInv, RequestOK
<1>6. /\ order'[o] = IF to = "CANCELLED" THEN CancelledRow(o, was.status)
                     ELSE MovedRow(o, was, to)
      /\ \A p \in Orders \ {o} : order'[p] = order[p]
  BY <1>1, <1>2
<1>7. CancelledRow(o, was.status) \in Row
  BY CancelledRowOK
<1>8. order'[o] \in Row
  BY <1>2, <1>4, <1>5, <1>6, <1>7 DEF MovedRow, Row
<1>9. order' \in [Orders -> Row \cup {NoRow}]
  BY <1>1, <1>2, <1>6, <1>8
<1>10. TxnGoesOn /\ txn' \in [Txns -> Txn]
  BY <1>2, EndsGoesOn, PhaseGoesOn DEF CommitStatus, Phases
<1>11. UNCHANGED <<lock, conv, sessLock, linked, paid, refunded, lostRefunds, reopened,
                   late, captured, requests, crashes>>
  BY DEF CommitStatus, env
<1>12. TypeOK'
  BY <1>1, <1>2, <1>9, <1>10, <1>11 DEF TypeOK
<1>13. RowWritten(o)
  <2>1. CASE to = "CANCELLED"
    BY <2>1, <1>1, <1>6, CancelledRowOK DEF RowWritten, BeforeKitchen
  <2>2. CASE to # "CANCELLED"
    <3>1. order'[o].status = to /\ order'[o].stock = order[o].stock
      BY <2>2, <1>6 DEF MovedRow
    <3>2. o \notin cooked' => to \in PRE_PREPARATION_STATUSES
      <4>1. SUFFICES ASSUME o \notin cooked' PROVE to \in PRE_PREPARATION_STATUSES
        OBVIOUS
      <4>2. o \notin cooked /\ to # "IN_PROGRESS"
        BY <4>1, <1>1
      <4>3. was.status \in BeforeKitchen
        BY <4>2 DEF StockInv, SnapshotOK
      <4>. QED
        BY <4>2, <4>3, <1>3, <2>2
        DEF Transitions, BeforeKitchen, PRE_PREPARATION_STATUSES
    <3>3. ~InventoryEnabled => order[o].stock # "CONSUMED"
      BY <1>2 DEF StockInv, RowOK
    <3>. QED
      BY <3>1, <3>2, <3>3, <1>5, <2>2 DEF RowWritten, BeforeKitchen, Statuses
  <2>. QED
    BY <2>1, <2>2
<1>14. cooked \subseteq cooked'
  BY <1>1
<1>15. KnownOK'
  <2>1. \A p \in Orders : Exists(p) => Exists(p)'
    BY <1>6, <1>8 DEF Exists, Row, Statuses
  <2>. QED
    BY <2>1, <1>2, <1>11, KnownKept DEF StockInv
<1>. QED
  BY <1>6, <1>10, <1>12, <1>13, <1>14, <1>15, CommitStep

\* A commit that writes one row and takes nothing to the kitchen.
LEMMA OneRowCommits ==
  ASSUME StockInv, NEW o \in Orders, NEW row \in Row,
         order' = [order EXCEPT ![o] = row],
         TypeOK', TxnGoesOn, cooked' = cooked, KnownOK',
         o \notin cooked => /\ row.status \in BeforeKitchen
                            /\ row.status = "CANCELLED" => row.stock # "CONSUMED",
         ~InventoryEnabled => row.stock # "CONSUMED",
         Exists(o) /\ order[o].stock # "CONSUMED" => row.stock # "CONSUMED"
  PROVE  StockInv'
<1>1. order \in [Orders -> Row \cup {NoRow}]
  BY DEF StockInv, TypeOK
<1>2. order'[o] = row /\ \A p \in Orders \ {o} : order'[p] = order[p]
  BY <1>1
<1>3. row.status # "ABSENT"
  BY DEF Row, Statuses
<1>4. RowWritten(o)
  BY <1>2, <1>3 DEF RowWritten
<1>. QED
  BY <1>2, <1>4, CommitStep

LEMMA MarksPaidType ==
  ASSUME TypeOK, NEW o \in Orders, MarksPaid(o) \/ UNCHANGED <<paid, reopened>>
  PROVE  paid' \in [Orders -> Nat] /\ reopened' \in [Orders -> Nat]
  BY DEF TypeOK, MarksPaid, Count

\* A commit that writes only the payment status of a row.
LEMMA PaymentCommits ==
  ASSUME StockInv, NEW o \in Orders, Exists(o), NEW pay \in Payments,
         order' = [order EXCEPT ![o].pay = pay],
         lock' \in [Orders -> Txns \cup {NoTxn}], paid' \in [Orders -> Nat],
         reopened' \in [Orders -> Nat], txn' \in [Txns -> Txn], TxnGoesOn,
         UNCHANGED <<conv, sessLock, linked, cooked, refunded, lostRefunds,
                     late, captured, requests, crashes>>
  PROVE  StockInv'
<1>. DEFINE row == [order[o] EXCEPT !.pay = pay]
<1>1. TypeOK /\ order \in [Orders -> Row \cup {NoRow}] /\ order[o] \in Row
  BY DEF StockInv, TypeOK, Exists, NoRow
<1>2. row \in Row /\ row.status = order[o].status /\ row.stock = order[o].stock
  BY <1>1 DEF Row
<1>3. order' = [order EXCEPT ![o] = row]
  OBVIOUS
<1>4. order' \in [Orders -> Row \cup {NoRow}]
  BY <1>1, <1>2, <1>3
<1>5. TypeOK'
  BY <1>1, <1>4 DEF TypeOK
<1>6. \A p \in Orders : Exists(p) => Exists(p)'
  BY <1>1, <1>2, <1>3 DEF Exists
<1>7. KnownOK'
  BY <1>1, <1>6, KnownKept DEF StockInv
<1>8. RowOK(o)
  BY DEF StockInv
<1>. HIDE DEF row
<1>9. o \notin cooked => row.status \in BeforeKitchen
  BY <1>2, <1>8 DEF RowOK, Exists
<1>. QED
  BY <1>2, <1>3, <1>5, <1>7, <1>8, <1>9, OneRowCommits DEF RowOK

LEMMA PaymentStatusCommits ==
  ASSUME StockInv, NEW t \in Txns, CommitPayment(t)
  PROVE  StockInv'
<1>1. PICK o \in DOMAIN txn[t].read :
        /\ order' = [order EXCEPT ![o].pay =
                       IF txn[t].to # txn[t].read[o].pay THEN txn[t].to ELSE @]
        /\ MarksPaid(o) \/ UNCHANGED <<paid, reopened>>
  BY DEF CommitPayment
<1>. DEFINE pay == IF txn[t].to # txn[t].read[o].pay THEN txn[t].to ELSE order[o].pay
<1>2. TypeOK /\ o \in Orders /\ Exists(o) /\ order[o] \in Row
  BY ReadRows DEF StockInv
<1>3. pay \in Payments
  BY <1>2 DEF CommitPayment, StockInv, RequestOK, Row
<1>4. order' = [order EXCEPT ![o].pay = pay]
  BY <1>1
<1>5. paid' \in [Orders -> Nat] /\ reopened' \in [Orders -> Nat]
  BY <1>1, <1>2, MarksPaidType
<1>6. TxnGoesOn /\ txn' \in [Txns -> Txn]
  BY <1>2, EndsGoesOn, PhaseGoesOn DEF CommitPayment, Phases
<1>7. UNCHANGED <<lock, conv, sessLock, linked, cooked, refunded, lostRefunds,
                  late, captured, requests, crashes>>
  BY DEF CommitPayment, env
<1>8. lock' \in [Orders -> Txns \cup {NoTxn}]
  BY <1>2, <1>7 DEF TypeOK
<1>. HIDE DEF pay
<1>. QED
  BY <1>2, <1>3, <1>4, <1>5, <1>6, <1>7, <1>8, PaymentCommits

LEMMA WebhookCommits ==
  ASSUME StockInv, NEW t \in Txns, CommitPaid(t)
  PROVE  StockInv'
<1>1. PICK o \in DOMAIN txn[t].read :
        order' = [order EXCEPT ![o].pay = "PAID"] /\ MarksPaid(o)
  BY DEF CommitPaid
<1>2. TypeOK /\ o \in Orders /\ Exists(o)
  BY ReadRows DEF StockInv
<1>3. "PAID" \in Payments
  BY DEF Payments, SettablePayments
<1>4. paid' \in [Orders -> Nat] /\ reopened' \in [Orders -> Nat]
  BY <1>1, <1>2, MarksPaidType
<1>5. TxnGoesOn /\ txn' \in [Txns -> Txn]
  BY <1>2, PhaseGoesOn DEF CommitPaid, Phases
<1>6. UNCHANGED <<lock, conv, sessLock, linked, cooked, refunded, lostRefunds,
                  late, captured, requests, crashes>>
  BY DEF CommitPaid, env
<1>7. lock' \in [Orders -> Txns \cup {NoTxn}]
  BY <1>2, <1>6 DEF TypeOK
<1>. QED
  BY <1>1, <1>2, <1>3, <1>4, <1>5, <1>6, <1>7, PaymentCommits

LEMMA UnlockedType ==
  ASSUME TypeOK, NEW t \in Txns
  PROVE  /\ Unlocked(t) \in [Orders -> Txns \cup {NoTxn}]
         /\ SessionUnlocked(t) \in Txns \cup {NoTxn}
  BY DEF TypeOK, Unlocked, SessionUnlocked

LEMMA RefundCommits ==
  ASSUME StockInv, NEW t \in Txns, CommitRefund(t)
  PROVE  StockInv'
<1>1. PICK o \in DOMAIN txn[t].read : order' = [order EXCEPT ![o].pay = txn[t].to]
  BY DEF CommitRefund
<1>2. TypeOK /\ o \in Orders /\ Exists(o)
  BY ReadRows DEF StockInv
<1>3. txn[t].to \in Payments
  BY DEF CommitRefund, StockInv, RequestOK
<1>4. TxnGoesOn /\ txn' \in [Txns -> Txn]
  BY <1>2, EndsGoesOn DEF CommitRefund
<1>5. UNCHANGED <<conv, sessLock, linked, cooked, paid, refunded, lostRefunds, reopened,
                  late, captured, requests, crashes>>
  BY DEF CommitRefund, env, ledgers
<1>6. /\ lock' \in [Orders -> Txns \cup {NoTxn}] /\ paid' \in [Orders -> Nat]
      /\ reopened' \in [Orders -> Nat]
  BY <1>2, <1>5, UnlockedType DEF CommitRefund, TypeOK
<1>. QED
  BY <1>1, <1>2, <1>3, <1>4, <1>5, <1>6, PaymentCommits

LEMMA FeeCommits ==
  ASSUME StockInv, NEW t \in Txns, CommitFee(t)
  PROVE  StockInv'
<1>1. PICK o \in DOMAIN txn[t].read :
        /\ order' = [order EXCEPT ![o].status = "FEE_SENT"]
        /\ conv' = conv \/ conv' = FeeConv(t, o)
  BY DEF CommitFee
<1>. DEFINE row == [order[o] EXCEPT !.status = "FEE_SENT"]
<1>2. TypeOK /\ o \in Orders /\ Exists(o) /\ order[o] \in Row
      /\ order \in [Orders -> Row \cup {NoRow}]
  BY ReadRows DEF StockInv, TypeOK
<1>3. row \in Row /\ row.status = "FEE_SENT" /\ row.stock = order[o].stock
  BY <1>2 DEF Row, Statuses
<1>4. order' = [order EXCEPT ![o] = row]
  BY <1>1
<1>5. \A p \in Orders : Exists(p) => Exists(p)'
  BY <1>2, <1>3, <1>4 DEF Exists
<1>6. UNCHANGED <<sessLock, linked, cooked, paid, refunded, lostRefunds, reopened,
                  late, captured, requests, crashes>>
  BY DEF CommitFee, env, ledgers
<1>7. conv' \in Conv /\ (conv.pending # NoOrder => Exists(conv.pending))'
  <2>1. CASE conv' = conv
    <3>1. conv \in Conv /\ (conv.pending # NoOrder => conv.pending \in Orders)
      BY <1>2 DEF TypeOK, Conv, MaybeOrder
    <3>. QED
      BY <2>1, <3>1, <1>5 DEF StockInv, KnownOK
  <2>2. CASE conv' = FeeConv(t, o)
    <3>1. txn[t].conv \in Conv /\ conv \in Conv
      BY <1>2 DEF TypeOK, Txn
    <3>2. Exists(o)'
      BY <1>2, <1>5
    <3>3. conv'.pending = o /\ conv' \in Conv
      BY <2>2, <3>1, <1>2 DEF FeeConv, Conv, ConvStates, MaybeOrder
    <3>. QED
      BY <3>2, <3>3
  <2>. QED
    BY <1>1, <2>1, <2>2
<1>8. TxnGoesOn /\ txn' \in [Txns -> Txn]
  BY <1>2, EndsGoesOn DEF CommitFee
<1>9. lock' \in [Orders -> Txns \cup {NoTxn}]
  BY <1>2, UnlockedType DEF CommitFee
<1>10. order' \in [Orders -> Row \cup {NoRow}]
  BY <1>2, <1>3, <1>4
<1>11. TypeOK'
  BY <1>2, <1>6, <1>7, <1>8, <1>9, <1>10 DEF TypeOK
<1>12. KnownOK'
  <2>1. linked \subseteq Orders /\ captured \subseteq Orders
    BY <1>2 DEF TypeOK
  <2>. QED
    BY <2>1, <1>5, <1>6, <1>7 DEF StockInv, KnownOK, Exists
<1>13. ~InventoryEnabled => order[o].stock # "CONSUMED"
  BY <1>2 DEF StockInv, RowOK
<1>. HIDE DEF row
<1>. QED
  BY <1>2, <1>3, <1>4, <1>6, <1>8, <1>11, <1>12, <1>13, OneRowCommits
  DEF BeforeKitchen, PRE_PREPARATION_STATUSES

LEMMA TimeoutCommits ==
  ASSUME StockInv, NEW t \in Txns, CommitTimeout(t)
  PROVE  StockInv'
<1>. DEFINE cancelled(o) == CancelledRow(o, txn[t].read[o].status)
<1>1. TypeOK /\ order \in [Orders -> Row \cup {NoRow}]
  BY DEF StockInv, TypeOK
<1>2. /\ \A o \in Orders \ DOMAIN txn[t].read : order'[o] = order[o]
      /\ \A o \in DOMAIN txn[t].read :
           \/ order'[o] = cancelled(o)
           \/ order'[o] = [cancelled(o) EXCEPT !.pay = "FAILED"]
      /\ DOMAIN order' = Orders
  BY ReadRows DEF CommitTimeout
<1>3. ASSUME NEW o \in DOMAIN txn[t].read
      PROVE  o \in Orders /\ Exists(o) /\ order'[o] \in Row /\ RowWritten(o)
  <2>. DEFINE row == CancelledRow(o, txn[t].read[o].status)
  <2>1. /\ o \in Orders /\ Exists(o)
        /\ row \in Row /\ row.status = "CANCELLED"
        /\ o \notin cooked => row.stock # "CONSUMED"
        /\ ~InventoryEnabled => row.stock # "CONSUMED"
        /\ order[o].stock # "CONSUMED" => row.stock # "CONSUMED"
    BY CancelledRowOK
  <2>2. order'[o] = row \/ order'[o] = [row EXCEPT !.pay = "FAILED"]
    BY <1>2
  <2>. HIDE DEF row
  <2>3. /\ order'[o] \in Row /\ order'[o].status = "CANCELLED"
        /\ order'[o].stock = row.stock
    BY <2>1, <2>2 DEF Row, Payments, SettablePayments
  <2>4. cooked' = cooked
    BY DEF CommitTimeout, ledgers
  <2>. QED
    BY <2>1, <2>3, <2>4 DEF RowWritten, BeforeKitchen
<1>4. order' \in [Orders -> Row \cup {NoRow}]
  <2>1. \A o \in Orders : order'[o] \in Row \cup {NoRow}
    BY <1>1, <1>2, <1>3
  <2>2. order' = [o \in Orders |-> order'[o]]
    BY DEF CommitTimeout
  <2>. QED
    BY <2>1, <2>2
<1>5. TxnGoesOn /\ txn' \in [Txns -> Txn]
  BY <1>1, EndsGoesOn DEF CommitTimeout
<1>6. UNCHANGED <<lock, conv, sessLock, linked, cooked, paid, refunded, lostRefunds, reopened,
                  late, captured, requests, crashes>>
  BY DEF CommitTimeout, env, ledgers
<1>7. TypeOK'
  BY <1>1, <1>4, <1>5, <1>6 DEF TypeOK
<1>8. \A o \in Orders : order'[o] = order[o] \/ RowWritten(o)
  BY <1>2, <1>3
<1>9. \A o \in Orders : Exists(o) => Exists(o)'
  BY <1>8 DEF RowWritten, Exists
<1>10. KnownOK'
  BY <1>1, <1>6, <1>9, KnownKept DEF StockInv
<1>. QED
  BY <1>5, <1>6, <1>7, <1>8, <1>10, CommitStep

-----------------------------------------------------------------------------
(* The bot's commits *)

\* What every commit of the bot does to the session and to the rest.
LEMMA BotCommitsFrame ==
  ASSUME StockInv, NEW t \in Txns, NEW c \in Conv, BotCommits(t, c)
  PROVE  /\ TxnGoesOn /\ txn' \in [Txns -> Txn] /\ cooked' = cooked
         /\ order' \in [Orders -> Row \cup {NoRow}] => TypeOK'
         /\ (/\ \A o \in Orders : Exists(o) => Exists(o)'
             /\ c.pending # NoOrder => Exists(c.pending)') => KnownOK'
<1>1. TypeOK /\ TxnGoesOn /\ txn' \in [Txns -> Txn]
  BY EndsGoesOn DEF StockInv, BotCommits
<1>2. /\ conv' = c /\ sessLock' = NoTxn
      /\ UNCHANGED <<lock, linked, late, captured, requests, crashes, paid,
                     refunded, lostRefunds, reopened, cooked>>
  BY DEF BotCommits
<1>3. order' \in [Orders -> Row \cup {NoRow}] => TypeOK'
  BY <1>1, <1>2 DEF TypeOK
<1>4. linked \subseteq Orders /\ captured \subseteq Orders
  BY <1>1 DEF TypeOK
<1>. QED
  BY <1>1, <1>2, <1>3, <1>4 DEF StockInv, KnownOK, Exists

LEMMA ClearedType ==
  ASSUME TypeOK, NEW at \in ConvStates
  PROVE  Cleared(at) \in Conv /\ Cleared(at).pending = NoOrder
<1>1. conv.last \in MaybeOrder
  BY DEF TypeOK, Conv
<1>. QED
  BY <1>1 DEF Cleared, Conv, MaybeOrder

LEMMA FinaliseCommits ==
  ASSUME StockInv, NEW t \in Txns, CommitFinalise(t)
  PROVE  StockInv'
<1>. DEFINE o == conv.pending
            row == [status |-> "NEW", pay |-> txn[t].to, stock |-> order[o].stock]
<1>1. TypeOK /\ order \in [Orders -> Row \cup {NoRow}] /\ o \in Orders \cup {NoOrder}
  BY DEF StockInv, TypeOK, Conv, MaybeOrder
<1>2. order' = [order EXCEPT ![o] = row]
  BY DEF CommitFinalise
<1>3. Cleared("ORDER_PLACED") \in Conv /\ Cleared("ORDER_PLACED").pending = NoOrder
  BY <1>1, ClearedType DEF ConvStates
<1>4. /\ TxnGoesOn /\ cooked' = cooked
      /\ order' \in [Orders -> Row \cup {NoRow}] => TypeOK'
      /\ (\A p \in Orders : Exists(p) => Exists(p)') => KnownOK'
  BY <1>3, BotCommitsFrame DEF CommitFinalise
<1>5. CASE o = NoOrder
  <2>1. order' = order
    BY <1>1, <1>2, <1>5, ConstantsAssumption
  <2>2. TypeOK' /\ KnownOK'
    BY <1>1, <1>4, <2>1 DEF Exists
  <2>. QED
    BY <1>4, <2>1, <2>2, QuietStep
<1>6. CASE o # NoOrder
  <2>1. o \in Orders /\ Exists(o) /\ order[o] \in Row
    BY <1>1, <1>6 DEF StockInv, KnownOK, Exists, NoRow
  <2>2. txn[t].to \in Payments
    BY DEF CommitFinalise, StockInv, RequestOK
  <2>3. row \in Row /\ row.status = "NEW" /\ row.stock = order[o].stock
    BY <2>1, <2>2 DEF Row, Statuses
  <2>4. ~InventoryEnabled => order[o].stock # "CONSUMED"
    BY <2>1 DEF StockInv, RowOK
  <2>. HIDE DEF row, o
  <2>5. order' \in [Orders -> Row \cup {NoRow}]
    BY <1>1, <1>2, <2>3
  <2>6. \A p \in Orders : Exists(p) => Exists(p)'
    BY <1>1, <1>2, <2>1, <2>3 DEF Exists
  <2>7. TypeOK' /\ KnownOK'
    BY <1>4, <2>5, <2>6
  <2>. QED
    BY <1>2, <1>4, <2>1, <2>3, <2>4, <2>7, OneRowCommits
    DEF BeforeKitchen, PRE_PREPARATION_STATUSES
<1>. QED
  BY <1>5, <1>6

LEMMA RejectCommits ==
  ASSUME StockInv, NEW t \in Txns, CommitReject(t)
  PROVE  StockInv'
<1>1. PICK o \in DOMAIN txn[t].read :
        order' = [order EXCEPT ![o] = CancelledRow(o, txn[t].read[o].status)]
  BY DEF CommitReject
<1>. DEFINE row == CancelledRow(o, txn[t].read[o].status)
<1>2. TypeOK /\ order \in [Orders -> Row \cup {NoRow}]
  BY DEF StockInv, TypeOK
<1>3. /\ o \in Orders /\ Exists(o)
      /\ row \in Row /\ row.status = "CANCELLED"
      /\ o \notin cooked => row.stock # "CONSUMED"
      /\ ~InventoryEnabled => row.stock # "CONSUMED"
      /\ order[o].stock # "CONSUMED" => row.stock # "CONSUMED"
  BY CancelledRowOK
<1>4. Cleared("SHOPPING") \in Conv /\ Cleared("SHOPPING").pending = NoOrder
  BY <1>2, ClearedType DEF ConvStates
<1>5. /\ TxnGoesOn /\ cooked' = cooked
      /\ order' \in [Orders -> Row \cup {NoRow}] => TypeOK'
      /\ (\A p \in Orders : Exists(p) => Exists(p)') => KnownOK'
  BY <1>4, BotCommitsFrame DEF CommitReject
<1>. HIDE DEF row
<1>6. order' = [order EXCEPT ![o] = row]
  BY <1>1 DEF row
<1>7. order' \in [Orders -> Row \cup {NoRow}]
  BY <1>2, <1>3, <1>6
<1>8. \A p \in Orders : Exists(p) => Exists(p)'
  BY <1>2, <1>3, <1>6 DEF Exists
<1>. QED
  BY <1>3, <1>5, <1>6, <1>7, <1>8, OneRowCommits DEF BeforeKitchen

LEMMA ReplacedOK ==
  ASSUME StockInv, NEW t \in Txns, NEW o \in DOMAIN txn[t].read,
         order'[o] = Replaced(o, txn[t].read[o]), cooked' = cooked
  PROVE  order'[o] \in Row /\ RowWritten(o)
<1>. DEFINE was == txn[t].read[o]
            row == CancelledRow(o, was.status)
<1>1. o \in Orders /\ Exists(o) /\ order[o] \in Row /\ TypeOK /\ RowOK(o)
  BY ReadRows DEF StockInv
<1>2. CASE o = conv.superseded /\ order[o].status \in CLOSED_FOR_SUPERSEDE
  <2>1. order'[o] = [order[o] EXCEPT !.stock = AfterCancel(o, was.status)]
    BY <1>2 DEF Replaced
  <2>2. /\ AfterCancel(o, was.status) \in Stocks
        /\ order[o].stock # "CONSUMED" => AfterCancel(o, was.status) # "CONSUMED"
    BY <1>1, AfterCancelOK
  <2>3. /\ order'[o] \in Row /\ order'[o].status = order[o].status
        /\ order'[o].stock = AfterCancel(o, was.status)
    BY <1>1, <2>1, <2>2 DEF Row
  <2>. QED
    BY <1>1, <2>2, <2>3 DEF RowWritten, RowOK, Exists
<1>3. CASE ~(o = conv.superseded /\ order[o].status \in CLOSED_FOR_SUPERSEDE)
  <2>1. order'[o] = row
    BY <1>3 DEF Replaced
  <2>2. /\ row \in Row /\ row.status = "CANCELLED"
        /\ o \notin cooked => row.stock # "CONSUMED"
        /\ ~InventoryEnabled => row.stock # "CONSUMED"
        /\ order[o].stock # "CONSUMED" => row.stock # "CONSUMED"
    BY CancelledRowOK
  <2>. HIDE DEF row
  <2>. QED
    BY <2>1, <2>2 DEF RowWritten, BeforeKitchen
<1>. QED
  BY <1>2, <1>3

LEMMA PlaceCommits ==
  ASSUME StockInv, NEW t \in Txns, CommitPlace(t)
  PROVE  StockInv'
<1>1. PICK new \in Orders :
        /\ ~Exists(new)
        /\ order' = [o \in Orders |->
             CASE o = new -> Placed(txn[t].to)
               [] o \in DOMAIN txn[t].read -> Replaced(o, txn[t].read[o])
               [] OTHER -> order[o]]
        /\ BotCommits(t, PlacedConv(txn[t].to, new))
  BY DEF CommitPlace
<1>2. TypeOK /\ order \in [Orders -> Row \cup {NoRow}]
  BY DEF StockInv, TypeOK
<1>3. \A o \in DOMAIN txn[t].read : o \in Orders /\ Exists(o) /\ o # new
  BY <1>1, ReadRows
<1>4. /\ order'[new] = Placed(txn[t].to)
      /\ \A o \in DOMAIN txn[t].read : order'[o] = Replaced(o, txn[t].read[o])
      /\ \A o \in Orders \ {new} : o \notin DOMAIN txn[t].read => order'[o] = order[o]
  BY <1>1, <1>3
<1>5. PlacedConv(txn[t].to, new) \in Conv
      /\ PlacedConv(txn[t].to, new).pending \in {new, NoOrder}
  BY DEF PlacedConv, Conv, ConvStates, MaybeOrder
<1>6. /\ TxnGoesOn /\ cooked' = cooked
      /\ order' \in [Orders -> Row \cup {NoRow}] => TypeOK'
      /\ (/\ \A p \in Orders : Exists(p) => Exists(p)'
          /\ Exists(new)') => KnownOK'
  BY <1>1, <1>5, BotCommitsFrame
<1>7. order'[new] \in Row /\ RowWritten(new)
  <2>1. /\ order'[new].status \in {"PENDING_DELIVERY_FEE", "NEW"}
        /\ order'[new].pay \in {"UNPAID", "PENDING"}
        /\ order'[new].stock = IF InventoryEnabled THEN "CONSUMED" ELSE "NONE"
    BY <1>4 DEF Placed
  <2>2. order'[new] \in Row
    BY <1>4 DEF Placed, Row, Statuses, Payments, SettablePayments, Stocks
  <2>. QED
    BY <1>1, <2>1, <2>2 DEF RowWritten, BeforeKitchen, PRE_PREPARATION_STATUSES
<1>8. ASSUME NEW o \in DOMAIN txn[t].read
      PROVE  order'[o] \in Row /\ RowWritten(o)
  <2>1. order'[o] = Replaced(o, txn[t].read[o]) /\ cooked' = cooked
    BY <1>4, <1>6
  <2>. QED
    BY <2>1, ReplacedOK
<1>9. \A o \in Orders : order'[o] = order[o] \/ (order'[o] \in Row /\ RowWritten(o))
  BY <1>4, <1>7, <1>8
<1>10. order' \in [Orders -> Row \cup {NoRow}]
  <2>1. \A o \in Orders : order'[o] \in Row \cup {NoRow}
    BY <1>2, <1>9
  <2>2. order' = [o \in Orders |-> order'[o]]
    BY <1>1
  <2>. QED
    BY <2>1, <2>2
<1>11. (\A p \in Orders : Exists(p) => Exists(p)') /\ Exists(new)'
  BY <1>7, <1>9 DEF RowWritten, Exists
<1>. QED
  BY <1>6, <1>9, <1>10, <1>11, CommitStep

-----------------------------------------------------------------------------
(* Steps that write neither a row nor the kitchen *)

LEMMA LinkQuiet ==
  ASSUME StockInv, NEW t \in Txns, CreateLink(t)
  PROVE  StockInv'
<1>1. TypeOK /\ \A o \in DOMAIN txn[t].read : o \in Orders /\ Exists(o)
  BY ReadRows DEF StockInv
<1>2. TxnGoesOn /\ txn' \in [Txns -> Txn]
  BY <1>1, EndsGoesOn DEF CreateLink
<1>3. UNCHANGED <<order, lock, conv, sessLock, cooked, paid, refunded, lostRefunds, reopened,
                  late, captured, requests, crashes>>
  BY DEF CreateLink, ledgers, env
<1>4. linked' \subseteq linked \cup DOMAIN txn[t].read
  BY DEF CreateLink
<1>5. TypeOK'
  BY <1>1, <1>2, <1>3, <1>4 DEF TypeOK
<1>6. KnownOK'
  BY <1>1, <1>3, <1>4 DEF StockInv, KnownOK, Exists
<1>. QED
  BY <1>2, <1>3, <1>5, <1>6, QuietStep

\* The fee request locks the row and copies the session.
LEMMA FlushQuiet ==
  ASSUME StockInv, NEW t \in Txns, FlushFee(t)
  PROVE  StockInv'
<1>1. TypeOK /\ txn \in [Txns -> Txn] /\ conv \in Conv
  BY DEF StockInv, TypeOK
<1>2. PICK told \in {"flushed", "untold"} :
        txn' = [txn EXCEPT ![t].phase = told, ![t].conv = conv]
  BY DEF FlushFee
<1>3. txn' = [txn EXCEPT ![t] = [@ EXCEPT !.phase = told, !.conv = conv]]
  BY <1>2
<1>4. [txn[t] EXCEPT !.phase = told, !.conv = conv] \in Txn
  BY <1>1 DEF Txn, Phases
<1>5. txn' \in [Txns -> Txn]
  BY <1>1, <1>3, <1>4
<1>6. \A u \in Txns : /\ txn'[u].op = txn[u].op /\ txn'[u].to = txn[u].to
                       /\ txn'[u].read = txn[u].read
  <2>1. txn[t] \in Txn /\ txn'[t] = [txn[t] EXCEPT !.phase = told, !.conv = conv]
    BY <1>1, <1>3
  <2>2. /\ txn'[t].op = txn[t].op /\ txn'[t].to = txn[t].to
        /\ txn'[t].read = txn[t].read
    BY <2>1 DEF Txn
  <2>3. \A u \in Txns \ {t} : txn'[u] = txn[u]
    BY <1>1, <1>3
  <2>. QED
    BY <2>2, <2>3
<1>7. lock' \in [Orders -> Txns \cup {NoTxn}]
  BY <1>1 DEF FlushFee, TypeOK
<1>8. UNCHANGED <<order, conv, sessLock, linked, cooked, paid, refunded, lostRefunds, reopened,
                  late, captured, requests, crashes>>
  BY DEF FlushFee, ledgers, env
<1>9. TypeOK'
  BY <1>1, <1>5, <1>7, <1>8 DEF TypeOK
<1>10. KnownOK'
  BY <1>1, <1>8, KnownKept DEF StockInv, Exists
<1>11. TxnGoesOn
  BY <1>6 DEF TxnGoesOn
<1>. QED
  BY <1>8, <1>9, <1>10, <1>11, QuietStep

\* Steps on the side: money that moves, what follows a payment, a rollback.
LEMMA SideQuiet ==
  ASSUME StockInv, TxnGoesOn, txn' \in [Txns -> Txn],
         UNCHANGED <<order, conv, linked, late, captured, cooked>>,
         lock' \in [Orders -> Txns \cup {NoTxn}], sessLock' \in Txns \cup {NoTxn},
         paid' \in [Orders -> Nat], refunded' \in [Orders -> Nat],
         lostRefunds' \in [Orders -> Nat], reopened' \in [Orders -> Nat],
         requests' \in Nat, crashes' \in Nat
  PROVE  StockInv'
<1>1. TypeOK
  BY DEF StockInv
<1>2. TypeOK'
  BY <1>1 DEF TypeOK
<1>3. KnownOK'
  BY <1>1, KnownKept DEF StockInv, Exists
<1>. QED
  BY <1>2, <1>3, QuietStep

LEMMA AfterPaidQuiet ==
  ASSUME StockInv, NEW t \in Txns, AfterPaid(t)
  PROVE  StockInv'
<1>1. TypeOK /\ \A o \in DOMAIN txn[t].read : o \in Orders
  BY ReadRows DEF StockInv
<1>2. TxnGoesOn /\ txn' \in [Txns -> Txn]
  BY <1>1, EndsGoesOn DEF AfterPaid
<1>3. UNCHANGED <<order, lock, conv, sessLock, linked, cooked, paid, refunded,
                  lostRefunds, reopened, late, captured, requests, crashes>>
  BY DEF AfterPaid, rows, ledgers, env
<1>. QED
  BY <1>1, <1>2, <1>3, SideQuiet DEF TypeOK

LEMMA RefundQuiet ==
  ASSUME StockInv, NEW t \in Txns, MoneyGoesBack(t) \/ RefundRefused(t)
  PROVE  StockInv'
<1>1. TypeOK /\ \A o \in DOMAIN txn[t].read : o \in Orders
  BY ReadRows DEF StockInv
<1>2. CASE MoneyGoesBack(t)
  <2>1. TxnGoesOn /\ txn' \in [Txns -> Txn]
    BY <1>1, <1>2, PhaseGoesOn DEF MoneyGoesBack, Phases
  <2>2. refunded' \in [Orders -> Nat]
    BY <1>1, <1>2 DEF MoneyGoesBack, Count, TypeOK
  <2>3. UNCHANGED <<order, lock, conv, sessLock, linked, cooked, paid, 
                    lostRefunds, reopened, late, captured, requests, crashes>>
    BY <1>2 DEF MoneyGoesBack, rows, env
  <2>. QED
    BY <1>1, <2>1, <2>2, <2>3, SideQuiet DEF TypeOK
<1>3. CASE RefundRefused(t)
  <2>1. TxnGoesOn /\ txn' \in [Txns -> Txn]
    BY <1>1, <1>3, EndsGoesOn DEF RefundRefused
  <2>2. lock' \in [Orders -> Txns \cup {NoTxn}]
    BY <1>1, <1>3, UnlockedType DEF RefundRefused
  <2>3. UNCHANGED <<order, conv, sessLock, linked, cooked, paid, refunded, 
                    lostRefunds, reopened, late, captured, requests, crashes>>
    BY <1>3 DEF RefundRefused, ledgers, env
  <2>. QED
    BY <1>1, <2>1, <2>2, <2>3, SideQuiet DEF TypeOK
<1>. QED
  BY <1>2, <1>3

LEMMA AbortQuiet ==
  ASSUME StockInv, NEW t \in Txns,
         UniqueViolation(t) \/ DeadlockVictim(t) \/ Crash(t)
  PROVE  StockInv'
<1>1. TypeOK /\ RollsBack(t)
  BY DEF StockInv, UniqueViolation, DeadlockVictim, Crash
<1>2. TxnGoesOn /\ txn' \in [Txns -> Txn]
  BY <1>1, EndsGoesOn DEF RollsBack
<1>3. lock' \in [Orders -> Txns \cup {NoTxn}] /\ sessLock' \in Txns \cup {NoTxn}
  BY <1>1, UnlockedType DEF RollsBack
<1>4. UNCHANGED <<order, conv, linked, late, captured, cooked, paid, refunded,
                  reopened, requests>>
  BY <1>1 DEF RollsBack
<1>5. lostRefunds' \in [Orders -> Nat] /\ crashes' \in Nat
  BY <1>1 DEF UniqueViolation, DeadlockVictim, Crash, TypeOK
<1>. QED
  BY <1>1, <1>2, <1>3, <1>4, <1>5, SideQuiet DEF TypeOK

LEMMA ChatQuiet ==
  ASSUME StockInv, AskPaymentMethod \/ modify \/ Browse \/ StartOver
  PROVE  StockInv'
<1>1. TypeOK /\ conv \in Conv /\ txn \in [Txns -> Txn]
      /\ conv.pending \in MaybeOrder /\ linked \cup captured \subseteq Orders
  BY DEF StockInv, TypeOK, Conv
<1>2. conv' \in Conv /\ conv'.pending \in {conv.pending, NoOrder}
  <2>1. CASE AskPaymentMethod
    BY <1>1, <2>1 DEF AskPaymentMethod, Chats, Conv, ConvStates
  <2>2. CASE modify
    <3>. DEFINE s == IF order[conv.last].status \in PRE_PREPARATION_STATUSES
                     THEN conv.last ELSE conv.superseded
    <3>1. conv' = [conv EXCEPT !.at = "SHOPPING", !.superseded = s]
      BY <2>2 DEF modify, Chats
    <3>2. s \in MaybeOrder
      BY <1>1 DEF Conv
    <3>. HIDE DEF s
    <3>. QED
      BY <1>1, <3>1, <3>2 DEF Conv, ConvStates
  <2>3. CASE Browse
    BY <1>1, <2>3 DEF Browse, Chats, Conv, ConvStates
  <2>4. CASE StartOver
    BY <1>1, <2>4, ClearedType DEF StartOver, Chats, ConvStates
  <2>. QED
    BY <2>1, <2>2, <2>3, <2>4
<1>3. UNCHANGED <<order, lock, txn, sessLock, linked, cooked, paid, refunded,
                  lostRefunds, reopened, late, captured, requests, crashes>>
  BY DEF AskPaymentMethod, modify, Browse, StartOver, Chats, ledgers, env
<1>4. TypeOK'
  BY <1>1, <1>2, <1>3 DEF TypeOK
<1>5. KnownOK'
  BY <1>1, <1>2, <1>3 DEF StockInv, KnownOK, Exists, MaybeOrder
<1>6. TxnGoesOn
  BY <1>3 DEF TxnGoesOn
<1>. QED
  BY <1>3, <1>4, <1>5, <1>6, QuietStep

LEMMA EnvironmentQuiet ==
  ASSUME StockInv, NEW o \in Orders, GrowsLate(o) \/ CustomerPays(o)
  PROVE  StockInv'
<1>1. TypeOK
  BY DEF StockInv
<1>2. UNCHANGED <<order, lock, txn, conv, sessLock, linked, cooked, paid, refunded,
                  lostRefunds, reopened, requests, crashes>>
  BY DEF GrowsLate, CustomerPays, rows, ledgers
<1>3. late' \subseteq Orders /\ captured' \subseteq Orders
      /\ captured' \subseteq captured \cup linked
  BY <1>1 DEF GrowsLate, CustomerPays, TypeOK
<1>4. TypeOK'
  BY <1>1, <1>2, <1>3 DEF TypeOK
<1>5. KnownOK'
  BY <1>2, <1>3 DEF StockInv, KnownOK, Exists
<1>6. TxnGoesOn
  BY <1>2 DEF TxnGoesOn
<1>. QED
  BY <1>2, <1>4, <1>5, <1>6, QuietStep

-----------------------------------------------------------------------------
(* The invariant and what it gives *)

LEMMA StockInit == Init => StockInv
<1>. SUFFICES ASSUME Init PROVE StockInv
  OBVIOUS
<1>1. \A t \in Txns : txn[t] = Idle
  BY DEF Init
<1>2. order \in [Orders -> Row \cup {NoRow}] /\ \A o \in Orders : order[o] = NoRow
  BY DEF Init
<1>3. txn \in [Txns -> Txn]
  BY IdleType DEF Init
<1>4. conv \in Conv /\ conv.pending = NoOrder
  BY DEF Init, NoConv, Conv, ConvStates, MaybeOrder
<1>5. /\ lock \in [Orders -> Txns \cup {NoTxn}]
      /\ sessLock \in Txns \cup {NoTxn}
      /\ linked = {} /\ late = {} /\ captured = {} /\ cooked = {}
      /\ paid \in [Orders -> Nat] /\ refunded \in [Orders -> Nat]
      /\ lostRefunds \in [Orders -> Nat] /\ reopened \in [Orders -> Nat]
      /\ requests \in Nat /\ crashes \in Nat
  BY DEF Init
<1>6. TypeOK
  BY <1>2, <1>3, <1>4, <1>5 DEF TypeOK
<1>7. \A t \in Txns : RequestOK(t) /\ SnapshotOK(t)
  BY <1>1 DEF RequestOK, SnapshotOK, Idle, NoRead
<1>8. \A o \in Orders : RowOK(o)
  BY <1>2 DEF RowOK, NoRow
<1>9. KnownOK
  BY <1>4, <1>5 DEF KnownOK
<1>. QED
  BY <1>6, <1>7, <1>8, <1>9 DEF StockInv

LEMMA StockNext == StockInv /\ [Next]_vars => StockInv'
<1>. SUFFICES ASSUME StockInv, [Next]_vars PROVE StockInv'
  OBVIOUS
<1>1. CASE Staff
  BY <1>1, ApiBegins DEF Staff
<1>2. CASE Worker
  BY <1>2, WorkerBegins DEF Worker
<1>3. CASE Customer
  BY <1>3, BotBeginsAny, ChatQuiet DEF Customer
<1>4. CASE Environment
  BY <1>4, EnvironmentQuiet DEF Environment
<1>5. ASSUME NEW t \in Txns, ApiStep(t)
      PROVE  StockInv'
  BY <1>5, StatusCommits, LinkQuiet, FlushQuiet, FeeCommits, PaymentStatusCommits,
     WebhookCommits, AfterPaidQuiet, RefundCommits, RefundQuiet DEF ApiStep
<1>6. ASSUME NEW t \in Txns, CommitTimeout(t) \/ BotStep(t)
      PROVE  StockInv'
  BY <1>6, TimeoutCommits, PlaceCommits, FinaliseCommits, RejectCommits DEF BotStep
<1>7. ASSUME NEW t \in Txns, Aborts(t) \/ Crash(t)
      PROVE  StockInv'
  BY <1>7, AbortQuiet DEF Aborts
<1>8. CASE UNCHANGED vars
  <2>1. UNCHANGED <<order, lock, txn, conv, sessLock, linked, late, captured, cooked,
                    paid, refunded, lostRefunds, reopened, requests, crashes>>
    BY <1>8 DEF vars
  <2>2. TxnGoesOn
    BY <2>1 DEF TxnGoesOn
  <2>. QED
    BY <2>1, <2>2, SideQuiet DEF StockInv, TypeOK
<1>. QED
  BY <1>1, <1>2, <1>3, <1>4, <1>5, <1>6, <1>7, <1>8 DEF Next, Step

\* The inductive invariant: what the rows are, what the snapshots still claim of
\* them, and that stock deducted for a cancelled order is back unless the
\* kitchen had it (every handler of routes_orders, routes_payments, worker, bot).
THEOREM StockInvariant == Spec => []StockInv
  BY StockInit, StockNext, PTL DEF Spec

\* Rows, locks, transactions and the session keep the shapes the handlers give
\* them, whatever raced.
THEOREM TypeCorrect == Spec => []TypeOK
<1>1. StockInv => TypeOK
  BY DEF StockInv
<1>. QED
  BY <1>1, StockInvariant, PTL

\* The stock of a cancelled order that was never cooked is back on the shelf,
\* for any number of orders, concurrent requests and jobs and every cancelling
\* handler (cancellation.py: reverse_consumption_on_cancel).
THEOREM CancelledStockIsReturned == Spec => []CancelledStockReturned
<1>1. StockInv => CancelledStockReturned
  BY DEF StockInv, RowOK, CancelledStockReturned
<1>. QED
  BY <1>1, StockInvariant, PTL

\* No order is ready or handed over that was never IN_PROGRESS: the status table
\* holds although update_order_status decides on a row it no longer holds.
THEOREM OnlyCookedIsHandedOver == Spec => []HandedOverOnlyIfCooked
<1>1. StockInv => HandedOverOnlyIfCooked
  BY DEF StockInv, RowOK, HandedOverOnlyIfCooked, BeforeKitchen,
     PRE_PREPARATION_STATUSES
<1>. QED
  BY <1>1, StockInvariant, PTL

-----------------------------------------------------------------------------
(* Money: the kitchen starts no order that must be paid online and was not, *)
(* and money goes back once, or for a reason that is on record.             *)
(*                                                                          *)
(* The first rests on what a snapshot still proves when it is used          *)
(* (GateOK): "PAID" was read, so some commit wrote it.  The second rests    *)
(* on the row lock of the refund (RefundOK): while a refund is under way    *)
(* nobody else writes its row, so its order is still PAID and the payment   *)
(* that covers it was not given back already (CoveredOK).                   *)

Refunding(t) == txn[t].op = "refund_order_payment"

\* Money was sent back for o and the commit that records it is still to come.
SentBack(o) == \E t \in Txns : /\ Refunding(t) /\ txn[t].phase = "refunded"
                              /\ o \in DOMAIN txn[t].read

\* What t read as paid was paid, and t goes to the kitchen only with that.
GateOK(t) ==
  /\ \A o \in DOMAIN txn[t].read : txn[t].read[o].pay = "PAID" => paid[o] > 0
  /\ txn[t].op = "update_order_status" /\ txn[t].to = "IN_PROGRESS"
       => \A o \in DOMAIN txn[t].read :
            OnlinePaymentRequired => txn[t].read[o].pay = "PAID"
  /\ txn[t].op = "finalise" => txn[t].to # "PAID"

\* A refund holds the row it read, and the row is still PAID.
RefundOK(t) ==
  /\ Refunding(t) =>
       /\ t \in Api
       /\ txn[t].to \in {"REFUNDED", "PARTIALLY_REFUNDED"}
       /\ txn[t].phase \in {"read", "refunded"}
       /\ \E o \in Orders : DOMAIN txn[t].read = {o}
       /\ \A o \in DOMAIN txn[t].read : lock[o] = t /\ order[o].pay = "PAID"
  /\ txn[t].phase = "refunded" => Refunding(t)

\* A PAID order has something left that no refund has answered for.
CoveredOK(o) ==
  /\ order[o].pay = "PAID" => paid[o] > 0
  /\ refunded[o] <= Explained(o)
  /\ order[o].pay = "PAID" /\ ~SentBack(o)
       => refunded[o] < Explained(o)

MoneyInv ==
  /\ StockInv
  /\ \A t \in Txns : GateOK(t) /\ RefundOK(t)
  /\ \A o \in Orders : CoveredOK(o)
  /\ KitchenOnlyAfterPayment

-----------------------------------------------------------------------------
(* The shape of every step that is not a refund's own *)

OthersStay(t) == \A u \in Txns \ {t} : txn'[u] = txn[u]

\* t goes on with what it read, is over, or has just begun and read the rows.
SlotStep(t) ==
  \/ /\ txn'[t].op = txn[t].op /\ txn'[t].to = txn[t].to
     /\ txn'[t].read = txn[t].read /\ txn'[t].phase # "refunded"
  \/ txn'[t] = Idle
  \/ /\ paid' = paid
     /\ txn'[t].phase # "refunded"
     /\ \A o \in DOMAIN txn'[t].read : o \in Orders /\ txn'[t].read[o] = order[o]
     /\ GateOK(t)'

\* t undoes PAID only on rows nobody else holds, counts what it marks PAID, also
\* as reopened after a refund, and touches no lock but its own.
RowsWritten(t) ==
  \A o \in Orders :
    /\ order[o].pay = "PAID" /\ order'[o].pay # "PAID" => lock[o] \in {NoTxn, t}
    /\ order[o].pay # "PAID" /\ order'[o].pay = "PAID"
         => /\ paid'[o] > paid[o]
            /\ refunded[o] > 0 => reopened'[o] > reopened[o]
    /\ lock'[o] # lock[o] => lock[o] \in {NoTxn, t}
    /\ paid'[o] >= paid[o] /\ reopened'[o] >= reopened[o]

KitchenStep ==
  \A o \in cooked' \ cooked : OnlinePaymentRequired => paid[o] > 0

OrdinaryStep(t) ==
  /\ ~Refunding(t) /\ ~Refunding(t)'
  /\ OthersStay(t) /\ SlotStep(t) /\ RowsWritten(t) /\ KitchenStep
  /\ refunded' = refunded /\ lostRefunds' = lostRefunds

\* The counters are numbers; snapshots are of orders.
LEMMA MoneyTypes ==
  ASSUME StockInv
  PROVE  /\ \A o \in Orders : paid[o] \in Nat /\ refunded[o] \in Nat
                              /\ lostRefunds[o] \in Nat /\ reopened[o] \in Nat
         /\ \A t \in Txns : DOMAIN txn[t].read \subseteq Orders
         /\ cooked \subseteq Orders
         /\ NoTxn \notin Txns
  BY ConstantsAssumption DEF StockInv, TypeOK, Txn, Snapshots

LEMMA OrdinaryKeepsMoney ==
  ASSUME MoneyInv, StockInv', NEW t \in Txns, OrdinaryStep(t)
  PROVE  MoneyInv'
<1>1. /\ \A o \in Orders : /\ paid[o] \in Nat /\ refunded[o] \in Nat
                           /\ lostRefunds[o] \in Nat /\ paid'[o] \in Nat
                           /\ reopened[o] \in Nat /\ reopened'[o] \in Nat
      /\ \A u \in Txns : DOMAIN txn[u].read \subseteq Orders
      /\ cooked \subseteq Orders /\ cooked' \subseteq Orders
      /\ NoTxn \notin Txns
  <2>1. StockInv
    BY DEF MoneyInv
  <2>2. /\ paid' \in [Orders -> Nat] /\ reopened' \in [Orders -> Nat]
        /\ cooked' \subseteq Orders
    BY DEF StockInv, TypeOK
  <2>. QED
    BY <2>1, <2>2, MoneyTypes
<1>2. \A o \in Orders : paid'[o] >= paid[o]
  BY DEF OrdinaryStep, RowsWritten
<1>3. \A u \in Txns \ {t} : GateOK(u)'
  <2>. SUFFICES ASSUME NEW u \in Txns \ {t} PROVE GateOK(u)'
    OBVIOUS
  <2>1. txn'[u] = txn[u] /\ GateOK(u)
    BY DEF OrdinaryStep, OthersStay, MoneyInv
  <2>. QED
    BY <1>1, <1>2, <2>1 DEF GateOK
<1>4. GateOK(t)'
  <2>0. GateOK(t)
    BY DEF MoneyInv
  <2>1. CASE txn'[t] = Idle
    BY <2>1 DEF GateOK, Idle, NoRead
  <2>2. CASE /\ txn'[t].op = txn[t].op /\ txn'[t].to = txn[t].to
             /\ txn'[t].read = txn[t].read
    BY <1>1, <1>2, <2>0, <2>2 DEF GateOK
  <2>. QED
    BY <2>1, <2>2 DEF OrdinaryStep, SlotStep
<1>5. \A u \in Txns : RefundOK(u)'
  <2>1. ~Refunding(t)' /\ txn'[t].phase # "refunded"
    BY DEF OrdinaryStep, SlotStep, Idle
  <2>2. ASSUME NEW u \in Txns \ {t}
        PROVE  RefundOK(u)'
    <3>1. txn'[u] = txn[u] /\ RefundOK(u)
      BY DEF OrdinaryStep, OthersStay, MoneyInv
    <3>2. ASSUME Refunding(u), NEW o \in DOMAIN txn[u].read
          PROVE  lock'[o] = u /\ order'[o].pay = "PAID"
      <4>1. o \in Orders /\ lock[o] = u /\ order[o].pay = "PAID"
        BY <1>1, <3>1, <3>2 DEF RefundOK
      <4>2. lock[o] \notin {NoTxn, t}
        BY <1>1, <4>1
      <4>. QED
        BY <4>1, <4>2 DEF OrdinaryStep, RowsWritten
    <3>. QED
      BY <3>1, <3>2 DEF RefundOK, Refunding
  <2>. QED
    BY <2>1, <2>2 DEF RefundOK
<1>6. \A o \in Orders : SentBack(o)' <=> SentBack(o)
  <2>1. ~Refunding(t) /\ ~Refunding(t)'
    BY DEF OrdinaryStep
  <2>2. \A u \in Txns \ {t} : txn'[u] = txn[u]
    BY DEF OrdinaryStep, OthersStay
  <2>. QED
    BY <2>1, <2>2 DEF SentBack, Refunding
<1>7. \A o \in Orders : CoveredOK(o)'
  <2>. SUFFICES ASSUME NEW o \in Orders PROVE CoveredOK(o)'
    OBVIOUS
  <2>1. /\ CoveredOK(o) /\ refunded' = refunded /\ lostRefunds' = lostRefunds
        /\ reopened'[o] >= reopened[o]
        /\ order'[o].pay = "PAID" =>
             \/ order[o].pay = "PAID"
             \/ /\ paid'[o] > paid[o]
                /\ refunded[o] > 0 => reopened'[o] > reopened[o]
    BY DEF MoneyInv, OrdinaryStep, RowsWritten
  <2>. QED
    BY <1>1, <1>2, <1>6, <2>1 DEF CoveredOK, Explained
<1>8. KitchenOnlyAfterPayment'
  <2>. SUFFICES ASSUME OnlinePaymentRequired, NEW o \in cooked'
                PROVE  paid'[o] > 0
    BY DEF KitchenOnlyAfterPayment
  <2>1. o \in Orders /\ paid[o] > 0
    BY <1>1 DEF OrdinaryStep, KitchenStep, MoneyInv, KitchenOnlyAfterPayment
  <2>. QED
    BY <1>1, <1>2, <2>1
<1>. QED
  BY <1>3, <1>4, <1>5, <1>7, <1>8 DEF MoneyInv

-----------------------------------------------------------------------------
(* Handlers begin *)

LEMMA BeginsOrdinary ==
  ASSUME MoneyInv, NEW t \in Txns, NEW op, NEW to \in Requested,
         NEW S \in SUBSET Orders, \A o \in S : Exists(o),
         Begins(t, op, to, S), op # "refund_order_payment",
         op = "update_order_status" /\ to = "IN_PROGRESS" =>
           \A o \in S : OnlinePaymentRequired => order[o].pay = "PAID",
         op = "finalise" => to # "PAID",
         UNCHANGED <<order, lock, cooked, paid, refunded, lostRefunds, reopened>>
  PROVE  OrdinaryStep(t)
<1>1. TypeOK /\ \A o \in Orders : CoveredOK(o) /\ paid[o] \in Nat /\ reopened[o] \in Nat
  BY MoneyTypes DEF MoneyInv, StockInv
<1>2. /\ txn'[t].op = op /\ txn'[t].to = to
      /\ txn'[t].read = [o \in S |-> order[o]]
      /\ OthersStay(t)
  BY <1>1, BeginsSlots DEF OthersStay
<1>3. txn[t] = Idle /\ txn'[t].phase = "read"
  BY <1>1 DEF Begins, TypeOK, Idle
<1>4. ~Refunding(t) /\ ~Refunding(t)'
  BY <1>2, <1>3 DEF Refunding, Idle
<1>5. GateOK(t)'
  <2>1. \A o \in DOMAIN txn'[t].read : o \in S /\ txn'[t].read[o] = order[o]
    BY <1>2
  <2>2. \A o \in S : order[o].pay = "PAID" => paid'[o] > 0
    BY <1>1 DEF CoveredOK
  <2>. QED
    BY <1>2, <2>1, <2>2 DEF GateOK
<1>6. SlotStep(t)
  BY <1>2, <1>3, <1>5 DEF SlotStep
<1>. QED
  BY <1>1, <1>2, <1>4, <1>6 DEF OrdinaryStep, RowsWritten, KitchenStep

LEMMA ApiBeginsOrdinary ==
  ASSUME MoneyInv, NEW t \in Api, NEW o \in Orders,
         \/ \E s \in Statuses : update_order_status(t, o, s)
         \/ set_delivery_fee(t, o)
         \/ \E p \in Corrections, manager \in BOOLEAN :
              update_payment_status(t, o, p, manager)
         \/ mark_order_paid(t, o)
  PROVE  OrdinaryStep(t)
<1>0. t \in Txns /\ {o} \in SUBSET Orders /\ TypeOK
  BY DEF Txns, MoneyInv, StockInv
<1>1. ASSUME NEW s \in Statuses, update_order_status(t, o, s)
      PROVE  OrdinaryStep(t)
  <2>1. /\ Exists(o) /\ Begins(t, "update_order_status", s, {o})
        /\ s = "IN_PROGRESS" /\ OnlinePaymentRequired => order[o].pay = "PAID"
        /\ UNCHANGED <<order, lock, cooked, paid, refunded, lostRefunds, reopened>>
    BY <1>1 DEF update_order_status, Transitions, Exists, rows, ledgers
  <2>2. s \in Requested
    BY DEF Requested
  <2>. QED
    BY <1>0, <2>1, <2>2, BeginsOrdinary
<1>2. ASSUME set_delivery_fee(t, o)
      PROVE  OrdinaryStep(t)
  <2>1. /\ Exists(o) /\ Begins(t, "set_delivery_fee", "FEE_SENT", {o})
        /\ UNCHANGED <<order, lock, cooked, paid, refunded, lostRefunds, reopened>>
    BY <1>2 DEF set_delivery_fee, Exists, rows, ledgers
  <2>2. "FEE_SENT" \in Requested
    BY DEF Requested, Statuses
  <2>. QED
    BY <1>0, <2>1, <2>2, BeginsOrdinary
<1>3. ASSUME NEW p \in Corrections, NEW manager \in BOOLEAN,
             update_payment_status(t, o, p, manager)
      PROVE  OrdinaryStep(t)
  <2>1. /\ Exists(o) /\ Begins(t, "update_payment_status", p, {o})
        /\ UNCHANGED <<order, lock, cooked, paid, refunded, lostRefunds, reopened>>
    BY <1>3 DEF update_payment_status, rows, ledgers
  <2>2. p \in Requested
    BY ConstantsAssumption DEF Requested, Payments
  <2>. QED
    BY <1>0, <2>1, <2>2, BeginsOrdinary
<1>4. ASSUME mark_order_paid(t, o)
      PROVE  OrdinaryStep(t)
  <2>1. /\ Exists(o) /\ Begins(t, "mark_order_paid", "PAID", {o})
        /\ UNCHANGED <<order, lock, cooked, paid, refunded, lostRefunds, reopened>>
    BY <1>4 DEF mark_order_paid, MoneyInv, StockInv, KnownOK, rows, ledgers
  <2>2. "PAID" \in Requested
    BY DEF Requested, Payments, SettablePayments
  <2>. QED
    BY <1>0, <2>1, <2>2, BeginsOrdinary
<1>. QED
  BY <1>1, <1>2, <1>3, <1>4

LEMMA WorkerBeginsOrdinary ==
  ASSUME MoneyInv, cancel_stale_delivery_fee_orders \/ cancel_unpaid_orders
  PROVE  \E t \in Txns : OrdinaryStep(t)
<1>0. /\ TypeOK /\ FeeCron \in Txns /\ PayCron \in Txns
      /\ "CANCELLED" \in Requested
  BY DEF MoneyInv, StockInv, Txns, Requested, Statuses
<1>1. StaleFeeOrders \in SUBSET Orders /\ \A o \in StaleFeeOrders : Exists(o)
  BY <1>0 DEF StaleFeeOrders, TypeOK, Exists
<1>2. UnpaidOrders \in SUBSET Orders /\ \A o \in UnpaidOrders : Exists(o)
  BY <1>0, PaidExists
  DEF UnpaidOrders, TypeOK, Outstanding, Payments, SettablePayments
<1>3. UNCHANGED <<order, lock, cooked, paid, refunded, lostRefunds, reopened>>
  BY DEF cancel_stale_delivery_fee_orders, cancel_unpaid_orders, rows, ledgers
<1>4. CASE cancel_stale_delivery_fee_orders
  <2>1. Begins(FeeCron, "cancel_stale_delivery_fee_orders", "CANCELLED", StaleFeeOrders)
    BY <1>4 DEF cancel_stale_delivery_fee_orders
  <2>2. OrdinaryStep(FeeCron)
    BY <1>0, <1>1, <1>3, <2>1, BeginsOrdinary
  <2>. QED
    BY <1>0, <2>2
<1>5. CASE cancel_unpaid_orders
  <2>1. Begins(PayCron, "cancel_unpaid_orders", "CANCELLED", UnpaidOrders)
    BY <1>5 DEF cancel_unpaid_orders
  <2>2. OrdinaryStep(PayCron)
    BY <1>0, <1>2, <1>3, <2>1, BeginsOrdinary
  <2>. QED
    BY <1>0, <2>2
<1>. QED
  BY <1>4, <1>5

LEMMA BotBeginsOrdinary ==
  ASSUME MoneyInv, NEW t \in Bot,
         \/ \E mode \in {"PICKUP", "DELIVERY"} : place(t, mode)
         \/ \E p \in {"UNPAID", "PENDING", "CASH_ON_COLLECTION"} : finalise(t, p)
         \/ reject(t)
  PROVE  OrdinaryStep(t)
<1>0. t \in Txns /\ StockInv /\ TypeOK
  BY DEF Txns, MoneyInv, StockInv
<1>1. UNCHANGED <<order, lock, cooked, paid, refunded, lostRefunds, reopened>>
  BY DEF place, finalise, reject, BotBegins, ledgers
<1>2. ASSUME NEW mode \in {"PICKUP", "DELIVERY"}, place(t, mode)
      PROVE  OrdinaryStep(t)
  <2>1. Superseding \cup PriorLive \in SUBSET Orders
    BY DEF Superseding, PriorLive
  <2>2. \A o \in Superseding \cup PriorLive : Exists(o)
    BY DEF Superseding, PriorLive, PRE_PREPARATION_STATUSES, Exists
  <2>3. mode \in Requested /\ Begins(t, "place", mode, Superseding \cup PriorLive)
    BY <1>2 DEF Requested, place, BotBegins
  <2>. QED
    BY <1>0, <1>1, <2>1, <2>2, <2>3, BeginsOrdinary
<1>3. ASSUME NEW p \in {"UNPAID", "PENDING", "CASH_ON_COLLECTION"}, finalise(t, p)
      PROVE  OrdinaryStep(t)
  <2>1. p \in Requested /\ p # "PAID" /\ Begins(t, "finalise", p, {})
    BY <1>3 DEF Requested, Payments, SettablePayments, finalise, BotBegins
  <2>. QED
    BY <1>0, <1>1, <2>1, BeginsOrdinary
<1>4. ASSUME reject(t)
      PROVE  OrdinaryStep(t)
  <2>1. conv.pending \in Orders
    BY <1>0, <1>4 DEF reject, TypeOK, Conv, MaybeOrder
  <2>2. Exists(conv.pending)
    BY <1>0, <1>4 DEF StockInv, KnownOK, reject
  <2>3. "CANCELLED" \in Requested /\ Begins(t, "reject", "CANCELLED", {conv.pending})
    BY <1>4 DEF Requested, Statuses, reject, BotBegins
  <2>. QED
    BY <1>0, <1>1, <2>1, <2>2, <2>3, BeginsOrdinary
<1>. QED
  BY <1>2, <1>3, <1>4

-----------------------------------------------------------------------------
(* Handlers go on, commit or roll back *)

LEMMA EndsOrdinary ==
  ASSUME TypeOK, NEW t \in Txns, ~Refunding(t), Ends(t)
  PROVE  ~Refunding(t)' /\ OthersStay(t) /\ SlotStep(t)
<1>1. txn'[t] = Idle /\ \A u \in Txns \ {t} : txn'[u] = txn[u]
  BY EndsSlots
<1>. QED
  BY <1>1 DEF Refunding, OthersStay, SlotStep, Idle

LEMMA PhaseOrdinary ==
  ASSUME TypeOK, NEW t \in Txns, ~Refunding(t), NEW p \in Phases,
         p # "refunded", txn' = [txn EXCEPT ![t].phase = p]
  PROVE  ~Refunding(t)' /\ OthersStay(t) /\ SlotStep(t)
<1>1. txn[t] \in Txn /\ txn \in [Txns -> Txn]
  BY DEF TypeOK
<1>2. txn'[t] = [txn[t] EXCEPT !.phase = p] /\ \A u \in Txns \ {t} : txn'[u] = txn[u]
  BY <1>1
<1>3. /\ txn'[t].op = txn[t].op /\ txn'[t].to = txn[t].to
      /\ txn'[t].read = txn[t].read /\ txn'[t].phase = p
  BY <1>1, <1>2 DEF Txn
<1>. QED
  BY <1>2, <1>3 DEF Refunding, OthersStay, SlotStep

LEMMA StatusOrdinary ==
  ASSUME MoneyInv, NEW t \in Txns, CommitStatus(t)
  PROVE  OrdinaryStep(t)
<1>1. PICK o \in DOMAIN txn[t].read :
        /\ Writable({o}, t)
        /\ order' = [order EXCEPT ![o] =
             IF txn[t].to = "CANCELLED" THEN CancelledRow(o, txn[t].read[o].status)
             ELSE MovedRow(o, txn[t].read[o], txn[t].to)]
        /\ cooked' = IF txn[t].to = "IN_PROGRESS" THEN cooked \cup {o} ELSE cooked
  BY DEF CommitStatus
<1>2. TypeOK /\ StockInv /\ GateOK(t) /\ order \in [Orders -> Row \cup {NoRow}]
  BY DEF MoneyInv, StockInv, TypeOK
<1>3. /\ ~Refunding(t) /\ txn[t].op = "update_order_status"
      /\ UNCHANGED <<lock, paid, refunded, lostRefunds, reopened>>
  BY DEF CommitStatus, Refunding
<1>4. ~Refunding(t)' /\ OthersStay(t) /\ SlotStep(t)
  BY <1>2, <1>3, EndsOrdinary, PhaseOrdinary DEF CommitStatus, Phases
<1>5. /\ order'[o].pay \in {order[o].pay, "PENDING"}
      /\ \A p \in Orders \ {o} : order'[p] = order[p]
      /\ o \in Orders
  BY <1>1, <1>2, ReadRows DEF CancelledRow, MovedRow, AcceptedPay
<1>6. RowsWritten(t)
  BY <1>1, <1>2, <1>3, <1>5, MoneyTypes DEF RowsWritten, Writable
<1>7. KitchenStep
  BY <1>1, <1>2, <1>3 DEF KitchenStep, GateOK
<1>. QED
  BY <1>3, <1>4, <1>6, <1>7 DEF OrdinaryStep

\* A commit that counts what it marks PAID and leaves the kitchen alone.
LEMMA CommitOrdinary ==
  ASSUME MoneyInv, NEW t \in Txns, ~Refunding(t), Ends(t),
         cooked' = cooked, paid' = paid, reopened' = reopened,
         refunded' = refunded, lostRefunds' = lostRefunds,
         \A o \in Orders :
           /\ order[o].pay = "PAID" /\ order'[o].pay # "PAID" => lock[o] \in {NoTxn, t}
           /\ order'[o].pay = "PAID" => order[o].pay = "PAID"
           /\ lock'[o] # lock[o] => lock[o] \in {NoTxn, t}
  PROVE  OrdinaryStep(t)
<1>1. TypeOK /\ StockInv
  BY DEF MoneyInv, StockInv
<1>2. ~Refunding(t)' /\ OthersStay(t) /\ SlotStep(t)
  BY <1>1, EndsOrdinary
<1>3. RowsWritten(t)
  BY <1>1, MoneyTypes DEF RowsWritten
<1>. QED
  BY <1>2, <1>3 DEF OrdinaryStep, KitchenStep

LEMMA PaidCommitsOrdinary ==
  ASSUME MoneyInv, NEW t \in Txns, CommitPayment(t) \/ CommitPaid(t)
  PROVE  OrdinaryStep(t)
<1>1. TypeOK /\ StockInv /\ order \in [Orders -> Row \cup {NoRow}]
      /\ paid \in [Orders -> Nat] /\ reopened \in [Orders -> Nat]
  BY DEF MoneyInv, StockInv, TypeOK
<1>2. ~Refunding(t) /\ UNCHANGED <<lock, cooked, refunded, lostRefunds>>
  BY DEF CommitPayment, CommitPaid, Refunding
<1>3. ~Refunding(t)' /\ OthersStay(t) /\ SlotStep(t)
  BY <1>1, <1>2, EndsOrdinary, PhaseOrdinary DEF CommitPayment, CommitPaid, Phases
<1>4. PICK o \in DOMAIN txn[t].read :
        /\ Writable({o}, t)
        /\ \/ /\ order' = [order EXCEPT ![o].pay =
                   IF txn[t].to # txn[t].read[o].pay THEN txn[t].to ELSE @]
              /\ IF txn[t].to = "PAID" /\ txn[t].read[o].pay # "PAID"
                 THEN MarksPaid(o) ELSE UNCHANGED <<paid, reopened>>
           \/ order' = [order EXCEPT ![o].pay = "PAID"] /\ MarksPaid(o)
  BY DEF CommitPayment, CommitPaid
<1>5. o \in Orders /\ order[o] \in Row
  BY <1>1, ReadRows
<1>6. \A p \in Orders \ {o} : /\ order'[p] = order[p] /\ paid'[p] = paid[p]
                              /\ reopened'[p] = reopened[p]
  BY <1>1, <1>4, <1>5 DEF MarksPaid, Count
<1>7. /\ order'[o].pay # order[o].pay /\ order'[o].pay = "PAID"
           => /\ paid'[o] = paid[o] + 1
              /\ refunded[o] > 0 => reopened'[o] = reopened[o] + 1
      /\ paid'[o] >= paid[o] /\ reopened'[o] >= reopened[o]
  BY <1>1, <1>4, <1>5 DEF MarksPaid, Count, Row
<1>8. RowsWritten(t)
  BY <1>1, <1>2, <1>4, <1>6, <1>7 DEF RowsWritten, Writable
<1>. QED
  BY <1>2, <1>3, <1>8 DEF OrdinaryStep, KitchenStep

LEMMA FeeOrdinary ==
  ASSUME MoneyInv, NEW t \in Txns, FlushFee(t) \/ CommitFee(t)
  PROVE  OrdinaryStep(t)
<1>1. TypeOK /\ StockInv /\ order \in [Orders -> Row \cup {NoRow}]
      /\ txn \in [Txns -> Txn]
  BY DEF MoneyInv, StockInv, TypeOK
<1>2. ~Refunding(t) /\ UNCHANGED <<cooked, paid, refunded, lostRefunds, reopened>>
  BY DEF FlushFee, CommitFee, Refunding, ledgers
<1>3. CASE FlushFee(t)
  <2>1. PICK told \in {"flushed", "untold"} :
          txn' = [txn EXCEPT ![t].phase = told, ![t].conv = conv]
    BY <1>3 DEF FlushFee
  <2>2. /\ txn'[t] = [txn[t] EXCEPT !.phase = told, !.conv = conv]
        /\ \A u \in Txns \ {t} : txn'[u] = txn[u]
        /\ txn[t] \in Txn
    BY <1>1, <2>1
  <2>3. /\ txn'[t].op = txn[t].op /\ txn'[t].to = txn[t].to
        /\ txn'[t].read = txn[t].read /\ txn'[t].phase = told
    BY <2>2 DEF Txn
  <2>4. ~Refunding(t)' /\ OthersStay(t) /\ SlotStep(t)
    BY <1>2, <2>2, <2>3 DEF Refunding, OthersStay, SlotStep
  <2>5. RowsWritten(t)
    BY <1>1, <1>2, <1>3, MoneyTypes DEF FlushFee, RowsWritten, Writable
  <2>. QED
    BY <1>2, <2>4, <2>5 DEF OrdinaryStep, KitchenStep
<1>4. CASE CommitFee(t)
  <2>1. PICK o \in DOMAIN txn[t].read : order' = [order EXCEPT ![o].status = "FEE_SENT"]
    BY <1>4 DEF CommitFee
  <2>2. o \in Orders /\ order[o] \in Row
    BY <1>1, ReadRows
  <2>3. \A p \in Orders : order'[p].pay = order[p].pay
    BY <1>1, <2>1, <2>2 DEF Row
  <2>4. \A p \in Orders : lock'[p] # lock[p] => lock[p] = t
    BY <1>4 DEF CommitFee, Unlocked
  <2>. QED
    BY <1>2, <1>4, <2>3, <2>4, CommitOrdinary DEF CommitFee
<1>. QED
  BY <1>3, <1>4

LEMMA TimeoutOrdinary ==
  ASSUME MoneyInv, NEW t \in Txns, CommitTimeout(t)
  PROVE  OrdinaryStep(t)
<1>1. /\ ~Refunding(t) /\ Ends(t)
      /\ UNCHANGED <<lock, cooked, paid, refunded, lostRefunds, reopened>>
  BY DEF CommitTimeout, TimeoutCrons, Refunding, ledgers
<1>2. \A o \in Orders : order'[o].pay # order[o].pay =>
        lock[o] \in {NoTxn, t} /\ order'[o].pay # "PAID"
  BY DEF CommitTimeout, Writable, CancelledRow
<1>. QED
  BY <1>1, <1>2, CommitOrdinary

LEMMA BotCommitsOrdinary ==
  ASSUME MoneyInv, NEW t \in Txns, BotStep(t)
  PROVE  OrdinaryStep(t)
<1>1. /\ ~Refunding(t) /\ Ends(t)
      /\ UNCHANGED <<lock, cooked, paid, refunded, lostRefunds, reopened>>
  BY DEF BotStep, CommitPlace, CommitFinalise, CommitReject, BotCommits, Refunding
<1>2. StockInv /\ GateOK(t) /\ order \in [Orders -> Row \cup {NoRow}]
  BY DEF MoneyInv, StockInv, TypeOK
<1>3. ASSUME CommitPlace(t), NEW o \in Orders, order'[o].pay # order[o].pay
      PROVE  order[o].pay # "PAID" /\ order'[o].pay # "PAID"
  <2>1. PICK new \in Orders :
          /\ ~Exists(new)
          /\ order' = [p \in Orders |->
               CASE p = new -> Placed(txn[t].to)
                 [] p \in DOMAIN txn[t].read -> Replaced(p, txn[t].read[p])
                 [] OTHER -> order[p]]
    BY <1>3 DEF CommitPlace
  <2>2. CASE o = new
    <3>1. TypeOK /\ ~Exists(o)
      BY <1>2, <2>1, <2>2 DEF StockInv
    <3>2. o \notin DOMAIN txn[t].read
      BY <1>2, <3>1, ReadRows
    <3>3. order'[o] = Placed(txn[t].to)
      BY <2>1, <2>2, <3>2
    <3>4. order'[o].pay \in {"UNPAID", "PENDING"}
      BY <3>3 DEF Placed
    <3>5. "PAID" \in Payments
      BY DEF Payments, SettablePayments
    <3>6. order[o].pay # "PAID"
      BY <3>1, <3>5, PaidExists
    <3>. QED
      BY <3>4, <3>6
  <2>3. CASE o # new /\ o \in DOMAIN txn[t].read
    <3>1. order'[o] = Replaced(o, txn[t].read[o])
      BY <2>1, <2>3
    <3>2. order[o] \in Row
      BY <1>2, <2>3, ReadRows
    <3>3. order'[o].pay = order[o].pay
      BY <3>1, <3>2 DEF Replaced, CancelledRow, Row
    <3>. QED
      BY <1>3, <3>3
  <2>4. CASE o # new /\ o \notin DOMAIN txn[t].read
    BY <1>3, <2>1, <2>4
  <2>. QED
    BY <2>2, <2>3, <2>4
<1>4. ASSUME CommitFinalise(t), NEW o \in Orders, order'[o].pay # order[o].pay
      PROVE  lock[o] \in {NoTxn, t} /\ order'[o].pay # "PAID"
  BY <1>2, <1>4 DEF CommitFinalise, Writable, GateOK
<1>5. ASSUME CommitReject(t), NEW o \in Orders
      PROVE  order'[o].pay = order[o].pay
  BY <1>2, <1>5 DEF CommitReject, CancelledRow
<1>6. \A o \in Orders : order'[o].pay # order[o].pay =>
        /\ order[o].pay = "PAID" => lock[o] \in {NoTxn, t}
        /\ order'[o].pay # "PAID"
  BY <1>3, <1>4, <1>5 DEF BotStep
<1>. QED
  BY <1>1, <1>6, CommitOrdinary

LEMMA AsideOrdinary ==
  ASSUME MoneyInv, NEW t \in Txns, CreateLink(t) \/ AfterPaid(t)
  PROVE  OrdinaryStep(t)
<1>1. TypeOK /\ GateOK(t) /\ RefundOK(t)
  BY DEF MoneyInv, StockInv
<1>2. /\ Ends(t) /\ UNCHANGED <<order, lock, cooked, paid, refunded, lostRefunds, reopened>>
  BY DEF CreateLink, AfterPaid, rows, ledgers
<1>3. CASE ~Refunding(t)
  BY <1>2, <1>3, CommitOrdinary
<1>4. CASE Refunding(t)
  <2>1. txn[t].phase \in {"read", "refunded"}
    BY <1>1, <1>4 DEF RefundOK
  <2>. QED
    BY <2>1 DEF CreateLink, AfterPaid
<1>. QED
  BY <1>3, <1>4

LEMMA RollbackOrdinary ==
  ASSUME MoneyInv, NEW t \in Txns,
         \/ UniqueViolation(t) \/ DeadlockVictim(t)
         \/ Crash(t) /\ ~Refunding(t)
  PROVE  OrdinaryStep(t)
<1>1. RefundOK(t) /\ TypeOK
  BY DEF MoneyInv, StockInv
<1>2. ~Refunding(t)
  <2>1. CASE UniqueViolation(t)
    <3>1. txn[t].to = "CANCELLED" \/ txn[t].op = "place"
      BY <2>1 DEF UniqueViolation, MirrorConflict
    <3>. QED
      BY <1>1, <3>1 DEF RefundOK, Refunding
  <2>2. CASE DeadlockVictim(t)
    <3>1. t \in Bot \/ txn[t].op = "set_delivery_fee"
      BY <2>2 DEF DeadlockVictim
    <3>. QED
      BY <1>1, <3>1, ConstantsAssumption DEF RefundOK, Refunding
  <2>. QED
    BY <2>1, <2>2
<1>3. /\ Ends(t) /\ UNCHANGED <<order, cooked, paid, refunded, reopened>>
      /\ lock' = Unlocked(t)
  BY DEF UniqueViolation, DeadlockVictim, Crash, RollsBack
<1>4. \A o \in Orders : lock'[o] # lock[o] => lock[o] = t
  BY <1>3 DEF Unlocked
<1>5. lostRefunds' = lostRefunds
  <2>1. CASE Crash(t)
    <3>1. txn[t].phase # "refunded"
      BY <1>1, <1>2 DEF RefundOK
    <3>. QED
      BY <1>1, <2>1, <3>1 DEF Crash, TypeOK
  <2>2. CASE UniqueViolation(t) \/ DeadlockVictim(t)
    BY <2>2 DEF UniqueViolation, DeadlockVictim
  <2>. QED
    BY <2>1, <2>2
<1>. QED
  BY <1>2, <1>3, <1>4, <1>5, CommitOrdinary

-----------------------------------------------------------------------------
(* The refund's own steps *)

\* The other transactions keep what they know, and none refunds a row that t
\* holds or nobody does.
LEMMA RefundOthers ==
  ASSUME MoneyInv, NEW t \in Txns, OthersStay(t), paid' = paid,
         \A o \in Orders :
           order'[o].pay # order[o].pay \/ lock'[o] # lock[o]
             => lock[o] \in {NoTxn, t}
  PROVE  \A u \in Txns \ {t} :
           /\ GateOK(u)' /\ RefundOK(u)'
           /\ \A o \in DOMAIN txn[u].read : Refunding(u) => lock[o] \notin {NoTxn, t}
<1>. SUFFICES ASSUME NEW u \in Txns \ {t}
              PROVE  /\ GateOK(u)' /\ RefundOK(u)'
                     /\ \A o \in DOMAIN txn[u].read :
                          Refunding(u) => lock[o] \notin {NoTxn, t}
  OBVIOUS
<1>1. GateOK(u) /\ RefundOK(u) /\ StockInv /\ txn'[u] = txn[u]
  BY DEF MoneyInv, OthersStay
<1>2. DOMAIN txn[u].read \subseteq Orders /\ NoTxn \notin Txns
  BY <1>1, MoneyTypes
<1>3. \A o \in DOMAIN txn[u].read : Refunding(u) => lock[o] = u /\ order[o].pay = "PAID"
  BY <1>1 DEF RefundOK
<1>4. \A o \in DOMAIN txn[u].read : Refunding(u) => lock[o] \notin {NoTxn, t}
  BY <1>2, <1>3
<1>5. \A o \in DOMAIN txn[u].read :
        Refunding(u) => lock'[o] = u /\ order'[o].pay = "PAID"
  BY <1>2, <1>3, <1>4
<1>6. GateOK(u)'
  BY <1>1, <1>2 DEF GateOK
<1>7. RefundOK(u)'
  BY <1>1, <1>5 DEF RefundOK, Refunding
<1>. QED
  BY <1>4, <1>6, <1>7

LEMMA RefundBegins ==
  ASSUME MoneyInv, StockInv', NEW t \in Api, NEW o \in Orders,
         NEW outcome \in {"REFUNDED", "PARTIALLY_REFUNDED"},
         refund_order_payment(t, o, outcome)
  PROVE  MoneyInv'
<1>1. /\ t \in Txns /\ TypeOK /\ StockInv /\ outcome \in Requested
      /\ {o} \in SUBSET Orders /\ CoveredOK(o)
  BY DEF Txns, MoneyInv, StockInv, Requested, Payments
<1>2. /\ lock[o] \in {NoTxn, t} /\ lock' = [lock EXCEPT ![o] = t]
      /\ order[o].pay = "PAID" /\ Begins(t, "refund_order_payment", outcome, {o})
      /\ UNCHANGED <<order, cooked, paid, refunded, lostRefunds, reopened>>
  BY DEF refund_order_payment, Writable, ledgers
<1>3. \A p \in {o} : Exists(p)
  BY <1>1, <1>2, PaidExists DEF Payments, SettablePayments
<1>4. /\ txn'[t].op = "refund_order_payment" /\ txn'[t].to = outcome
      /\ txn'[t].read = [p \in {o} |-> order[p]]
      /\ OthersStay(t)
  BY <1>1, <1>2, <1>3, BeginsSlots DEF OthersStay
<1>5. txn[t] = Idle /\ txn'[t].phase = "read"
  BY <1>1, <1>2 DEF Begins, TypeOK, Idle
<1>6. lock'[o] = t /\ \A p \in Orders \ {o} : lock'[p] = lock[p]
  BY <1>1, <1>2 DEF TypeOK
<1>7. \A u \in Txns \ {t} : GateOK(u)' /\ RefundOK(u)'
  BY <1>1, <1>2, <1>4, <1>6, RefundOthers
<1>8. GateOK(t)'
  BY <1>1, <1>2, <1>4 DEF GateOK, CoveredOK
<1>9. RefundOK(t)'
  BY <1>2, <1>4, <1>5, <1>6 DEF RefundOK, Refunding
<1>10. \A p \in Orders : SentBack(p)' <=> SentBack(p)
  BY <1>4, <1>5 DEF SentBack, OthersStay, Refunding, Idle
<1>11. \A p \in Orders : CoveredOK(p)'
  BY <1>2, <1>10 DEF MoneyInv, CoveredOK, Explained
<1>12. KitchenOnlyAfterPayment'
  BY <1>2 DEF MoneyInv, KitchenOnlyAfterPayment
<1>. QED
  BY <1>7, <1>8, <1>9, <1>11, <1>12 DEF MoneyInv

\* The one row a refund holds, and that no other refund has sent it back.
LEMMA RefundHolds ==
  ASSUME MoneyInv, NEW t \in Txns, Refunding(t)
  PROVE  \E o \in Orders :
           /\ DOMAIN txn[t].read = {o} /\ lock[o] = t /\ order[o].pay = "PAID"
           /\ CoveredOK(o)
           /\ SentBack(o) <=> txn[t].phase = "refunded"
<1>1. PICK o \in Orders : DOMAIN txn[t].read = {o} /\ lock[o] = t /\ order[o].pay = "PAID"
  BY DEF MoneyInv, RefundOK
<1>2. \A u \in Txns \ {t} : o \in DOMAIN txn[u].read => ~Refunding(u)
  BY <1>1 DEF MoneyInv, RefundOK
<1>3. SentBack(o) <=> txn[t].phase = "refunded"
  BY <1>1, <1>2 DEF SentBack
<1>. QED
  BY <1>1, <1>3 DEF MoneyInv

\* The provider answered: the payment that covered the order is used up.
LEMMA RefundSends ==
  ASSUME MoneyInv, StockInv', NEW t \in Txns, MoneyGoesBack(t)
  PROVE  MoneyInv'
<1>1. TypeOK /\ StockInv /\ Refunding(t) /\ txn[t].phase = "read" /\ GateOK(t) /\ RefundOK(t)
  BY DEF MoneyGoesBack, Refunding, MoneyInv, StockInv
<1>2. PICK o \in Orders :
        /\ DOMAIN txn[t].read = {o} /\ lock[o] = t /\ order[o].pay = "PAID"
        /\ CoveredOK(o)
        /\ SentBack(o) <=> txn[t].phase = "refunded"
  BY <1>1, RefundHolds
<1>3. /\ refunded' = Count(refunded, o)
      /\ txn' = [txn EXCEPT ![t].phase = "refunded"]
      /\ UNCHANGED <<order, lock, cooked, paid, lostRefunds, reopened>>
  BY <1>2 DEF MoneyGoesBack, rows
<1>4. txn[t] \in Txn /\ txn \in [Txns -> Txn] /\ refunded \in [Orders -> Nat]
  BY <1>1 DEF TypeOK
<1>5. txn'[t] = [txn[t] EXCEPT !.phase = "refunded"] /\ OthersStay(t)
  BY <1>3, <1>4 DEF OthersStay
<1>6. /\ txn'[t].op = txn[t].op /\ txn'[t].to = txn[t].to
      /\ txn'[t].read = txn[t].read /\ txn'[t].phase = "refunded"
  BY <1>4, <1>5 DEF Txn
<1>7. \A u \in Txns \ {t} : GateOK(u)' /\ RefundOK(u)'
  BY <1>3, <1>5, RefundOthers
<1>8. GateOK(t)' /\ RefundOK(t)'
  BY <1>1, <1>3, <1>6 DEF GateOK, RefundOK, Refunding
<1>9. /\ SentBack(o)'
      /\ \A p \in Orders \ {o} : SentBack(p)' <=> SentBack(p)
  <2>1. o \in DOMAIN txn'[t].read /\ Refunding(t)'
    BY <1>1, <1>2, <1>6 DEF Refunding
  <2>2. SentBack(o)'
    BY <1>6, <2>1 DEF SentBack
  <2>3. \A p \in Orders \ {o} : p \notin DOMAIN txn[t].read /\ p \notin DOMAIN txn'[t].read
    BY <1>2, <1>6
  <2>4. \A p \in Orders \ {o} : SentBack(p)' <=> SentBack(p)
    BY <1>5, <2>3 DEF SentBack, OthersStay, Refunding
  <2>. QED
    BY <2>2, <2>4
<1>10. \A p \in Orders : /\ paid[p] \in Nat /\ refunded[p] \in Nat
                         /\ lostRefunds[p] \in Nat /\ reopened[p] \in Nat
  BY <1>1, MoneyTypes
<1>11. refunded'[o] = refunded[o] + 1 /\ \A p \in Orders \ {o} : refunded'[p] = refunded[p]
  BY <1>3, <1>4 DEF Count
<1>12. CoveredOK(o)'
  BY <1>1, <1>2, <1>3, <1>9, <1>10, <1>11 DEF CoveredOK, Explained
<1>13. \A p \in Orders \ {o} : CoveredOK(p)'
  BY <1>3, <1>9, <1>11 DEF MoneyInv, CoveredOK, Explained
<1>14. KitchenOnlyAfterPayment'
  BY <1>3 DEF MoneyInv, KitchenOnlyAfterPayment
<1>. QED
  BY <1>7, <1>8, <1>12, <1>13, <1>14 DEF MoneyInv

\* The refund is over: recorded, refused, or killed with its process.
LEMMA RefundEnds ==
  ASSUME MoneyInv, StockInv', NEW t \in Txns,
         \/ CommitRefund(t) \/ RefundRefused(t)
         \/ Crash(t) /\ Refunding(t)
  PROVE  MoneyInv'
<1>1. TypeOK /\ StockInv /\ Refunding(t) /\ RefundOK(t) /\ Ends(t)
  BY DEF CommitRefund, RefundRefused, Crash, RollsBack, Refunding, MoneyInv, StockInv
<1>2. PICK o \in Orders :
        /\ DOMAIN txn[t].read = {o} /\ lock[o] = t /\ order[o].pay = "PAID"
        /\ CoveredOK(o)
        /\ SentBack(o) <=> txn[t].phase = "refunded"
  BY <1>1, RefundHolds
<1>3. txn'[t] = Idle /\ OthersStay(t)
  BY <1>1, EndsSlots DEF OthersStay
<1>4. UNCHANGED <<cooked, paid, refunded, reopened>> /\ lock' = Unlocked(t)
  BY DEF CommitRefund, RefundRefused, Crash, RollsBack, ledgers
<1>5. \A p \in Orders : lock'[p] # lock[p] => lock[p] = t
  BY <1>4 DEF Unlocked
<1>6. order \in [Orders -> Row \cup {NoRow}] /\ order[o] \in Row
  BY <1>1, <1>2, ReadRows DEF TypeOK
<1>7. \A p \in Orders \ {o} : order'[p] = order[p] /\ lostRefunds'[p] = lostRefunds[p]
  BY <1>1, <1>2, <1>6
  DEF CommitRefund, RefundRefused, Crash, RollsBack, ledgers, TypeOK
<1>8. \A p \in Orders \ {o} : SentBack(p)' <=> SentBack(p)
  BY <1>2, <1>3 DEF SentBack, OthersStay, Refunding, Idle
<1>9. ~SentBack(o)'
  <2>1. \A u \in Txns \ {t} : Refunding(u) => o \notin DOMAIN txn[u].read
    BY <1>2 DEF MoneyInv, RefundOK
  <2>. QED
    BY <1>3, <2>1 DEF SentBack, OthersStay, Refunding, Idle
<1>10. \A p \in Orders : /\ paid[p] \in Nat /\ refunded[p] \in Nat
                         /\ lostRefunds[p] \in Nat /\ reopened[p] \in Nat
  BY <1>1, MoneyTypes
<1>11. CoveredOK(o)'
  <2>1. CASE CommitRefund(t)
    <3>1. order'[o].pay = txn[t].to /\ lostRefunds' = lostRefunds
      BY <1>2, <1>6, <2>1 DEF CommitRefund, ledgers, Row
    <3>2. order'[o].pay # "PAID"
      BY <1>1, <3>1 DEF RefundOK
    <3>. QED
      BY <1>2, <1>4, <3>1, <3>2 DEF CoveredOK, Explained
  <2>2. CASE RefundRefused(t)
    <3>1. txn[t].phase = "read" /\ UNCHANGED <<order, lostRefunds, reopened>>
      BY <2>2 DEF RefundRefused, ledgers
    <3>. QED
      BY <1>2, <1>4, <1>9, <3>1 DEF CoveredOK, Explained
  <2>3. CASE Crash(t)
    <3>1. order' = order
      BY <2>3 DEF Crash, RollsBack
    <3>2. lostRefunds'[o] = IF txn[t].phase = "refunded" THEN lostRefunds[o] + 1
                            ELSE lostRefunds[o]
      BY <1>2, <2>3 DEF Crash
    <3>. QED
      BY <1>2, <1>4, <1>9, <1>10, <3>1, <3>2 DEF CoveredOK, Explained
  <2>. QED
    BY <2>1, <2>2, <2>3
<1>12. \A p \in Orders \ {o} : CoveredOK(p)'
  BY <1>4, <1>7, <1>8 DEF MoneyInv, CoveredOK, Explained
<1>13. \A u \in Txns \ {t} : GateOK(u)' /\ RefundOK(u)'
  BY <1>2, <1>3, <1>4, <1>5, <1>7, RefundOthers
<1>14. GateOK(t)' /\ RefundOK(t)'
  BY <1>3 DEF GateOK, RefundOK, Refunding, Idle, NoRead
<1>15. KitchenOnlyAfterPayment'
  BY <1>4 DEF MoneyInv, KitchenOnlyAfterPayment
<1>. QED
  BY <1>11, <1>12, <1>13, <1>14, <1>15 DEF MoneyInv

-----------------------------------------------------------------------------
(* The invariant and what it gives *)

\* Steps of the customer's session or of the world, and stuttering.
LEMMA NoMoney ==
  ASSUME MoneyInv, StockInv',
         UNCHANGED <<order, lock, txn, cooked, paid, refunded, lostRefunds, reopened>>
  PROVE  MoneyInv'
  BY DEF MoneyInv, GateOK, RefundOK, CoveredOK, Explained, SentBack, Refunding,
     KitchenOnlyAfterPayment

LEMMA MoneyInit == Init => MoneyInv
<1>. SUFFICES ASSUME Init PROVE MoneyInv
  OBVIOUS
<1>1. StockInv
  BY StockInit
<1>2. \A t \in Txns : GateOK(t) /\ RefundOK(t)
  BY DEF Init, GateOK, RefundOK, Refunding, Idle, NoRead
<1>3. \A o \in Orders : CoveredOK(o)
  BY DEF Init, CoveredOK, Explained, NoRow
<1>4. KitchenOnlyAfterPayment
  BY DEF Init, KitchenOnlyAfterPayment
<1>. QED
  BY <1>1, <1>2, <1>3, <1>4 DEF MoneyInv

LEMMA MoneyNext == MoneyInv /\ [Next]_vars => MoneyInv'
<1>. SUFFICES ASSUME MoneyInv, [Next]_vars PROVE MoneyInv'
  OBVIOUS
<1>0. StockInv'
  BY StockNext DEF MoneyInv
<1>1. CASE Staff
  <2>1. PICK t \in Api, o \in Orders :
          \/ \E s \in Statuses : update_order_status(t, o, s)
          \/ set_delivery_fee(t, o)
          \/ \E p \in Corrections, manager \in BOOLEAN :
               update_payment_status(t, o, p, manager)
          \/ \E p \in {"REFUNDED", "PARTIALLY_REFUNDED"} :
               refund_order_payment(t, o, p)
          \/ mark_order_paid(t, o)
    BY <1>1 DEF Staff
  <2>2. CASE \E p \in {"REFUNDED", "PARTIALLY_REFUNDED"} :
               refund_order_payment(t, o, p)
    BY <1>0, <2>2, RefundBegins
  <2>3. CASE ~\E p \in {"REFUNDED", "PARTIALLY_REFUNDED"} :
               refund_order_payment(t, o, p)
    <3>1. t \in Txns /\ OrdinaryStep(t)
      BY <2>1, <2>3, ApiBeginsOrdinary DEF Txns
    <3>. QED
      BY <1>0, <3>1, OrdinaryKeepsMoney
  <2>. QED
    BY <2>2, <2>3
<1>2. CASE Worker
  BY <1>0, <1>2, WorkerBeginsOrdinary, OrdinaryKeepsMoney DEF Worker
<1>3. CASE Customer
  <2>1. CASE AskPaymentMethod \/ modify \/ Browse \/ StartOver
    <3>1. UNCHANGED <<order, lock, txn, cooked, paid, refunded, lostRefunds, reopened>>
      BY <2>1 DEF AskPaymentMethod, modify, Browse, StartOver, Chats, ledgers
    <3>. QED
      BY <1>0, <3>1, NoMoney
  <2>2. CASE \E t \in Bot :
               \/ \E mode \in {"PICKUP", "DELIVERY"} : place(t, mode)
               \/ \E p \in {"UNPAID", "PENDING", "CASH_ON_COLLECTION"} : finalise(t, p)
               \/ reject(t)
    <3>1. PICK t \in Bot : OrdinaryStep(t)
      BY <2>2, BotBeginsOrdinary
    <3>. QED
      BY <1>0, <3>1, OrdinaryKeepsMoney DEF Txns
  <2>. QED
    BY <1>3, <2>1, <2>2 DEF Customer
<1>4. CASE Environment
  <2>1. UNCHANGED <<order, lock, txn, cooked, paid, refunded, lostRefunds, reopened>>
    BY <1>4 DEF Environment, GrowsLate, CustomerPays, rows, ledgers
  <2>. QED
    BY <1>0, <2>1, NoMoney
<1>5. ASSUME NEW t \in Txns,
             \/ CommitStatus(t) \/ CreateLink(t) \/ FlushFee(t) \/ CommitFee(t)
             \/ CommitPayment(t) \/ CommitPaid(t) \/ AfterPaid(t)
             \/ CommitTimeout(t) \/ BotStep(t)
             \/ UniqueViolation(t) \/ DeadlockVictim(t)
             \/ Crash(t) /\ ~Refunding(t)
      PROVE  MoneyInv'
  <2>1. OrdinaryStep(t)
    BY <1>5, StatusOrdinary, AsideOrdinary, FeeOrdinary, PaidCommitsOrdinary,
       TimeoutOrdinary, BotCommitsOrdinary, RollbackOrdinary
  <2>. QED
    BY <1>0, <2>1, OrdinaryKeepsMoney
<1>6. ASSUME NEW t \in Txns,
             \/ MoneyGoesBack(t) \/ CommitRefund(t) \/ RefundRefused(t)
             \/ Crash(t) /\ Refunding(t)
      PROVE  MoneyInv'
  BY <1>0, <1>6, RefundSends, RefundEnds
<1>7. CASE UNCHANGED vars
  <2>1. UNCHANGED <<order, lock, txn, cooked, paid, refunded, lostRefunds, reopened>>
    BY <1>7 DEF vars
  <2>. QED
    BY <1>0, <2>1, NoMoney
<1>. QED
  BY <1>1, <1>2, <1>3, <1>4, <1>5, <1>6, <1>7 DEF Next, Step, ApiStep, Aborts

\* The inductive invariant: what snapshots still prove, what a refund in flight
\* holds, and the payments left to cover the orders that are PAID.
THEOREM MoneyInvariant == Spec => []MoneyInv
  BY MoneyInit, MoneyNext, PTL DEF Spec

\* The payment gate (update_order_status): the kitchen never starts an order
\* that must be paid online before some commit marked it PAID, however stale
\* the row the status request decided on.
THEOREM KitchenIsPaid == Spec => []KitchenOnlyAfterPayment
<1>1. MoneyInv => KitchenOnlyAfterPayment
  BY DEF MoneyInv
<1>. QED
  BY <1>1, MoneyInvariant, PTL

\* What the row lock of refund_order_payment is worth: for any number of
\* concurrent refunds, webhooks, corrections, timeouts and bot jobs, money goes
\* back once, and again only for a commit that marked the order PAID after a
\* refund (a new payment that staff record, a webhook of the old one delivered
\* again) or for a refund lost in a crash.
THEOREM RefundsAreExplained == Spec => []RefundsExplained
<1>1. MoneyInv => RefundsExplained
  BY DEF MoneyInv, CoveredOK, RefundsExplained
<1>. QED
  BY <1>1, MoneyInvariant, PTL

=============================================================================
