--------------------------- MODULE OrderLifecycle ---------------------------
(***************************************************************************)
(* The WhatsApp order: one row of table "orders" per order, the stock      *)
(* movements posted against it, and every handler that writes either.      *)
(*                                                                         *)
(* PostgreSQL runs these handlers at READ COMMITTED and none of them but   *)
(* the refund locks the order it reads, so a handler is two steps: a step  *)
(* that reads the row (and decides on what it read) and a step that writes *)
(* and commits.  SQLAlchemy emits only the columns whose value differs     *)
(* from the one loaded, so a commit overwrites exactly those columns of    *)
(* whatever the row has become in between.                                 *)
(*                                                                         *)
(*   routes_orders.py    staff and managers: status, fee, payment, refund  *)
(*   routes_payments.py  the payment provider's webhook                    *)
(*   worker.py           the delivery-fee and the payment timeout crons    *)
(*   bot/pipeline.py     the customer's conversation                       *)
(***************************************************************************)
EXTENDS Naturals, FiniteSets

CONSTANTS
  Orders,        \* order ids: the bound on how many orders the customer places
  Api,           \* slots for concurrent API requests (staff, managers, webhooks)
  Bot,           \* slots for concurrent jobs that process the customer's messages
  NoTxn,         \* "no transaction holds this lock"
  NoOrder,       \* "no order"
  Handlers,      \* the handlers in service
  OnlinePaymentRequired,  \* Business.online_payment_required
  InventoryEnabled,       \* Business.inventory_enabled
  Corrections,            \* the payment statuses staff record by PATCH
  MaxPaymentRequests,     \* bound: payment PATCHes, webhooks and refunds begun
  MaxCrashes              \* bound: handlers killed before they finish

HandlerNames ==
  {"update_order_status", "set_delivery_fee", "update_payment_status",
   "mark_order_paid", "refund_order_payment",
   "cancel_stale_delivery_fee_orders", "cancel_unpaid_orders",
   "place", "finalise", "reject", "chat"}
TimeoutCrons == {"cancel_stale_delivery_fee_orders", "cancel_unpaid_orders"}

\* The statuses PATCH .../payment accepts; only the refund writes the other two.
SettablePayments == {"UNPAID", "PENDING", "PAID", "FAILED", "CASH_ON_COLLECTION"}

\* The crons run in the ARQ worker, one slot each.
FeeCron == "feeCron"
PayCron == "payCron"
Txns == Api \cup Bot \cup {FeeCron, PayCron}

ASSUME ConstantsAssumption ==
  /\ IsFiniteSet(Orders)
  /\ NoOrder \notin Orders
  /\ NoTxn \notin Txns
  /\ Api \cap Bot = {}
  /\ FeeCron \notin Api \cup Bot /\ PayCron \notin Api \cup Bot
  /\ Handlers \subseteq HandlerNames
  /\ Corrections \subseteq SettablePayments
  /\ OnlinePaymentRequired \in BOOLEAN
  /\ InventoryEnabled \in BOOLEAN
  /\ MaxPaymentRequests \in Nat
  /\ MaxCrashes \in Nat

-----------------------------------------------------------------------------
(* The row *)

Statuses == {"PENDING_DELIVERY_FEE", "FEE_SENT", "NEW", "ACCEPTED",
             "IN_PROGRESS", "READY", "COLLECTED", "DELIVERED", "COMPLETED",
             "CANCELLED"}

\* Mutant: the till's shortcut ACCEPTED -> READY added to the table.
TransitionsWithShortcut ==
  {<<"PENDING_DELIVERY_FEE", "FEE_SENT">>, <<"FEE_SENT", "NEW">>,
   <<"NEW", "ACCEPTED">>, <<"ACCEPTED", "IN_PROGRESS">>, <<"ACCEPTED", "READY">>}

\* ORDER_STATUS_TRANSITIONS: the pairs <<current, requested>> it allows.
Transitions ==
  {<<"PENDING_DELIVERY_FEE", "FEE_SENT">>, <<"FEE_SENT", "NEW">>,
   <<"NEW", "ACCEPTED">>, <<"ACCEPTED", "IN_PROGRESS">>,
   <<"IN_PROGRESS", "READY">>, <<"READY", "COLLECTED">>,
   <<"READY", "DELIVERED">>, <<"READY", "COMPLETED">>}
  \cup {<<s, "CANCELLED">> : s \in {"PENDING_DELIVERY_FEE", "FEE_SENT", "NEW",
                                    "ACCEPTED", "IN_PROGRESS", "READY"}}

\* Mutant: FEE_SENT forgotten in the pre-preparation set.
PrePreparationWithoutFeeSent == {"PENDING_DELIVERY_FEE", "NEW", "ACCEPTED"}

PRE_PREPARATION_STATUSES == {"PENDING_DELIVERY_FEE", "FEE_SENT", "NEW", "ACCEPTED"}

\* What the bot's supersede query leaves alone.
CLOSED_FOR_SUPERSEDE == {"CANCELLED", "COLLECTED", "DELIVERED"}

\* What the payment-timeout query leaves alone (COMPLETED is not in it).
CLOSED_FOR_TIMEOUT == {"CANCELLED", "COLLECTED", "DELIVERED"}

Payments == SettablePayments \cup {"REFUNDED", "PARTIALLY_REFUNDED"}
Outstanding == {"UNPAID", "PENDING"}

\* The sale's movements: never posted, posted, posted and mirrored back.
Stocks == {"NONE", "CONSUMED", "REVERSED"}

Row == [status : Statuses, pay : Payments, stock : Stocks]
NoRow == [status |-> "ABSENT", pay |-> "ABSENT", stock |-> "NONE"]

-----------------------------------------------------------------------------
VARIABLES
  order,      \* order id -> its row, or NoRow
  lock,       \* order id -> the transaction holding the row FOR UPDATE
  txn,        \* slot -> the transaction it runs
  conv,       \* the customer's ConversationSession row
  sessLock,   \* the bot job that holds that row FOR UPDATE
  linked,     \* orders with a payment_link_url the customer can pay
  late,       \* orders older than both timeouts
  captured,   \* orders the customer has paid at the provider
  cooked,     \* history: orders that were ever IN_PROGRESS
  paid,       \* history: commits that marked the order PAID
  refunded,   \* history: refunds sent back or recorded
  lostRefunds,\* history: refunds the provider made whose commit was lost
  reopened,   \* history: commits that marked it PAID again after a refund
  requests,   \* payment requests begun, at most MaxPaymentRequests
  crashes     \* handlers killed, at most MaxCrashes

rows == <<order, lock, conv, sessLock, linked>>
ledgers == <<cooked, paid, refunded, lostRefunds, reopened>>
env == <<late, captured, requests, crashes>>
vars == <<order, lock, txn, conv, sessLock, linked, late, captured, cooked, paid,
          refunded, lostRefunds, reopened, requests, crashes>>

\* The session: where the conversation is, context_json's pending_order_id and
\* superseded_order_id, and the newest order of the customer.
ConvStates == {"SHOPPING", "WAITING_DELIVERY_FEE_APPROVAL", "COLLECTING_PAYMENT",
               "ORDER_PLACED"}
MaybeOrder == Orders \cup {NoOrder}
Conv == [at : ConvStates, pending : MaybeOrder, superseded : MaybeOrder,
         last : MaybeOrder]

\* A transaction: its handler, the value requested, who asked, the rows read
\* (and the session, where the handler reads it), and how far it has got.
Phases == {"read", "flushed", "untold", "refunded", "linking", "after"}
Snapshots == UNION {[S -> Row] : S \in SUBSET Orders}
Requested == Statuses \cup Payments \cup {"-", "PICKUP", "DELIVERY"}
Txn == [op : HandlerNames \cup {"idle"}, to : Requested,
        read : Snapshots, conv : Conv, phase : Phases]
NoConv == [at |-> "SHOPPING", pending |-> NoOrder, superseded |-> NoOrder,
           last |-> NoOrder]
NoRead == [o \in {} |-> NoRow]
Idle == [op |-> "idle", to |-> "-", read |-> NoRead, conv |-> NoConv,
         phase |-> "read"]

Init ==
  /\ order = [o \in Orders |-> NoRow]
  /\ lock = [o \in Orders |-> NoTxn]
  /\ txn = [t \in Txns |-> Idle]
  /\ conv = NoConv
  /\ sessLock = NoTxn
  /\ linked = {} /\ late = {} /\ captured = {} /\ cooked = {}
  /\ paid = [o \in Orders |-> 0]
  /\ refunded = [o \in Orders |-> 0]
  /\ lostRefunds = [o \in Orders |-> 0]
  /\ reopened = [o \in Orders |-> 0]
  /\ requests = 0 /\ crashes = 0

-----------------------------------------------------------------------------
(* Building blocks *)

Exists(o) == order[o].status # "ABSENT"

\* Slot t takes up handler op, having read the rows of S.
Begins(t, op, to, S) ==
  /\ op \in Handlers
  /\ txn[t] = Idle
  /\ txn' = [txn EXCEPT ![t] =
       [Idle EXCEPT !.op = op, !.to = to, !.read = [o \in S |-> order[o]]]]

Ends(t) == txn' = [txn EXCEPT ![t] = Idle]

\* A row written by t must not be locked by another transaction.
Writable(S, t) == \A o \in S : lock[o] \in {NoTxn, t}

\* t's locks go when it commits or rolls back.
Unlocked(t) == [o \in Orders |-> IF lock[o] = t THEN NoTxn ELSE lock[o]]
SessionUnlocked(t) == IF sessLock = t THEN NoTxn ELSE sessLock

\* reverse_consumption_on_cancel: a sale is mirrored back when the status the
\* handler READ is a pre-preparation one and no mirror exists yet.
AfterCancel(o, previous) ==
  IF InventoryEnabled /\ previous \in PRE_PREPARATION_STATUSES
                      /\ order[o].stock = "CONSUMED"
  THEN "REVERSED" ELSE order[o].stock

CancelledRow(o, previous) ==
  [status |-> "CANCELLED", pay |-> order[o].pay, stock |-> AfterCancel(o, previous)]

PaymentRequest == requests < MaxPaymentRequests /\ requests' = requests + 1

Count(f, o) == [f EXCEPT ![o] = @ + 1]

-----------------------------------------------------------------------------
(* Staff: POST /orders/{id}/status *)

\* Mutant: the payment gate dropped.
UpdateStatusUngated(t, o, requested) ==
  /\ <<order[o].status, requested>> \in Transitions
  /\ Begins(t, "update_order_status", requested, {o})
  /\ UNCHANGED <<rows, ledgers, env>>

update_order_status(t, o, requested) ==
  /\ <<order[o].status, requested>> \in Transitions
  /\ requested = "IN_PROGRESS" /\ OnlinePaymentRequired => order[o].pay = "PAID"
  /\ Begins(t, "update_order_status", requested, {o})
  /\ UNCHANGED <<rows, ledgers, env>>

\* ACCEPTED resets the payment of an order that must be paid online.
AcceptedPay(o, was) ==
  IF OnlinePaymentRequired /\ was.pay # "PENDING" THEN "PENDING" ELSE order[o].pay

MovedRow(o, was, requested) ==
  [status |-> requested,
   pay |-> IF requested = "ACCEPTED" THEN AcceptedPay(o, was) ELSE order[o].pay,
   stock |-> order[o].stock]

CommitStatus(t) ==
  /\ txn[t].op = "update_order_status" /\ txn[t].phase = "read"
  /\ \E o \in DOMAIN txn[t].read :
       LET was == txn[t].read[o]
           requested == txn[t].to
       IN /\ Writable({o}, t)
          /\ order' = [order EXCEPT ![o] =
               IF requested = "CANCELLED" THEN CancelledRow(o, was.status)
               ELSE MovedRow(o, was, requested)]
          /\ cooked' = IF requested = "IN_PROGRESS" THEN cooked \cup {o} ELSE cooked
          /\ IF requested = "ACCEPTED" /\ OnlinePaymentRequired
             THEN txn' = [txn EXCEPT ![t].phase = "linking"]
             ELSE Ends(t)
  /\ UNCHANGED <<lock, conv, sessLock, linked, paid, refunded, lostRefunds, reopened,
                 env>>

\* create_payment_link, in a second transaction; its failure is only logged.
CreateLink(t) ==
  /\ txn[t].phase = "linking"
  /\ linked' \in {linked, linked \cup DOMAIN txn[t].read}
  /\ Ends(t)
  /\ UNCHANGED <<order, lock, conv, sessLock, ledgers, env>>

-----------------------------------------------------------------------------
(* Staff: POST /orders/{id}/delivery-fee.  The UPDATE is flushed (and locks  *)
(* the row) before the WhatsApp message is sent and before the commit.       *)

set_delivery_fee(t, o) ==
  /\ order[o].status = "PENDING_DELIVERY_FEE"
  /\ Begins(t, "set_delivery_fee", "FEE_SENT", {o})
  /\ UNCHANGED <<rows, ledgers, env>>

\* An exception while the customer is told leaves the session out ("untold").
FlushFee(t) ==
  /\ txn[t].op = "set_delivery_fee" /\ txn[t].phase = "read"
  /\ Writable(DOMAIN txn[t].read, t)
  /\ lock' = [o \in Orders |-> IF o \in DOMAIN txn[t].read THEN t ELSE lock[o]]
  /\ \E told \in {"flushed", "untold"} :
       txn' = [txn EXCEPT ![t].phase = told, ![t].conv = conv]
  /\ UNCHANGED <<order, conv, sessLock, linked, ledgers, env>>

\* The session is written from the copy read before the commit: the whole
\* context_json, and the state when it differs from the one read.
FeeConv(t, o) ==
  [at |-> IF txn[t].conv.at # "WAITING_DELIVERY_FEE_APPROVAL"
          THEN "WAITING_DELIVERY_FEE_APPROVAL" ELSE conv.at,
   pending |-> o, superseded |-> txn[t].conv.superseded, last |-> conv.last]

\* Mutant: the exception is swallowed before the commit, the session left open.
CommitFeeIfTold(t) ==
  /\ txn[t].op = "set_delivery_fee" /\ txn[t].phase = "flushed"
  /\ \E o \in DOMAIN txn[t].read :
       order' = [order EXCEPT ![o].status = "FEE_SENT"] /\ conv' = FeeConv(t, o)
  /\ sessLock = NoTxn
  /\ lock' = Unlocked(t)
  /\ Ends(t)
  /\ UNCHANGED <<sessLock, linked, ledgers, env>>

CommitFee(t) ==
  /\ txn[t].op = "set_delivery_fee" /\ txn[t].phase \in {"flushed", "untold"}
  /\ \E o \in DOMAIN txn[t].read :
       /\ order' = [order EXCEPT ![o].status = "FEE_SENT"]
       /\ IF txn[t].phase = "untold" THEN conv' = conv
          ELSE sessLock = NoTxn /\ conv' = FeeConv(t, o)
  /\ lock' = Unlocked(t)
  /\ Ends(t)
  /\ UNCHANGED <<sessLock, linked, ledgers, env>>

-----------------------------------------------------------------------------
(* Staff: PATCH /orders/{id}/payment *)

\* A commit that writes PAID; whether money had gone back before is recorded.
MarksPaid(o) ==
  /\ paid' = Count(paid, o)
  /\ reopened' = IF refunded[o] > 0 THEN Count(reopened, o) ELSE reopened

update_payment_status(t, o, new, manager) ==
  /\ Exists(o)
  /\ new \in Corrections
  /\ order[o].pay = "PAID" /\ new # "PAID" => manager
  /\ Begins(t, "update_payment_status", new, {o})
  /\ PaymentRequest
  /\ UNCHANGED <<rows, ledgers, late, captured, crashes>>

\* Money taken for an order that owed it earns loyalty points afterwards.
CommitPayment(t) ==
  /\ txn[t].op = "update_payment_status" /\ txn[t].phase = "read"
  /\ \E o \in DOMAIN txn[t].read :
       LET was == txn[t].read[o]
           new == txn[t].to
       IN /\ Writable({o}, t)
          /\ order' = [order EXCEPT ![o].pay = IF new # was.pay THEN new ELSE @]
          /\ IF new = "PAID" /\ was.pay # "PAID" THEN MarksPaid(o)
             ELSE UNCHANGED <<paid, reopened>>
          /\ IF new = "PAID" /\ was.pay \in Outstanding
             THEN txn' = [txn EXCEPT ![t].phase = "after"]
             ELSE Ends(t)
  /\ UNCHANGED <<lock, conv, sessLock, linked, cooked, refunded, lostRefunds, env>>

-----------------------------------------------------------------------------
(* Payment provider: the webhooks that end in _mark_order_paid *)

mark_order_paid(t, o) ==
  /\ o \in captured
  /\ order[o].pay # "PAID"
  /\ Begins(t, "mark_order_paid", "PAID", {o})
  /\ PaymentRequest
  /\ UNCHANGED <<rows, ledgers, late, captured, crashes>>

CommitPaid(t) ==
  /\ txn[t].op = "mark_order_paid" /\ txn[t].phase = "read"
  /\ \E o \in DOMAIN txn[t].read :
       /\ Writable({o}, t)
       /\ order' = [order EXCEPT ![o].pay = "PAID"]
       /\ MarksPaid(o)
  /\ txn' = [txn EXCEPT ![t].phase = "after"]
  /\ UNCHANGED <<lock, conv, sessLock, linked, cooked, refunded, lostRefunds, env>>

\* What follows the commit of either payment handler and writes no order: the
\* loyalty award and, for an online payment, the confirmation and the receipt.
AfterPaid(t) ==
  /\ txn[t].phase = "after"
  /\ Ends(t)
  /\ UNCHANGED <<rows, ledgers, env>>

-----------------------------------------------------------------------------
(* Manager: POST /orders/{id}/refund, the one handler that reads FOR UPDATE. *)
(* "to" is the status a successful refund will record.                       *)

\* Mutant: the row is read without FOR UPDATE.
RefundUnlocked(t, o, outcome) ==
  /\ order[o].pay = "PAID"
  /\ outcome \in {"REFUNDED", "PARTIALLY_REFUNDED"}
  /\ Begins(t, "refund_order_payment", outcome, {o})
  /\ PaymentRequest
  /\ UNCHANGED <<rows, ledgers, late, captured, crashes>>

refund_order_payment(t, o, outcome) ==
  /\ Writable({o}, t)
  /\ order[o].pay = "PAID"
  /\ outcome \in {"REFUNDED", "PARTIALLY_REFUNDED"}
  /\ Begins(t, "refund_order_payment", outcome, {o})
  /\ lock' = [lock EXCEPT ![o] = t]
  /\ PaymentRequest
  /\ UNCHANGED <<order, conv, sessLock, linked, ledgers, late, captured, crashes>>

\* provider.refund_payment answered COMPLETED, or staff sent the money back
\* themselves (confirm_manual).  A provider refund is recorded in full.
MoneyGoesBack(t) ==
  /\ txn[t].op = "refund_order_payment" /\ txn[t].phase = "read"
  /\ \E o \in DOMAIN txn[t].read : refunded' = Count(refunded, o)
  /\ txn' = [txn EXCEPT ![t].phase = "refunded"]
  /\ UNCHANGED <<rows, cooked, paid, lostRefunds, reopened, env>>

CommitRefund(t) ==
  /\ txn[t].op = "refund_order_payment" /\ txn[t].phase = "refunded"
  /\ \E o \in DOMAIN txn[t].read : order' = [order EXCEPT ![o].pay = txn[t].to]
  /\ lock' = Unlocked(t)
  /\ Ends(t)
  /\ UNCHANGED <<conv, sessLock, linked, ledgers, env>>

\* The provider answered FAILED or MANUAL_REQUIRED: only an audit row is kept.
RefundRefused(t) ==
  /\ txn[t].op = "refund_order_payment" /\ txn[t].phase = "read"
  /\ lock' = Unlocked(t)
  /\ Ends(t)
  /\ UNCHANGED <<order, conv, sessLock, linked, ledgers, env>>

-----------------------------------------------------------------------------
(* Worker: the two timeout crons.  Each run is one transaction over every    *)
(* order its query returns.                                                  *)

\* Mutant: the query looks for the orders whose fee was sent.
StaleFeeSentOrders == {o \in late : order[o].status = "FEE_SENT"}

StaleFeeOrders == {o \in late : order[o].status = "PENDING_DELIVERY_FEE"}

cancel_stale_delivery_fee_orders ==
  /\ StaleFeeOrders # {}
  /\ Begins(FeeCron, "cancel_stale_delivery_fee_orders", "CANCELLED", StaleFeeOrders)
  /\ UNCHANGED <<rows, ledgers, env>>

\* Mutant: the query forgets the orders nobody has accepted yet.
PendingOrders ==
  {o \in late : /\ OnlinePaymentRequired
                /\ order[o].pay = "PENDING"
                /\ order[o].status \notin CLOSED_FOR_TIMEOUT}

UnpaidOrders ==
  {o \in late : /\ OnlinePaymentRequired
                /\ order[o].pay \in Outstanding
                /\ order[o].status \notin CLOSED_FOR_TIMEOUT}

cancel_unpaid_orders ==
  /\ UnpaidOrders # {}
  /\ Begins(PayCron, "cancel_unpaid_orders", "CANCELLED", UnpaidOrders)
  /\ UNCHANGED <<rows, ledgers, env>>

CommitTimeout(t) ==
  /\ txn[t].op \in TimeoutCrons
  /\ Writable(DOMAIN txn[t].read, t)
  /\ order' = [o \in Orders |->
       IF o \notin DOMAIN txn[t].read THEN order[o]
       ELSE LET cancelled == CancelledRow(o, txn[t].read[o].status)
            IN IF txn[t].op = "cancel_unpaid_orders"
               THEN [cancelled EXCEPT !.pay = "FAILED"] ELSE cancelled]
  /\ Ends(t)
  /\ UNCHANGED <<lock, conv, sessLock, linked, ledgers, env>>

-----------------------------------------------------------------------------
(* Bot: the customer's messages.  A job locks the session row first and      *)
(* keeps it until its commit, so jobs of one customer run one at a time.     *)

BotBegins(t, op, to, S) ==
  /\ sessLock = NoTxn
  /\ Begins(t, op, to, S)
  /\ sessLock' = t
  /\ UNCHANGED <<order, lock, conv, linked, ledgers, env>>

BotCommits(t, newConv) ==
  /\ conv' = newConv
  /\ sessLock' = NoTxn
  /\ Ends(t)
  /\ UNCHANGED <<lock, linked, late, captured, requests, crashes, paid, refunded,
                 lostRefunds, reopened, cooked>>

\* clear_cart: the order-specific context goes, the customer's orders stay.
Cleared(at) ==
  [at |-> at, pending |-> NoOrder, superseded |-> NoOrder, last |-> conv.last]

\* The customer confirms a cart.  The orders it replaces: the one noted by
\* ORDER_PLACED_GUARD and every order that has not reached the kitchen.
Superseding ==
  {o \in Orders : /\ o = conv.superseded
                  /\ Exists(o) /\ order[o].status \notin CLOSED_FOR_SUPERSEDE}
PriorLive == {o \in Orders : order[o].status \in PRE_PREPARATION_STATUSES}

place(t, mode) ==
  /\ conv.at = "SHOPPING"
  /\ mode \in {"PICKUP", "DELIVERY"}
  /\ \E o \in Orders : ~Exists(o)
  /\ BotBegins(t, "place", mode, Superseding \cup PriorLive)

\* Mutant: a replaced order is cancelled without its stock.
ReplacedKeepingStock(o, was) == [order[o] EXCEPT !.status = "CANCELLED"]

\* The superseded order is updated under a guard the database re-evaluates;
\* its stock is mirrored back on the status read before, in either case.
Replaced(o, was) ==
  IF o = conv.superseded /\ order[o].status \in CLOSED_FOR_SUPERSEDE
  THEN [order[o] EXCEPT !.stock = AfterCancel(o, was.status)]
  ELSE CancelledRow(o, was.status)

Placed(mode) ==
  [status |-> IF mode = "DELIVERY" THEN "PENDING_DELIVERY_FEE" ELSE "NEW",
   pay |-> IF OnlinePaymentRequired THEN "UNPAID" ELSE "PENDING",
   stock |-> IF InventoryEnabled THEN "CONSUMED" ELSE "NONE"]

PlacedConv(mode, new) ==
  [at |-> IF mode = "DELIVERY" THEN "WAITING_DELIVERY_FEE_APPROVAL" ELSE "ORDER_PLACED",
   pending |-> IF mode = "DELIVERY" THEN new ELSE NoOrder,
   superseded |-> NoOrder, last |-> new]

CommitPlace(t) ==
  /\ txn[t].op = "place"
  /\ Writable(DOMAIN txn[t].read, t)
  /\ \E new \in Orders :
       /\ ~Exists(new)
       /\ order' = [o \in Orders |->
            CASE o = new -> Placed(txn[t].to)
              [] o \in DOMAIN txn[t].read -> Replaced(o, txn[t].read[o])
              [] OTHER -> order[o]]
       /\ BotCommits(t, PlacedConv(txn[t].to, new))

\* "yes" to the fee (or to anything while an order is pending in the context),
\* or the payment method: the pending order becomes NEW, whatever it was.
finalise(t, pay) ==
  /\ conv.pending # NoOrder
  /\ IF OnlinePaymentRequired
     THEN /\ conv.at \in {"WAITING_DELIVERY_FEE_APPROVAL", "SHOPPING"}
          /\ pay = "UNPAID"
     ELSE /\ conv.at \in {"COLLECTING_PAYMENT", "SHOPPING"}
          /\ pay \in {"PENDING", "CASH_ON_COLLECTION"}
  /\ BotBegins(t, "finalise", pay, {})

CommitFinalise(t) ==
  /\ txn[t].op = "finalise"
  /\ Writable({conv.pending}, t)
  /\ order' = [order EXCEPT ![conv.pending] =
       [status |-> "NEW", pay |-> txn[t].to, stock |-> order[conv.pending].stock]]
  /\ BotCommits(t, Cleared("ORDER_PLACED"))

\* "no" to the fee: the status is read, then the order cancelled unconditionally.
reject(t) ==
  /\ conv.at = "WAITING_DELIVERY_FEE_APPROVAL"
  /\ conv.pending # NoOrder
  /\ BotBegins(t, "reject", "CANCELLED", {conv.pending})

CommitReject(t) ==
  /\ txn[t].op = "reject"
  /\ \E o \in DOMAIN txn[t].read :
       /\ Writable({o}, t)
       /\ order' = [order EXCEPT ![o] = CancelledRow(o, txn[t].read[o].status)]
  /\ BotCommits(t, Cleared("SHOPPING"))

\* Messages that write only the session.
Chats(newConv) ==
  /\ "chat" \in Handlers
  /\ sessLock = NoTxn
  /\ conv' = newConv
  /\ UNCHANGED <<order, lock, txn, sessLock, linked, ledgers, env>>

\* "yes" to the fee, payment method still to be asked.
AskPaymentMethod ==
  /\ ~OnlinePaymentRequired
  /\ conv.at = "WAITING_DELIVERY_FEE_APPROVAL"
  /\ Chats([conv EXCEPT !.at = "COLLECTING_PAYMENT"])

\* ORDER_PLACED_GUARD: adding to a placed order that is still modifiable notes
\* it for replacement; one that is being prepared blocks the message.
modify ==
  /\ conv.at = "ORDER_PLACED" /\ conv.last # NoOrder
  /\ order[conv.last].status \notin {"IN_PROGRESS", "READY"}
  /\ Chats([conv EXCEPT !.at = "SHOPPING",
              !.superseded = IF order[conv.last].status \in PRE_PREPARATION_STATUSES
                             THEN conv.last ELSE @])

\* A greeting, the menu, a product: the state moves, the context stays.
Browse == conv.at # "SHOPPING" /\ Chats([conv EXCEPT !.at = "SHOPPING"])

\* "cancel", or the session timed out: the context goes too.
StartOver == conv # Cleared("SHOPPING") /\ Chats(Cleared("SHOPPING"))

-----------------------------------------------------------------------------
(* Failures and the environment *)

\* The unique index on (business_id, idempotency_key): a mirror movement posted
\* since this transaction looked makes its own a violation, and the whole
\* transaction, every order of a cron's batch included, rolls back.
Previous(t, o) == txn[t].read[o].status
MirrorConflict(t) ==
  /\ txn[t].to = "CANCELLED" \/ txn[t].op = "place"
  /\ \E o \in DOMAIN txn[t].read :
       /\ InventoryEnabled
       /\ Previous(t, o) \in PRE_PREPARATION_STATUSES
       /\ txn[t].read[o].stock = "CONSUMED"
       /\ order[o].stock = "REVERSED"

RollsBack(t) ==
  /\ lock' = Unlocked(t)
  /\ sessLock' = SessionUnlocked(t)
  /\ Ends(t)
  /\ UNCHANGED <<order, conv, linked, late, captured, cooked, paid, refunded,
                 reopened, requests>>

UniqueViolation(t) ==
  /\ MirrorConflict(t)
  /\ RollsBack(t)
  /\ UNCHANGED <<lostRefunds, crashes>>

\* set_delivery_fee holds the order and waits for the session; a bot job holds
\* the session and waits for the order.  PostgreSQL aborts either.
DeadlockVictim(t) ==
  /\ \E fee \in Api, job \in Bot :
       /\ t \in {fee, job}
       /\ txn[fee].op = "set_delivery_fee" /\ txn[fee].phase = "flushed"
       /\ sessLock = job
       /\ ~Writable(IF txn[job].op = "finalise" THEN {conv.pending}
                    ELSE DOMAIN txn[job].read, job)
  /\ RollsBack(t)
  /\ UNCHANGED <<lostRefunds, crashes>>

\* The process dies: the transaction rolls back, and what follows a commit
\* (the loyalty award, the confirmation) never happens.
Crash(t) ==
  /\ crashes < MaxCrashes
  /\ txn[t] # Idle
  /\ crashes' = crashes + 1
  /\ lostRefunds' = [o \in Orders |->
       IF txn[t].phase = "refunded" /\ o \in DOMAIN txn[t].read
       THEN lostRefunds[o] + 1 ELSE lostRefunds[o]]
  /\ RollsBack(t)

\* Both timeouts have passed since the order was created.
GrowsLate(o) ==
  /\ Handlers \cap TimeoutCrons # {}
  /\ Exists(o) /\ o \notin late
  /\ late' = late \cup {o}
  /\ UNCHANGED <<rows, txn, ledgers, captured, requests, crashes>>

\* The customer pays through the link; the link does not know the order's status.
CustomerPays(o) ==
  /\ o \in linked \ captured
  /\ captured' = captured \cup {o}
  /\ UNCHANGED <<rows, txn, ledgers, late, requests, crashes>>

-----------------------------------------------------------------------------
Staff == \E t \in Api, o \in Orders :
  \/ \E s \in Statuses : update_order_status(t, o, s)
  \/ set_delivery_fee(t, o)
  \/ \E p \in Corrections, manager \in BOOLEAN :
       update_payment_status(t, o, p, manager)
  \/ \E p \in {"REFUNDED", "PARTIALLY_REFUNDED"} : refund_order_payment(t, o, p)
  \/ mark_order_paid(t, o)

\* What a request already begun does next.
ApiStep(t) ==
  \/ CommitStatus(t) \/ CreateLink(t) \/ FlushFee(t) \/ CommitFee(t)
  \/ CommitPayment(t) \/ CommitPaid(t) \/ AfterPaid(t)
  \/ MoneyGoesBack(t) \/ CommitRefund(t) \/ RefundRefused(t)

Worker == cancel_stale_delivery_fee_orders \/ cancel_unpaid_orders

Customer ==
  \/ \E t \in Bot : \/ \E mode \in {"PICKUP", "DELIVERY"} : place(t, mode)
                    \/ \E p \in {"UNPAID", "PENDING", "CASH_ON_COLLECTION"} :
                         finalise(t, p)
                    \/ reject(t)
  \/ AskPaymentMethod \/ modify \/ Browse \/ StartOver

BotStep(t) == CommitPlace(t) \/ CommitFinalise(t) \/ CommitReject(t)

Step(t) == ApiStep(t) \/ CommitTimeout(t) \/ BotStep(t)
Aborts(t) == UniqueViolation(t) \/ DeadlockVictim(t)

Environment == \E o \in Orders : GrowsLate(o) \/ CustomerPays(o)

Next ==
  \/ Staff \/ Worker \/ Customer \/ Environment
  \/ \E t \in Txns : Step(t) \/ Aborts(t) \/ Crash(t)

Spec == Init /\ [][Next]_vars

\* A handler that began goes on, and is not overtaken for ever by others: the
\* database serves the waiters of a row lock in turn.  An ARQ cron runs again
\* and again, and time passes.  Nothing obliges staff, customers or providers.
Fairness ==
  /\ \A t \in Txns : WF_vars(Step(t) \/ Aborts(t)) /\ SF_vars(Step(t))
  /\ WF_vars(cancel_stale_delivery_fee_orders)
  /\ WF_vars(cancel_unpaid_orders)
  /\ \A o \in Orders : WF_vars(GrowsLate(o))

FairSpec == Spec /\ Fairness

-----------------------------------------------------------------------------
(* Properties *)

TypeOK ==
  /\ order \in [Orders -> Row \cup {NoRow}]
  /\ lock \in [Orders -> Txns \cup {NoTxn}]
  /\ txn \in [Txns -> Txn]
  /\ conv \in Conv
  /\ sessLock \in Txns \cup {NoTxn}
  /\ linked \subseteq Orders /\ late \subseteq Orders
  /\ captured \subseteq Orders /\ cooked \subseteq Orders
  /\ paid \in [Orders -> Nat] /\ refunded \in [Orders -> Nat]
  /\ lostRefunds \in [Orders -> Nat] /\ reopened \in [Orders -> Nat]
  /\ requests \in Nat /\ crashes \in Nat

\* An order that was never cooked and is cancelled does not keep its stock
\* deducted, whichever of the six cancelling handlers did it and whatever they
\* raced with (cancellation.py: reverse_consumption_on_cancel).
CancelledStockReturned ==
  \A o \in Orders : order[o].status = "CANCELLED" /\ o \notin cooked
                     => order[o].stock # "CONSUMED"

\* No order is ready or handed over that never went through the kitchen, even
\* though every status commit is decided on a stale read (routes_orders.py).
HandedOverOnlyIfCooked ==
  \A o \in Orders :
    order[o].status \in {"READY", "COLLECTED", "DELIVERED", "COMPLETED"} => o \in cooked

\* The payment gate of update_order_status: the kitchen starts an order that
\* must be paid online only after some commit marked it PAID.
KitchenOnlyAfterPayment ==
  OnlinePaymentRequired => \A o \in cooked : paid[o] > 0

\* What a refund may answer for: the payment, commits that marked the order PAID
\* again after a refund, and refunds nobody recorded.
Explained(o) == (IF paid[o] > 0 THEN 1 ELSE 0) + reopened[o] + lostRefunds[o]

\* The money of an order goes back once, however refunds race with each other,
\* with webhooks and with payment corrections.  It goes back once more only for
\* a refund whose commit was lost in a crash (refund_order_payment calls the
\* provider before it commits), or for a commit that marked the order PAID after
\* a refund: staff who record a new payment, or _mark_order_paid, which skips a
\* webhook only while the row is PAID and so takes the payment of a webhook
\* that is delivered again, or that read the row before the refund, for a new
\* one.
RefundsExplained == \A o \in Orders : refunded[o] <= Explained(o)

\* The delivery-fee cron: no order waits for its fee forever.
FeeQueueDrains ==
  \A o \in Orders : order[o].status = "PENDING_DELIVERY_FEE"
                     ~> order[o].status # "PENDING_DELIVERY_FEE"

\* The payment cron: no live order waits for an online payment forever.
UnpaidResolved ==
  \A o \in Orders :
    (OnlinePaymentRequired /\ Exists(o) /\ order[o].pay \in Outstanding)
    ~> (order[o].pay \notin Outstanding \/ order[o].status \in CLOSED_FOR_TIMEOUT)

\* A transaction, once begun, ends: no lock is held for ever, although the fee
\* request and the bot take the order and the session in opposite orders.
LocksReleased == \A o \in Orders : (lock[o] # NoTxn) ~> (lock[o] = NoTxn)

-----------------------------------------------------------------------------
(* What the repository says of these handlers and the races refute           *)

\* enums.py: CANCELLED has no next status, so a cancelled order is never NEW
\* again with its stock already back on the shelf.
CancelledIsFinal ==
  [][\A o \in Orders : order[o].status = "CANCELLED"
                       => order'[o].status = "CANCELLED"]_vars

\* update_payment_status: moving a PAID order back to a non-PAID status takes a
\* manager's correction or a refund.  Accepting the order does it silently.
PaidOnlyUndoneByManager ==
  [][\A o \in Orders :
       order[o].pay = "PAID" /\ order'[o].pay # "PAID" =>
         \E t \in Api : /\ txn'[t] = Idle
                       /\ o \in DOMAIN txn[t].read
                       /\ txn[t].op \in {"refund_order_payment",
                                        "update_payment_status"}]_vars

=============================================================================
