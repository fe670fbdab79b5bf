# NextGen backend: a TLA+ model

NextGen is a multi-tenant ordering platform: customers order over WhatsApp, staff
work the orders in a dashboard and at a till, online payments arrive by provider
webhooks, delivery platforms push their own orders, and an ARQ worker runs
timeouts, the outbox and billing. Everything is Python coroutines over one
PostgreSQL database at READ COMMITTED; what can go wrong sits between a
coroutine's SELECT and its COMMIT.

This directory holds TLA+ models of the parts where that matters, TLC
configurations for small instances, and proofs for all instances.

## How the code runs, and how every module says it

* An API request, a webhook, a cron run and a queued WhatsApp message are each one
  SQLAlchemy session and (mostly) one transaction (`db/session.py: get_db`).
* `SELECT` without `FOR UPDATE` takes no lock. What a handler decides on may be old
  when it writes. A handler is therefore two steps or more: one that reads and
  validates, one that writes and commits. Early returns are guards of the first.
* SQLAlchemy emits only the columns that differ from the loaded value, and there is
  no version column: a commit overwrites exactly those columns of whatever the row
  has become. The models keep that column granularity (`Saved`, `Flush`).
* `FOR UPDATE`, a flushed `UPDATE` and a flushed `INSERT` under a unique index hold
  others up until the transaction ends. A step that has to wait has a false guard.
* A dying process rolls its transaction back, and whatever was to follow the commit
  never happens. A call to the outside made before the commit has happened all the same.

## Inventory

| Part | State it keeps | Operations | Who else touches it | What is hard | What makes it correct |
|---|---|---|---|---|---|
| WhatsApp orders (`routes_orders.py`, `routes_payments.py`, `worker.py`, `bot/pipeline.py`) | `orders.status`, `payment_status`, the link, the sale's stock movements, the conversation session | status moves, delivery fee, payment correction, refund, webhook, two timeout crons, placement, replacement, acceptance or rejection of the fee | staff, managers, providers, crons, the customer, all on one row | unlocked reads everywhere but in the refund; writes by primary key; a session and an order locked in opposite orders | stock of an uncooked cancelled order is back; nothing is handed over uncooked or cooked unpaid; money goes back once; nothing waits for ever |
| Conversation (`bot/pipeline.py`, `state_machine.py`, `intent_router.py`) | state, context and cart of one customer | some forty branches, one per class of message and state | staff setting a fee write the same row | held-back options, open allocations, contexts left behind | the order is what the customer was shown; one open order; every question gets somewhere |
| Till and checkout (`routes_pos.py`, `pos/till.py`) | till session, order, payment allocations, pay-link intents | open, close, check out, refund, void; create, resend, cancel, pay, expire an intent | cashiers, webhooks, polls | double taps, a webhook racing an expiry or a cancellation, cash-up racing a refund | an intent pays once; allocations add up; cash-up counts every cash movement once |
| Stock ledger, stocktake, wastage (`inventory/`, `routes_stocktake.py`, `routes_wastage.py`) | append-only movements, counts, wastage entries | sell, reverse, receive, open, adjust, waste, review, count, complete, approve | tills, bot, imports | stale reads, backdating, retries, period boundaries | each event booked once; a reversal mirrors its original; the expected quantity is the book |
| Marketplace import (`external_orders/`) | imported orders | resolve, commit | stocktakes, live delivery orders | a resolve that is old when it commits | booked once, outside closed periods |
| Loyalty (`loyalty/`) | points balance, entries | award, redeem, reverse, adjust | orders, tills | award after commit, no key on awards, double taps | the balance is explained entry by entry, never negative; a reward is redeemed and returned once |
| Inbound messages (`routes_webhook.py`, `pipeline.process_inbound_message`) | message reservation, job queue | receive, enqueue, process | ARQ, the session's lock | redelivery, crash between reply and commit, swallowed exceptions | each message handled once; none answered 200 and forgotten |
| Outbox (`bot/outbox_worker.py`, `whatsapp_sender.py`) | outbox rows, the connection's health | send, retry, give up | jobs and batches at once | a commit hidden in a helper lets a batch's locks go | copies only by accident, nothing stuck |
| Delivery platforms (`delivery/`, `routes_delivery.py`) | event log, delivery orders, jobs | receive, fetch, accept, deny, cancel, confirm, watchdog | platforms, staff, the dashboard's order list, the daily report | duplicate and reordered events, a job that overtakes its commit, unanswered calls | one sale per order, consented to; nobody is left without an answer |
| Billing (`billing/`, `routes_billing.py`, admin `routes_businesses.py`) | the business's billing columns, invoices | Stripe events, trial, grace, suspension, invoices | admins, owners, two hourly jobs | events out of order, jobs on old reads | an issued invoice never changes; grace and trials end; a due date is noticed |
| WhatsApp connections (`whatsapp/`, `routes_whatsapp_connect.py`) | connection row, routing columns of the business | exchange in five steps, disconnect, health check, Meta's events | owners, Meta, senders | a commit after each call, no lock | only what Meta confirmed is claimed; the platform's token stays off a customer's number |
| Menu, recipes, set-up, import/export, staff, analytics, receipts, realtime, pricing, authentication, language model, admin CRUD | single rows, rendering, HTTP calls, arithmetic | | | | see the last section |

`PROJECT.json` lists the components with their status, and under `hazards` every place
found where the code is hard to test, with the properties that watch it.

## Plan, and where it stands

In order of what matters most for money, stock and customers:

1. **OrderLifecycle**: the WhatsApp order with every writer of it. Done, with proofs.
2. **PosCheckout** over the abstract **PayLinkIntent**. Done, with proofs.
3. **LoyaltyLedger** over the abstract **PointsAccount**. Done, with proofs.
4. **StockLedger** with stocktake, wastage and the marketplace import. Done, with proofs.
5. **Messaging** (webhook, jobs, outbox), **DeliveryIntake**, **Dialogue**,
   **WhatsAppConnect**, **Subscription**. Done, all but `Subscription`
   with proofs.
6. Left: `Subscription` by proof; the types of `PosCheckout` and `Dialogue`; a module of
   menu and recipe edits (two concurrent `upsert_recipe` calls, an import racing an edit).

## Modules

| Module | What it is |
|---|---|
| `OrderLifecycle`, `MCOrderLifecycle` | the WhatsApp order |
| `OrderLifecycleProofs` | type correctness, stock and kitchen; payment gate and refunds |
| `PayLinkIntent` | abstract: the state machine of one Pay-by-Link intent, and the poll that may expire it for good |
| `PosCheckout`, `MCPosCheckout` | the point of sale; `StateMachine == INSTANCE PayLinkIntent` |
| `PosCheckoutProofs` | links, replies, cash-up and refunds; the handlers implement `PayLinkIntent` |
| `PointsAccount` | abstract: a balance that moves by one credit or debit at a time |
| `LoyaltyLedger`, `MCLoyaltyLedger` | wallets, rewards, awards, corrections |
| `LoyaltyLedgerProofs` | all its invariants; the handlers implement `PointsAccount` |
| `StockLedger`, `MCStockLedger` | the movements and every handler that writes them |
| `StockLedgerProofs` | one booking per event, reversals, rejected wastage |
| `Messaging`, `MCMessaging` | from Meta's post to the customer's phone |
| `MessagingProofs` | types and all its safety invariants |
| `DeliveryIntake`, `MCDeliveryIntake` | from a platform's event to the kitchen |
| `DeliveryIntakeProofs` | types, all its safety invariants, finality |
| `Dialogue`, `MCDialogue` | the conversation that makes an order |
| `DialogueProofs` | one open order; orders are as shown |
| `Subscription` | billing of one business |
| `WhatsAppConnect`, `MCWhatsAppConnect` | connecting a business to its own number |
| `WhatsAppConnectProofs` | both its invariants |

Operators preceded by "Mutant:" are not part of the specification. Each is a plausible
bug in the definition that follows it, kept to show that a property would notice.

How they compose: `OrderLifecycle` carries the session's lock and state that the fee
dialogue needs, `Dialogue` carries the orders' status; both model `set_delivery_fee` and
`_finalize_pending_delivery_order`, once as writes of an order and once as turns of a
conversation. `StockLedger` has the movements behind the "stock" of `OrderLifecycle`,
`LoyaltyLedger` the wallet behind a till sale, `Messaging` the job that runs a turn of
`Dialogue`, `WhatsAppConnect` the connection `Messaging` sends through, and
`DeliveryIntake` and `StockLedger` share the daily report.

## State and code

An action named like a handler is that handler's first step: the read, the validation,
every early return as a guard. `Commit...` (or `...Commits`) is the write and the commit.
Variables marked "history" exist for the properties only.

### OrderLifecycle

| State | In the code |
|---|---|
| `order[o]` | the `orders` row: `status`, `payment_status`, and whether the sale's stock movements are posted (`SALE:` keys) or mirrored back (`REVERSAL:` keys) |
| `lock`, `sessLock` | row locks: `SELECT ... FOR UPDATE` (refund, conversation session) and a flushed `UPDATE` (delivery fee) |
| `txn[t]` | a request, webhook, cron run or message in flight: the rows (and the session) it read, the value it was asked to write, how far it is |
| `conv` | the customer's `conversation_sessions` row: state, `pending_order_id`, `superseded_order_id`, newest order |
| `linked`, `captured` | orders with a `payment_link_url`; those paid through it |
| `late` | orders past both timeouts |
| `cooked`, `paid`, `refunded`, `lostRefunds`, `reopened` | history |

`AfterPaid` and `CreateLink` are what handlers do after their commit, in a second
transaction. `AcceptedPay`, `CancelledRow`, `Replaced`, `FeeConv` show what SQLAlchemy
writes: a column is written when it differs from the value *read*, over the value that
*is*. `MirrorConflict` is the ledger's unique key: a second mirror of one sale aborts the
whole transaction, for a cron its whole batch. `DeadlockVictim` is PostgreSQL aborting one
of the two when the fee request (order, then session) meets the bot (session, then order).

### PosCheckout

| State | In the code |
|---|---|
| `session`, `open` | `till_sessions`, and the partial unique index that allows one OPEN row |
| `expected[s]` | `expected_cash_cents` less the opening float |
| `sale[o]` | the till's `orders` row with its `order_payment_allocations`, `refund_cash_cents`, the session `refunded_at` falls in, and `provider_refund_status` of the links |
| `intent`, `spentOn`, `stale` | `pos_payment_link_intents`: `status`, `order_id`, `expires_at` passed |
| `live`, `captured` | links the customer was sent; those paid |
| `txn[t]` | a request in flight and the lock it waits for next (`phase`) |
| `drawer`, `back`, `replies`, `failures` | history |

Here most handlers lock, so a handler is one step per lock it waits for and one for the
commit; who holds what is read off the phases (`HoldsTill`, `OrderFree`, `IntentFree`).
A handler that locks one row and commits at once (`mark_intent_paid`, cancel, resend,
the provider-refund confirmation) is one step. The poll of an intent and the generic
payment PATCH do not lock, and are a read and a write. `PayLinkIntent` says of the poll what
the code makes true of it: it looks only at a PENDING intent (`Look`, whose trace is `seen`)
and may then write EXPIRED over whatever the intent has become.

### StockLedger

| State | In the code |
|---|---|
| `ledger`, `posts` | `stock_movements`: kind, ingredient, quantity, `occurred_at`, the key's source, and the transaction (for `created_at`) |
| `recipe` | the dish's active recipe: what `resolve_order` reads |
| `entry[w]` | a wastage entry: recorded, `approved_at`, `rejected_at` |
| `receipts` | goods-receipt idempotency keys |
| `count[c]` | a `stocktake_sessions` row with its lines |
| `req[r]` | what a handler read before its commit |
| `now` | the clock; callers may backdate |

`Post` is one transaction of movements: all or none, refused when a key of `Keyed` is
taken. Stock is `Sum` over the ledger, as `stock_on_hand` computes it.

### LoyaltyLedger

| State | In the code |
|---|---|
| `opened`, `balance[c]` | the `customers` row and its `loyalty_points_balance` |
| `log[c]` | `loyalty_transactions`: delta, `balance_after`, idempotency key |
| `cost` | the reward's `points_cost`, which the owner edits |
| `pay[o]`, `owner[o]` | `orders.payment_status`, `customer_id` |
| `req[r]` | what a handler read: the balance seen, the price seen |

### Messaging

| State | In the code |
|---|---|
| `posts`, `accepted` | Meta's deliveries and those answered 200 (history) |
| `jobs` | ARQ's queue: a job per message and delivery, with its tries |
| `recorded` | committed inbound rows of `messages` (unique `wa_message_id`) |
| `today`, `told[s]` | the UTC date; the date of the closed notice its session remembers (`closed_msg_sent_date`) |
| `copied[s]` | the session's context as `set_delivery_fee` read it, before it writes it back |
| `outbox[m]` | the reply's `message_outbox` row: status, attempts |
| `conn[s]` | whose token sends: the platform's, or the shop's connection and its health |
| `at[w]` | what a worker has in hand: a job and how far it is, or a batch with the rows it loaded, those it changed (`dirty`) and whether its transaction still has its locks (`held`) |
| `acted`, `given`, `forgot`, `reached`, `excuse` | history |

Whether a shop is closed when a message is handled is any answer; what counts is what its
conversation remembers. `ReplyRejected` and `BatchRejected` are `mark_invalid_token`, which
commits the caller's transaction and with it lets go of every row lock the caller relied on.

### DeliveryIntake

| State | In the code |
|---|---|
| `platform[o]` | what the platform believes (external) |
| `logged`, `intake[r]` | committed `delivery_webhook_events`; the event an open request has inserted |
| `row[o]` | the status of the `delivery_orders` row |
| `sale[o]` | whether the `orders` row booked for it is there, and not CANCELLED |
| `dashboard` | orders whose sale an `update_order_status` in flight has read as live |
| `sales[o]`, `report[o]` | orders booked for it; how far the daily report is with it |
| `jobs`, `at[w]` | the queue as a bag; the transaction a worker has open, which holds the row's lock |
| `shop` | connection status, `auto_accept_enabled`, whether every item is mapped |
| `due`, `claimed` | orders past `accept_deadline_at`; the watchdog's denials it has yet to tell |
| `posts`, `answered`, `queued`, `everAuto`, `confirmed`, `overruled` | history and bounds |

### Dialogue

| State | In the code |
|---|---|
| `session` | `conversation_sessions`: state and the parts of `context_json` a branch tests (cart, order mode, details given, notes asked, pending option, proposal, allocation, `pending_order_id`, fee approval) |
| `orders` | the customer's orders, oldest first |
| `onRecord` | `customers.phone_number` |
| `known`, `told`, `focused` | history: whether the customer has been told the whole cart, what they were last asked, whether they have made up their mind |

`Handles` is `_handle_message`: its order of cases is the code's order of branches.
`Ordering` is `_handle_with_llm`; `ModelAnswers` is any action the model's reply can be
parsed into.

### Subscription

| State | In the code |
|---|---|
| `biz` | `billing_status`, `is_active`, suspension reason, `current_period_start`, `trial_ends_at` of the business |
| `charge[r]` | at Stripe: when an invoice was created, failed, was paid (external) |
| `rows` | `billing_invoices`, by reference |
| `inv[i]`, `lastNumber` | `commercial_invoices` and its number sequence |
| `req[q]`, `grace`, `sweep` | what a request, and each hourly job, has loaded |

### WhatsAppConnect

| State | In the code |
|---|---|
| `conn[b]` | `whatsapp_connections`: status, `phone_number_id`, `waba_id`, token |
| `route[b]`, `account[b]` | `businesses.whatsapp_phone_number_id`, `whatsapp_business_account_id` |
| `req[r]` | the rows a handler loaded, the number and account it was asked for, and the step of `run_exchange` it is at |
| `left` | history: businesses whose owner has disconnected |

The number and the account are columns of their own, verified together, and written,
compared and emptied each by itself, as in the code: an account may hold several numbers.

## What is checked

| Run | Instance | Distinct states | Shows |
|---|---|---|---|
| `OrderPayments` | 1 order, 2 API slots, 4 payment requests, 1 crash, status and payment handlers | 2 593 232 | `KitchenOnlyAfterPayment`, `RefundsExplained` |
| `OrderCash` | 2 orders, 1 API slot, 1 bot job, fee cron, cash business | 1 570 495 | `HandedOverOnlyIfCooked`, `CancelledStockReturned` |
| `OrderLiveness` | 1 order, every handler, fairness | 112 730 | `FeeQueueDrains`, `UnpaidResolved`, `LocksReleased` |
| `PosSales` | 2 sales, 1 link, 2 sessions, 2 slots, 1 key, 1 crash, all handlers but the PATCH | 214 482 | `CashUpExact`, `RefundWithinTotal`, `IntentsFollowStateMachine` |
| `PosRequests` | 2 sales, 2 links, 2 slots, 1 key, poll and PATCH in service, fairness | 139 325 | `RepliesAgree`, `SpentInOneSale`, `RequestsEnd` |
| `StockLedger` | 2 requests, 2 counts, 1 of everything else, 2 recipes, 2 baskets, 2 instants, 2 ledger transactions, 4 two-step handlers | 1 145 356 | `BookedOnce`, `ReturnsMirror`, `RejectionReturnsStock`, `ExpectedIsBook` |
| `LoyaltyLedger` | 2 requests, 2 wallets, a till sale and a remote order, prices 1 and 2, 4 entries | 1 204 614 | `BalanceExplained`, `RedeemedAndReturnedOnce`, `WalletsAreAccounts` |
| `Messaging` | 2 workers, 2 messages of one shop with its own connection, 2 posts, 2 tries, 2 attempts, 2 dates, 1 accident | 3 452 632 | `AcceptedIsQueued`, `HandledOnce`, `CopiesExplained`, `ToldOncePerDay`, `StuckOnlyByAccident` |
| `Delivery` | 1 order under 3 events, 2 requests, 2 workers, 2 tries, 2 edits, 1 accident, fairness | 715 950 | `AnsweredIsQueued`, `SoldOnce`, `KitchenConsents`, `AcceptedIsTold`, `FinalIsFinal`, `OffersAreSettled` |
| `Billing` | 2 requests, 1 charge, 1 invoice, 3 instants, fairness | 414 694 | `IssuedIsFrozen`, `GraceEnds`, `TrialEnds`, `OverdueIsNoticed` |
| `Dialogue` | a dish with a required option, a family of one variant, 1 unit in the cart, 2 orders, delivery on, fairness | 285 201 | `OneOpenOrder`, `OrderedAsShown`, `SeenThrough` |
| `Connect` | 2 businesses, 2 accounts, one of them with 2 numbers, a number and an account that both see, 1 platform number, 2 requests at a time, 3 requests of owners | 3 217 597 | `ConfirmedByMeta`, `PlatformOnlyAfterLeaving` |

`Outbox.cfg` (`OutboxDrains`, 1 post, 2 accidents) is kept beside them to be run by hand.
`CHECK_DEADLOCK FALSE` everywhere but in `Dialogue`: once ids and bounds are used up and
every request is answered, those systems rest.

`PosSales` leaves the PATCH out, because with it `CashUpExact` fails: a refunded order set
back to PAID drops out of the refunds. `PosRequests` has it in service.

### Bounds

* Order, sale and intent ids bound what is created; `IdLeft` keeps a checkout from being
  sent when no id is left for it. Two of a kind are enough for each of them: every
  property is about one row, or about one row and what displaced it.
* `MaxPaymentRequests` bounds PATCHes, webhooks and refunds *begun*. Four reach a payment,
  its refund, the webhook delivered again and the refund of what that marked PAID.
  `MaxSessions = 2` has a sale of one session refunded in the next; `MaxPatches = 1` is one
  correction.
* `MaxCrashes`, `MaxFaults`: one accident per behaviour (a second one repeats the first;
  the properties that forgive an accident count it).
* `StockLedger`: two ledger transactions make an original and its reversal, or a sale and
  the correction that counts it; four two-step handlers make two that overtake two others.
  By hand also 5 handlers (3 856 806 states) and 3 transactions (12 203 018 states).
* `Messaging`: two messages arrive together for one conversation; two tries and two
  attempts reach every limit. Two dates make one midnight.
* `DeliveryIntake`: `MaxEdits = 2` is a setting changed and an order confirmed or denied,
  or a report uploaded, or two status changes from the dashboard.
* `Dialogue`: by hand also with a name (392 359 states) or a telephone number (435 200)
  required.
* `WhatsAppConnect`: failures, revocations and Meta's events are not bounded. Three
  requests of owners connect a number, fail to connect another and disconnect, or race.
* The theorems below have no bounds.

Symmetry (slots, orders, counts, wallets, workers) is used in safety runs only, never
with fairness.

### Fairness

* Orders and till: each request's next step is strongly fair. A coroutine goes on when its
  lock is free, and PostgreSQL serves the waiters of a row in turn. The two crons and the
  passing of time are weakly fair (ARQ starts crons again and again, `WorkerSettings`).
  `UnpaidResolved` is about businesses that require online payment; an order whose fee was
  sent by a business that takes cash has no timeout, and nothing is claimed for it.
* Delivery: a transaction once open ends and deadlines pass (weak); the watchdog, which
  skips locked rows, gets its turn (strong). Nothing is assumed of the queue.
* Billing: the two hourly jobs and requests in progress (weak).
* Dialogue: a customer who has made up their mind answers, and staff set fees (weak);
  both before the session's sixty minutes are over.
* Nothing else is fair: no staff member, customer, provider or platform is obliged to act.

## What is proved

TLAPS checks these for any sets of orders, sales, wallets, messages, requests and so on,
from the modules' named assumptions alone (finite id sets where something is counted, null
values outside them, bounds that are natural numbers). TLC evaluates the assumptions in
every run. Every inductive invariant was run through TLC before it was proved.

**Orders.** `StockInvariant` (`StockInv`) is the inductive invariant. A commit is decided
on a row its transaction read, so invariants of the rows (`RowOK`) are not enough: the
invariant says what a snapshot still proves about the row as it is now (`SnapshotOK`: an
order not cooked yet was read before the kitchen, and one read as cancelled has its stock
back), which requests are under way (`RequestOK`), and that ids held elsewhere are rows
(`KnownOK`). `SnapshotStep` carries snapshots across any step; each action then has a
lemma. `TypeCorrect`, `CancelledStockIsReturned` and `OnlyCookedIsHandedOver` follow.

**Money.** `MoneyInvariant` adds `GateOK` (PAID in a snapshot means some commit wrote it,
and a request that starts the kitchen has read it), `RefundOK` (a refund under way holds
its row, which is still PAID) and `CoveredOK` (an order that is PAID and not being refunded
has a first payment, a commit that marked it PAID again after a refund, or a lost refund left
that no refund answers for). It gives `KitchenIsPaid` and `RefundsAreExplained`.

**Links.** `LinksInvariant` (`LinkInv`): a checkout about to commit holds PAID intents and
nobody else does (`Holds`, `Apart`); an intent that paid for a sale is CONSUMED, or was and
has been overwritten by the poll with EXPIRED, and never PAID again (`SpentOK`). It gives
`LinkSettlesOneSale` with every handler in service. Also with every handler,
`CheckoutImplementsStateMachine` maps every step to a step of `PayLinkIntent` or a stutter,
`seen` to the intents that polls in flight have read as PENDING: a checkout commits with at
most one listed intent, because two violate the unique index, and a sale not rung up yet is
no intent's `order_id`.

**Points.** `IInv` of `LoyaltyLedgerProofs` is types, known owners, "a reward's points are
spent where its key is", `BalanceExplained` and `RedeemedAndReturnedOnce` together. The
argument is one lemma, `StepWrites`: whatever a handler read, its commit writes one proper
entry to one wallet or nothing at all, and a proper entry keeps each part. `TypeCorrect`
(no balance below zero), `BalanceIsExplained`, `RewardsOnce` follow, and
`WalletsImplementAccounts` maps every step to one of `PointsAccount`.

**Till.** `RepliesNameTheSale` rests on `KeysOK` (a key has one sale, and a reply names
it) and holds with every handler in service. `MoneyInvariant` (`MoneyInv`) is about cash:
`DrawerOK` says that the drawer of the open session is at every moment what a cash-up
would count, `RowOK` and `ReversalOK` that a reversal under way holds its order, which is
still unreversed, and asks for no more than it took, `Alone` that one request has the till
and one an order. Sums are cardinalities of sets of units (`Units`, `LinkUnits`), so that
`UnitsMore` can say what a sale more adds to them without induction. `CashUpsAreExact` and
`RefundsStayWithinTheTotal` follow under `NoPatch`: the payment PATCH is out of service,
as in the run `PosSales`. It may declare a reversed sale PAID again, after which the sale
drops out of the refunds and can be refunded once more; both properties then fail.

**Stock.** `StockInv` is the three invariants with what a stale handler still relies on:
goods in the ledger have their receipt (`ReceiptsOK`), an entry recorded has its deduction
(`EntryOK`), the rows a reversal is about to write mirror rows that are there (`UndoOK`),
the entry a review read still has its deduction (`ReviewOK`). Two facts carry it: the ledger
only grows, and a transaction one of whose keys is taken leaves nothing.

**Messages.** `MessagingInvariant` (`IInv`) says what each worker may rely on. `WorkerStep`
is the core: a worker writes only rows it owns, locks and reserves only what nobody has,
and lets go of a SENDING row only by accident. `CopiesOK` counts, for each reply, the sends
that reached the customer, the batches overtaken by another after a rejected token, and the
one send still to come: together at most one more than the accidents. `MemoryOK` does the same
for closed notices: while the conversation remembers an earlier date, the notices given under
a date are no more than the times it lost its memory, and one more after that. `TypeCorrect` and the
module's five safety invariants follow.

**Deliveries.** `DeliveryInvariant` (`IInv`) has a part for the event log (`IntakeOK`: what is
logged has its order open and its job queued), the rows (`RowsOK`: what a status says of
sales, consent and the platform, and of the sale's own status unless the dashboard had the
last word), the transactions in hand (`HandsOK`: what a worker read
is still so, because it holds the row), locks, the queue as a bag (`JobsOK`: only a confirmed
order has a forced job) and the setting (`AutoOK`). The module's four safety invariants
and `FinalOrdersStay`, an action property, follow.

**Connections.** Nothing is locked, and each commit writes the columns that differ from the
values read, so a copy says little about the row. `ConnectionInvariant` (`IInv`) says three
things that column-by-column writes keep: every number and account, in the rows and in the
copies, was shown by Meta to this business (`Shown`); a copy has no number and no account
where the row has none, since a connection's column once filled stays filled (`Fills`); and
before a business's owner has disconnected, its routing a number of its own means that it
has an account on record, and so does a copy that has one. `NumbersAreConfirmed` and
`ThePlatformComesAfterLeaving` follow.

**Conversation.** `DialogueInvariant` (`IInv`) says that the orders are the first n, that
only the nth may be open and the session remembers no other, and that a state that asks
for a "yes" is only reached knowing the cart. Each branch of `Handles` has a lemma with the
same conclusion, `Outcome`: it lets the orders be, settles the remembered one, or makes the
next of a known cart. `OneOrderIsOpen` and `OrdersAreAsShown` (an action property) follow,
for any answer of the language model.

The proofs found one slip in the models: `After` (messages) and `StatusAfter` (till) were
`CASE`s whose guards overlapped, so that TLC took the first arm and the logic either one.
They are `IF`s now, in the order of the code's tests.

Only model-checked:

* every liveness property and `RequestsEnd` (fairness and ENABLED are beyond the prover);
* `ExpectedIsBook`: it is about sums over sets of movements, and what a fold computes needs
  induction over data. For the same reason the quantities of `StockLedger` have no type theorem;
* the types of `PosCheckout` and `Dialogue`, and `IssuedIsFrozen` of `Subscription`: within
  reach, not done.

## What the code does that its documents do not say

Kept as definitions in the modules, each with the behaviour that violates it:

* `CancelledIsFinal`, `PaidOnlyUndoneByManager` (orders): the payment cron cancels a
  FEE_SENT order and returns its stock, the customer's late "yes" makes it NEW; accepting an
  order writes PENDING over PAID; the same cron may cancel an order whose payment committed
  after its query, and mark it FAILED.
* Refunds (`RefundsExplained` allows it): `_mark_order_paid` is idempotent
  while the row is PAID, "if order.payment_status == "PAID": return"
  (`routes_payments.py:111`). After a refund it is not: a webhook delivered again marks the
  order PAID, and the one payment can be refunded a second time. The refunds that an order
  can then have are counted (`reopened`), not bounded.
* `AllocationsBacked`, `ValidCheckoutSells`, `PaidStaysUntilSpent` (till): one checkout may
  list an intent twice; two intents in one checkout violate the unique index on `order_id`
  and end in a server error; the poll writes EXPIRED over PAID.
* `ApprovedIsImmutable` (stocktake, `routes_stocktake.py:11`): a cancellation, a completion
  or counts begun earlier commit over an APPROVED count. Also seen: a wastage entry approved
  and rejected at once carries both; two concurrent openings leave two DRAFTs, after which
  opening fails with a server error; a report resolved before an approval commits lands in the
  closed period; a report uploaded twice at once ends in an uncaught IntegrityError.
* `OneWalletPerPhone` (loyalty): two lookups of an unknown number open two wallets. Points
  earned after a payment's commit carry no key: lost with the process, given twice when the
  payment is unset and set again.
* `OneCopy`, `NeverStranded` (outbox): the commit in `mark_invalid_token` lets go of the
  batch's locks, so two batches may send one row; a worker that dies right after it leaves
  the row SENDING for ever. The pipeline swallows its exceptions, so the queue's retries are
  for killed workers only.
* The closed notice, "ONCE per customer per day, then stay completely silent for the rest
  of the night" (`pipeline.py:279`), is keyed by the UTC date: at 02:00 in Johannesburg a
  conversation of the same closed night is told again
  (`ToldOncePerDay` is per date). `set_delivery_fee` writes the conversation's whole context
  from a copy it read without the lock, which can take the date back out and the notice is
  given twice under one date. The notice of a pause is decided on a stamp read before the
  lock, so two messages at once may both be told.
* Delivery orders and the dashboard (`overruled`): `update_order_status`
  (`routes_orders.py:541-629`) knows nothing of `delivery_orders`. It cancels the sale of an
  ACCEPTED delivery, and, having read the order before a platform's cancellation commits,
  writes its status over CANCELLED. Neither row is told of the other.
* `NoPhantomSale` (delivery): the call to accept fails after the sale was booked; the row
  stays FETCHING with a live sale and the watchdog denies it. An order imported from the
  report makes its own live job fail, and the watchdog denies an order that is in the books.
  Nothing makes a disabled connection CONNECTED again.
* `PaymentReactivates` (billing): a payment that follows a failed attempt under the same
  Stripe invoice id is taken for a duplicate, and the business is suspended although it
  paid. The hourly sweep may set a PAID or CANCELLED invoice back to OVERDUE, the grace job
  suspend a business that has just paid, the trial sweep one that has just converted.
* `ConnectedWorks`, `DisconnectFrees` (connections): a health check revives an attempt that
  never claimed its number; a disconnection after a failed second attempt leaves the old
  number claimed.
* `PlatformStaysOut` (connections, "the platform token is NEVER used for it again",
  `token_resolver.py:12`): a business is connected to a number of an account; an attempt at
  another number of that account fails after it was verified; the owner disconnects.
  `disconnect` finds another number in the routing column and leaves it
  (`connection_service.py:339`), finds the same account and empties it (`:347`), and the
  resolver takes the old number for one of the platform's. `PlatformOnlyAfterLeaving` is what
  is left of the promise: it takes the owner's disconnection.
* `FeeAccepted` (dialogue): an "ok" before staff set the fee finalises a PENDING order, and
  a CLOSED one too. Also seen: cancelling while the fee is awaited says "cancelled" and
  leaves the real order; "hi" with a dish keeps `pending_order_id`, and the old order is
  finalised with the new cart thrown away; with a stored telephone number that the context
  lacks, the answer to the notes is parsed as a number; `set_delivery_fee` does not extend
  the session, so that an approval after the hour is lost; a variant named while an
  allocation is open is added whatever the verb; a model that adds only names it cannot
  match leaves an empty cart whose "yes" raises and stays unanswered.

Seen in code that is not modelled: two concurrent `upsert_recipe` calls leave the lines of
both (double consumption); an ingredient import run twice at once duplicates rows and opening
balances; deleting a category while an item is added to it leaves the item without one.

## What is not modelled

* Orders typed in by hand (`create_order`), receipts and their resend, notifications.
* In `OrderLifecycle`, a cron's batch is written in one step: the order in which its
  `UPDATE`s lock several rows, and a deadlock between two such batches, are left out. The
  same holds of the prior orders a placement cancels. There each cancelled order's stock is
  one value (posted, mirrored); quantities are in `StockLedger`.
* In `PosCheckout`: prices, loyalty, stock, fulfilment status, receipts and usage counters
  of a till sale; amounts that do not add up are refused before any write. A link is worth
  one unit. The legacy single-payment orders `close_till` also counts are left out.
* In `StockLedger`: unit conversion, costs, suppliers, the variance report; column detection,
  adapters and the mapping of names in an upload, and the choice to import cancelled orders.
* In `LoyaltyLedger`: the programme's settings, promotion rules, catalogue beyond a price.
* In `Messaging`: statuses of sent messages; which of many silences applies.
* In `DeliveryIntake`: menu mapping as such (an order is mapped or not), connection set-up,
  the live order's progress after acceptance beyond its being CANCELLED or not.
* In `Dialogue`: prices, texts, the question of a dish's size, acceptance of a
  recommendation, several pending options at once, opt-out and opening hours (`Messaging`
  has the latter), and the superseded order (`OrderLifecycle` has it).
* In `Subscription`: PayFast's notification, the onboarder's cap on extensions, usage
  alerts, the derived account status. A set of billing rows, not a table.
* In `WhatsAppConnect`: the anti-replay state of an attempt, the test message, HTTP.
* Menu, recipes, specials, staff, assets, import and export, set-up, analytics, receipts,
  realtime events, pricing, authentication, payment providers, prompts and admin CRUD: rows
  read and written one at a time, rendering, arithmetic and HTTP adapters, as listed with
  reasons in `PROJECT.json`. The map of definitions to lines covers about a quarter of the
  implementation for that reason: the rest holds no protocol a model would say more about
  than the code.
