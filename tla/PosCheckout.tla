----------------------------- MODULE PosCheckout -----------------------------
(***************************************************************************)
(* The point of sale: till sessions, checkouts settled by cash, card and   *)
(* Pay-by-Link, refunds, voids, and the cash-up that closes a session.     *)
(*                                                                         *)
(* These handlers lock what they decide on: the open till_sessions row     *)
(* (_get_open_till, _require_open_till_for_cash_reversal, close_till), the *)
(* order a reversal reads, and the intents a checkout spends.  A handler   *)
(* is one step per lock it waits for and one for its commit; one that      *)
(* locks a single row and commits is a single step.  Two handlers do not   *)
(* lock: the poll of an intent and the generic payment PATCH.              *)
(*                                                                         *)
(* Amounts are units of money; a link is worth one unit.  Request shapes   *)
(* whose amounts do not add up are refused before anything is written and  *)
(* are not modelled, nor are prices, loyalty, stock and receipts.          *)
(***************************************************************************)
EXTENDS Integers, FiniteSets

CONSTANTS
  Api,          \* slots for concurrent API requests
  Sales,        \* order ids: the bound on how many sales are rung up
  Intents,      \* Pay-by-Link request ids, each created at most once
  Keys,         \* idempotency keys
  NoKey,        \* a checkout sent without one
  NoSale,       \* "no order"
  Payments,     \* what a checkout may list: [cash, card, links]
  Handlers,     \* the handlers in service
  MaxSessions,  \* bound: till sessions opened
  MaxPatches,   \* bound: payment PATCHes begun
  MaxCrashes    \* bound: handlers killed before they finish

HandlerNames ==
  {"create_pos_order", "open_till", "close_till", "refund_pos_order",
   "void_pos_order", "confirm_pos_order_provider_refund", "refund_order_payment",
   "create_pos_payment_intent", "get_pos_payment_intent",
   "resend_pos_payment_intent", "cancel_pos_payment_intent", "mark_intent_paid",
   "update_payment_status"}

\* One checkout may list the same intent more than once.
PaymentShape == [cash : Nat, card : Nat, links : [Intents -> 0..2]]

ASSUME PosAssumption ==
  /\ IsFiniteSet(Intents) /\ IsFiniteSet(Sales)
  /\ NoKey \notin Keys
  /\ NoSale \notin Sales
  /\ Payments \subseteq PaymentShape
  /\ Handlers \subseteq HandlerNames
  /\ MaxSessions \in Nat /\ MaxPatches \in Nat /\ MaxCrashes \in Nat

VARIABLES
  session,    \* till sessions opened so far; the newest may be open
  open,       \* whether it is
  expected,   \* session -> expected_cash_cents less the float, once closed
  drawer,     \* history: session -> cash that went in less cash that came out
  sale,       \* order id -> its row with its allocations, or Unsold
  intent,     \* intent id -> status
  spentOn,    \* intent id -> order_id
  stale,      \* intents past expires_at
  live,       \* intents whose link the customer has been sent
  captured,   \* intents the customer has paid at the provider
  txn,        \* slot -> the request it runs
  replies,    \* history: <<key, order>> pairs checkouts were answered with
  failures,   \* history: payments of checkouts that ended in a server error
  back,       \* history: order id -> money given back
  patches,    \* payment PATCHes begun, at most MaxPatches
  crashes     \* handlers killed, at most MaxCrashes

till == <<session, open, expected, drawer>>
links == <<intent, spentOn, stale, live, captured>>
answers == <<replies, failures>>
bounds == <<patches, crashes>>
vars == <<session, open, expected, drawer, sale, intent, spentOn, stale, live,
          captured, txn, replies, failures, back, patches, crashes>>

Sessions == 1..MaxSessions
PayStatuses == {"UNPAID", "PAID", "REFUNDED", "PARTIALLY_REFUNDED", "VOIDED"}
Reversed == {"REFUNDED", "PARTIALLY_REFUNDED", "VOIDED"}
Flags == {"-", "PENDING_MANUAL", "CONFIRMED"}
IntentStatuses == {"ABSENT", "PENDING", "PAID", "FAILED", "EXPIRED", "CANCELLED",
                   "CONSUMED"}

\* An order row and its allocations: cash and card paid, how many allocations
\* each intent backs, the session it was rung up in, refund_cash_cents, the
\* session refunded_at falls in, and the links' provider_refund_status.
Sale == [key : Keys \cup {NoKey}, cash : Nat, card : Nat, links : [Intents -> 0..2],
         till : Sessions, pay : PayStatuses, refundCash : Nat,
         refundedIn : 0..MaxSessions, flag : Flags]
NoLinks == [i \in Intents |-> 0]
Nothing == [cash |-> 0, card |-> 0, links |-> NoLinks]
Unsold == [key |-> NoKey, cash |-> 0, card |-> 0, links |-> NoLinks, till |-> 0,
           pay |-> "ABSENT", refundCash |-> 0, refundedIn |-> 0, flag |-> "-"]

\* A request: what it asks for, and the step it waits to take.
Phases == {"till", "links", "commit", "sending", "polled", "read"}
Idle == [op |-> "idle", phase |-> "commit", key |-> NoKey, pays |-> Nothing,
         sale |-> NoSale, amount |-> 0, cash |-> 0, to |-> "-", link |-> {}]

Init ==
  /\ session = 0 /\ open = FALSE
  /\ expected = [s \in Sessions |-> 0]
  /\ drawer = [s \in Sessions |-> 0]
  /\ sale = [o \in Sales |-> Unsold]
  /\ intent = [i \in Intents |-> "ABSENT"]
  /\ spentOn = [i \in Intents |-> NoSale]
  /\ stale = {} /\ live = {} /\ captured = {}
  /\ txn = [t \in Api |-> Idle]
  /\ replies = {} /\ failures = {}
  /\ back = [o \in Sales |-> 0]
  /\ patches = 0 /\ crashes = 0

-----------------------------------------------------------------------------
(* Building blocks *)

Begins(t, op, request) ==
  /\ op \in Handlers
  /\ txn[t] = Idle
  /\ txn' = [txn EXCEPT ![t] = [request EXCEPT !.op = op]]

Ends(t) == txn' = [txn EXCEPT ![t] = Idle]

\* Who holds a row FOR UPDATE: the till from TakeTill to the commit, the order
\* from the start of a reversal, the intents from LockLinks.
TillOps == {"create_pos_order", "close_till"}
HasCash(o) == sale[o].cash > 0
HoldsTill(t) ==
  \/ txn[t].op \in TillOps /\ txn[t].phase \in {"links", "commit"}
  \/ /\ txn[t].op \in {"refund_pos_order", "void_pos_order"}
     /\ txn[t].phase = "commit" /\ HasCash(txn[t].sale)
TillFree == \A t \in Api : ~HoldsTill(t)

OrderFree(o) ==
  \A t \in Api : txn[t].op \in {"refund_pos_order", "void_pos_order"} => txn[t].sale # o

Listed(pays) == {i \in Intents : pays.links[i] > 0}
IntentFree(i) ==
  \A t \in Api : txn[t].op = "create_pos_order" /\ txn[t].phase = "commit"
                  => i \notin Listed(txn[t].pays)

Sold(o) == sale[o] # Unsold

\* Money is counted a unit at a time: a sum is how many units there are.
LinkUnits(times) == Cardinality({u \in Intents \X (1..2) : u[2] <= times[u[1]]})
Total(o) == sale[o].cash + sale[o].card + LinkUnits(sale[o].links)

Answered(key, o) == replies' = replies \cup {<<key, o>>}
WithKey(key) == {o \in Sales : Sold(o) /\ key # NoKey /\ sale[o].key = key}

-----------------------------------------------------------------------------
(* Checkout: POST /pos/orders *)

\* Bound: a checkout is sent only while an order id is left for it.
IdLeft == Cardinality({o \in Sales : ~Sold(o)})
          > Cardinality({t \in Api : txn[t].op = "create_pos_order"})

\* A key already used is answered with its sale, before anything is locked.
create_pos_order(t, key, pays) ==
  /\ "create_pos_order" \in Handlers
  /\ txn[t] = Idle
  /\ IF WithKey(key) # {}
     THEN /\ \E o \in WithKey(key) : Answered(key, o)
          /\ txn' = txn
     ELSE /\ IdLeft
          /\ Begins(t, "create_pos_order",
                    [Idle EXCEPT !.phase = "till", !.key = key, !.pays = pays])
          /\ replies' = replies
  /\ UNCHANGED <<till, sale, links, failures, back, bounds>>

\* Mutant: the till is read without FOR UPDATE.
TakeTillUnlocked(t) ==
  /\ txn[t].phase = "till"
  /\ IF open THEN txn' = [txn EXCEPT ![t].phase =
                    IF txn[t].op = "create_pos_order" THEN "links" ELSE "commit"]
     ELSE Ends(t)
  /\ UNCHANGED <<till, sale, links, answers, back, bounds>>

\* Mutant: a request that finds the till closed waits for it.
TakeTillPatiently(t) ==
  /\ txn[t].phase = "till"
  /\ TillFree /\ open
  /\ txn' = [txn EXCEPT ![t].phase =
               IF txn[t].op = "create_pos_order" THEN "links" ELSE "commit"]
  /\ UNCHANGED <<till, sale, links, answers, back, bounds>>

\* The open till, FOR UPDATE: a checkout's, or a reversal's that hands out cash.
\* TILL_NOT_OPEN otherwise.
TakeTill(t) ==
  /\ txn[t].phase = "till"
  /\ TillFree
  /\ IF open THEN txn' = [txn EXCEPT ![t].phase =
                    IF txn[t].op = "create_pos_order" THEN "links" ELSE "commit"]
     ELSE Ends(t)
  /\ UNCHANGED <<till, sale, links, answers, back, bounds>>

\* Mutant: a CONSUMED intent is answered with its sale, whoever asks.
ReplayAnyKey(t) ==
  \E i \in Listed(txn[t].pays) :
    /\ intent[i] = "CONSUMED" /\ txn[t].key # NoKey
    /\ Answered(txn[t].key, spentOn[i])
    /\ Ends(t)

\* An intent already spent by a checkout with this very key: its sale again.
ReplaySpent(t) ==
  \E i \in Listed(txn[t].pays) :
    /\ intent[i] = "CONSUMED"
    /\ spentOn[i] \in WithKey(txn[t].key)
    /\ Answered(txn[t].key, spentOn[i])
    /\ Ends(t)

\* The listed intents, FOR UPDATE, each PAID and not spent; a replay or a
\* refusal otherwise, whichever intent of the list comes first.
LockLinks(t) ==
  /\ txn[t].phase = "links"
  /\ \A i \in Listed(txn[t].pays) : IntentFree(i)
  /\ \/ /\ \A i \in Listed(txn[t].pays) : intent[i] = "PAID"
        /\ txn' = [txn EXCEPT ![t].phase = "commit"]
        /\ replies' = replies
     \/ ReplaySpent(t)
     \/ /\ \E i \in Listed(txn[t].pays) :
             /\ intent[i] # "PAID"
             /\ ~(intent[i] = "CONSUMED" /\ spentOn[i] \in WithKey(txn[t].key))
        /\ Ends(t)
        /\ replies' = replies
  /\ UNCHANGED <<till, sale, links, failures, back, bounds>>

Committing(t) == txn[t].op = "create_pos_order" /\ txn[t].phase = "commit"

\* uq_orders_business_idempotency_key: the loser of two checkouts with one key
\* rolls back and is answered with the winner's sale.
ReplayWinner(t) ==
  /\ Committing(t)
  /\ \E o \in WithKey(txn[t].key) : Answered(txn[t].key, o)
  /\ Ends(t)
  /\ UNCHANGED <<till, sale, links, failures, back, bounds>>

\* uq_pos_payment_link_intents_order_id: one sale cannot be the order_id of two
\* intents.  Nothing catches this violation.
LinksCollide(t) ==
  /\ Committing(t)
  /\ WithKey(txn[t].key) = {}
  /\ Cardinality(Listed(txn[t].pays)) > 1
  /\ failures' = failures \cup {txn[t].pays}
  /\ Ends(t)
  /\ UNCHANGED <<till, sale, links, replies, back, bounds>>

RungUp(t) ==
  [key |-> txn[t].key, cash |-> txn[t].pays.cash, card |-> txn[t].pays.card,
   links |-> txn[t].pays.links, till |-> session, pay |-> "PAID",
   refundCash |-> 0, refundedIn |-> 0, flag |-> "-"]

CommitCheckout(t) ==
  /\ Committing(t)
  /\ WithKey(txn[t].key) = {}
  /\ Cardinality(Listed(txn[t].pays)) <= 1
  /\ \E o \in Sales :
       /\ ~Sold(o)
       /\ sale' = [sale EXCEPT ![o] = RungUp(t)]
       /\ intent' = [i \in Intents |-> IF i \in Listed(txn[t].pays) THEN "CONSUMED"
                                       ELSE intent[i]]
       /\ spentOn' = [i \in Intents |-> IF i \in Listed(txn[t].pays) THEN o
                                        ELSE spentOn[i]]
       /\ IF txn[t].key = NoKey THEN replies' = replies ELSE Answered(txn[t].key, o)
  /\ drawer' = [drawer EXCEPT ![session] = @ + txn[t].pays.cash]
  /\ Ends(t)
  /\ UNCHANGED <<session, open, expected, stale, live, captured, failures, back, bounds>>

-----------------------------------------------------------------------------
(* Till sessions *)

\* The partial unique index allows one OPEN session; a second is refused.
open_till ==
  /\ "open_till" \in Handlers
  /\ ~open /\ session < MaxSessions
  /\ open' = TRUE /\ session' = session + 1
  /\ UNCHANGED <<expected, drawer, sale, links, txn, answers, back, bounds>>

\* Cash allocations of the session, less refund_cash_cents of every order that
\* is reversed and was so since the session opened.
Units(amount) == UNION {{o} \X (1..amount[o]) : o \in DOMAIN amount}
RungUpIn(s) == {o \in Sales : sale[o].till = s}
ReversedSince(s) == {o \in Sales : sale[o].pay \in Reversed /\ sale[o].refundedIn >= s}
ExpectedCash(s) ==
  Cardinality(Units([o \in RungUpIn(s) |-> sale[o].cash]))
  - Cardinality(Units([o \in ReversedSince(s) |-> sale[o].refundCash]))

\* The session is locked and totalled; the total is written with the commit.
close_till(t) ==
  /\ open /\ TillFree
  /\ Begins(t, "close_till", [Idle EXCEPT !.amount = ExpectedCash(session)])
  /\ UNCHANGED <<till, sale, links, answers, back, bounds>>

CommitClose(t) ==
  /\ txn[t].op = "close_till"
  /\ expected' = [expected EXCEPT ![session] = txn[t].amount]
  /\ open' = FALSE
  /\ Ends(t)
  /\ UNCHANGED <<session, drawer, sale, links, answers, back, bounds>>

-----------------------------------------------------------------------------
(* Refunds and voids *)

\* Mutant: the order is read without FOR UPDATE.
BeginReversalUnlocked(t, op, o, amount, cash) ==
  /\ sale[o].pay = "PAID"
  /\ Begins(t, op, [Idle EXCEPT !.sale = o, !.amount = amount, !.cash = cash,
                      !.phase = IF HasCash(o) THEN "till" ELSE "commit"])
  /\ UNCHANGED <<till, sale, links, answers, back, bounds>>

\* _load_pos_order_for_reversal, then the till if the order took any cash.
BeginReversal(t, op, o, amount, cash) ==
  /\ OrderFree(o)
  /\ sale[o].pay = "PAID"
  /\ Begins(t, op, [Idle EXCEPT !.sale = o, !.amount = amount, !.cash = cash,
                      !.phase = IF HasCash(o) THEN "till" ELSE "commit"])
  /\ UNCHANGED <<till, sale, links, answers, back, bounds>>

Lesser(a, b) == IF a <= b THEN a ELSE b

\* The manager says how much of a partial refund of a mixed sale was cash; in
\* every other case there is one answer.
CashParts(o, amount) ==
  IF amount < Total(o) /\ HasCash(o) /\ sale[o].cash < Total(o)
  THEN 0..Lesser(sale[o].cash, amount) ELSE {Lesser(sale[o].cash, amount)}

refund_pos_order(t, o) ==
  \E amount \in 1..Total(o) : \E cash \in CashParts(o, amount) :
    BeginReversal(t, "refund_pos_order", o, amount, cash)

void_pos_order(t, o) == BeginReversal(t, "void_pos_order", o, Total(o), sale[o].cash)

\* _flag_pay_by_link_provider_refund_pending
FlagAfter(o, nonCash) ==
  IF nonCash > 0 /\ Listed(sale[o]) # {} /\ sale[o].flag = "-"
  THEN "PENDING_MANUAL" ELSE sale[o].flag

\* Mutant: a void writes the fulfilment status where the payment status goes.
StatusAfterVoidCancelled(t, o) ==
  IF txn[t].op = "void_pos_order" THEN "CANCELLED"
  ELSE IF txn[t].amount = Total(o) THEN "REFUNDED" ELSE "PARTIALLY_REFUNDED"

StatusAfter(t, o) ==
  IF txn[t].op = "void_pos_order" THEN "VOIDED"
  ELSE IF txn[t].amount = Total(o) THEN "REFUNDED" ELSE "PARTIALLY_REFUNDED"

CommitReversal(t) ==
  LET o == txn[t].sale
      amount == txn[t].amount
      cash == txn[t].cash
  IN /\ txn[t].op \in {"refund_pos_order", "void_pos_order"} /\ txn[t].phase = "commit"
     /\ sale' = [sale EXCEPT ![o].pay = StatusAfter(t, o), ![o].refundCash = cash,
                   ![o].refundedIn = session, ![o].flag = FlagAfter(o, amount - cash)]
     /\ drawer' = [drawer EXCEPT ![session] = @ - cash]
     /\ back' = [back EXCEPT ![o] = @ + amount]
     /\ Ends(t)
     /\ UNCHANGED <<session, open, expected, links, answers, bounds>>

\* A manager states that the provider has returned the links' money.
confirm_pos_order_provider_refund(o) ==
  /\ "confirm_pos_order_provider_refund" \in Handlers
  /\ OrderFree(o)
  /\ sale[o].flag = "PENDING_MANUAL"
  /\ sale' = [sale EXCEPT ![o].flag = "CONFIRMED"]
  /\ UNCHANGED <<till, links, txn, answers, back, bounds>>

\* The generic refund's confirm_manual: no till, no refund_cash_cents.
refund_order_payment(o, amount) ==
  /\ "refund_order_payment" \in Handlers
  /\ OrderFree(o)
  /\ sale[o].pay = "PAID"
  /\ amount \in 1..Total(o)
  /\ sale' = [sale EXCEPT ![o].refundedIn = session,
                ![o].pay = IF amount = Total(o) THEN "REFUNDED" ELSE "PARTIALLY_REFUNDED"]
  /\ back' = [back EXCEPT ![o] = @ + amount]
  /\ UNCHANGED <<till, links, txn, answers, bounds>>

\* The generic PATCH .../payment: read without a lock, then written.
update_payment_status(t, o, new) ==
  /\ patches < MaxPatches /\ patches' = patches + 1
  /\ Sold(o) /\ sale[o].pay # new
  /\ Begins(t, "update_payment_status", [Idle EXCEPT !.sale = o, !.to = new])
  /\ UNCHANGED <<till, sale, links, answers, back, crashes>>

CommitPatch(t) ==
  /\ txn[t].op = "update_payment_status"
  /\ OrderFree(txn[t].sale)
  /\ sale' = [sale EXCEPT ![txn[t].sale].pay = txn[t].to]
  /\ Ends(t)
  /\ UNCHANGED <<till, links, answers, back, bounds>>

-----------------------------------------------------------------------------
(* Pay-by-Link requests *)

\* The provider makes the link and WhatsApp delivers it before the row commits.
create_pos_payment_intent(t, i) ==
  /\ open
  /\ intent[i] = "ABSENT" /\ i \notin live
  /\ Begins(t, "create_pos_payment_intent",
            [Idle EXCEPT !.link = {i}, !.phase = "sending"])
  /\ live' = live \cup {i}
  /\ UNCHANGED <<till, sale, intent, spentOn, stale, captured, answers, back, bounds>>

CommitLink(t) ==
  /\ txn[t].phase = "sending"
  /\ intent' = [i \in Intents |-> IF i \in txn[t].link THEN "PENDING" ELSE intent[i]]
  /\ Ends(t)
  /\ UNCHANGED <<till, sale, spentOn, stale, live, captured, answers, back, bounds>>

\* A step that changes nothing but the status of one intent.
IntentBecomes(i, status) ==
  /\ intent' = [intent EXCEPT ![i] = status]
  /\ UNCHANGED <<till, sale, spentOn, stale, live, captured, answers, back, bounds>>

\* The provider gave no link: the row is committed FAILED at once.
LinkUnavailable(i) ==
  /\ "create_pos_payment_intent" \in Handlers
  /\ open
  /\ intent[i] = "ABSENT" /\ i \notin live
  /\ IntentBecomes(i, "FAILED")
  /\ UNCHANGED txn

\* _maybe_expire: PENDING past expires_at becomes EXPIRED, whoever looks.
Lapsed(i, otherwise) == IF i \in stale THEN "EXPIRED" ELSE otherwise

\* Mutant: a duplicate delivery is recognised by PAID alone.
MarkUnlessPaid(i) ==
  /\ "mark_intent_paid" \in Handlers
  /\ i \in captured /\ IntentFree(i)
  /\ intent[i] \in {"PENDING", "CONSUMED"}
  /\ IntentBecomes(i, Lapsed(i, "PAID"))
  /\ UNCHANGED txn

\* The provider's webhook, delivered any number of times once the customer has
\* paid, and logged and dropped for every status but PENDING.
mark_intent_paid(i) ==
  /\ "mark_intent_paid" \in Handlers
  /\ i \in captured /\ IntentFree(i)
  /\ intent[i] = "PENDING"
  /\ IntentBecomes(i, Lapsed(i, "PAID"))
  /\ UNCHANGED txn

\* Mutant: a link can be cancelled until it is spent.
CancelUnspent(i) ==
  /\ "cancel_pos_payment_intent" \in Handlers
  /\ IntentFree(i)
  /\ intent[i] \in {"PENDING", "PAID"}
  /\ IntentBecomes(i, "CANCELLED")
  /\ UNCHANGED txn

cancel_pos_payment_intent(i) ==
  /\ "cancel_pos_payment_intent" \in Handlers
  /\ IntentFree(i)
  /\ intent[i] = "PENDING"
  /\ IntentBecomes(i, Lapsed(i, "CANCELLED"))
  /\ UNCHANGED txn

\* The same link is sent again, unless it has lapsed.
resend_pos_payment_intent(i) ==
  /\ "resend_pos_payment_intent" \in Handlers
  /\ IntentFree(i)
  /\ intent[i] = "PENDING" /\ i \in stale
  /\ IntentBecomes(i, "EXPIRED")
  /\ UNCHANGED txn

\* The till's poll reads without a lock, looks at the clock, and writes EXPIRED
\* by primary key: the write waits for a lock and then takes effect.
get_pos_payment_intent(t, i) ==
  /\ intent[i] = "PENDING"
  /\ Begins(t, "get_pos_payment_intent",
            [Idle EXCEPT !.link = {i}, !.phase = "polled"])
  /\ UNCHANGED <<till, sale, links, answers, back, bounds>>

CommitPoll(t) ==
  /\ txn[t].phase = "polled"
  /\ \E i \in txn[t].link :
       \/ i \in stale /\ IntentFree(i) /\ IntentBecomes(i, "EXPIRED")
       \/ i \notin stale /\ IntentBecomes(i, intent[i])
  /\ Ends(t)

-----------------------------------------------------------------------------
(* Failures and the environment *)

\* The process dies: its transaction rolls back and its locks go.
Crash(t) ==
  /\ crashes < MaxCrashes /\ crashes' = crashes + 1
  /\ txn[t] # Idle
  /\ Ends(t)
  /\ UNCHANGED <<till, sale, links, answers, back, patches>>

\* The customer pays; the link does not know what became of its row.
CustomerPays(i) ==
  /\ i \in live \ captured
  /\ captured' = captured \cup {i}
  /\ UNCHANGED <<till, sale, intent, spentOn, stale, live, txn, answers, back, bounds>>

\* Fifteen minutes pass.
GrowsStale(i) ==
  /\ intent[i] # "ABSENT" /\ i \notin stale
  /\ stale' = stale \cup {i}
  /\ UNCHANGED <<till, sale, intent, spentOn, live, captured, txn, answers, back, bounds>>

-----------------------------------------------------------------------------
Requests(t) ==
  \/ \E key \in Keys \cup {NoKey}, pays \in Payments : create_pos_order(t, key, pays)
  \/ close_till(t)
  \/ \E o \in Sales : \/ refund_pos_order(t, o) \/ void_pos_order(t, o)
                      \/ \E new \in {"UNPAID", "PAID"} : update_payment_status(t, o, new)
  \/ \E i \in Intents : create_pos_payment_intent(t, i) \/ get_pos_payment_intent(t, i)

\* What a request already begun does next.
Step(t) ==
  \/ TakeTill(t) \/ LockLinks(t)
  \/ ReplayWinner(t) \/ LinksCollide(t) \/ CommitCheckout(t)
  \/ CommitClose(t) \/ CommitReversal(t) \/ CommitPatch(t)
  \/ CommitLink(t) \/ CommitPoll(t)

Immediate ==
  \/ open_till
  \/ \E o \in Sales : \/ confirm_pos_order_provider_refund(o)
                      \/ \E amount \in 1..Total(o) : refund_order_payment(o, amount)
  \/ \E i \in Intents : \/ LinkUnavailable(i) \/ mark_intent_paid(i)
                        \/ cancel_pos_payment_intent(i) \/ resend_pos_payment_intent(i)

Environment == \E i \in Intents : CustomerPays(i) \/ GrowsStale(i)

Next ==
  \/ Immediate \/ Environment
  \/ \E t \in Api : Requests(t) \/ Step(t) \/ Crash(t)

Spec == Init /\ [][Next]_vars

\* A request that began goes on, and is not overtaken for ever in the queue for
\* a row lock.  Nothing obliges staff, customers or providers to act.
Fairness == \A t \in Api : SF_vars(Step(t))

FairSpec == Spec /\ Fairness

-----------------------------------------------------------------------------
(* Properties *)

Request == [op : HandlerNames \cup {"idle"}, phase : Phases, key : Keys \cup {NoKey},
            pays : PaymentShape, sale : Sales \cup {NoSale}, amount : Int, cash : Nat,
            to : {"-", "UNPAID", "PAID"}, link : SUBSET Intents]

TypeOK ==
  /\ session \in 0..MaxSessions /\ open \in BOOLEAN
  /\ expected \in [Sessions -> Int] /\ drawer \in [Sessions -> Int]
  /\ \A o \in Sales : Sold(o) => sale[o] \in Sale
  /\ intent \in [Intents -> IntentStatuses]
  /\ spentOn \in [Intents -> Sales \cup {NoSale}]
  /\ stale \subseteq Intents /\ live \subseteq Intents /\ captured \subseteq Intents
  /\ txn \in [Api -> Request]
  /\ replies \subseteq Keys \X Sales /\ failures \subseteq Payments
  /\ back \in [Sales -> Nat]
  /\ patches \in Nat /\ crashes \in Nat

\* The cash-up of a closed session is the cash that moved through the drawer
\* while it was open, whichever session rang the refunded sale up and whatever
\* checkouts, refunds and closings raced (close_till).
CashUpExact ==
  \A s \in Sessions : s < session \/ (s = session /\ ~open) => expected[s] = drawer[s]

\* No sale gives back more than it took, over both refund endpoints and the
\* void (_load_pos_order_for_reversal, refund_order_payment).
RefundWithinTotal == \A o \in Sales : Sold(o) => back[o] <= Total(o)

\* However a repeated checkout is answered (lookup, spent intent or violated
\* index), it is answered with the one sale its key ever made.
RepliesAgree == \A r \in replies : WithKey(r[1]) = {r[2]}

\* A customer's link payment settles at most one sale, whatever becomes of the
\* intent's row (create_pos_order, _mark_intent_paid).
SpentInOneSale ==
  \A i \in Intents : \A o, p \in Sales :
    sale[o].links[i] > 0 /\ sale[p].links[i] > 0 => o = p

\* The intents some poll under way has read as PENDING.
Seen == UNION {txn[t].link : t \in {u \in Api : txn[u].phase = "polled"}}

\* Every handler, the unlocked poll included, carries out PayLinkIntent: a
\* request moves only as the payment model says, or is expired for good by a
\* poll under way that read it PENDING (_mark_intent_paid, _maybe_expire,
\* create_pos_order, get_pos_payment_intent).
StateMachine == INSTANCE PayLinkIntent WITH seen <- Seen
IntentsFollowStateMachine == StateMachine!Spec

\* Every request ends: no two handlers wait for each other's rows.
RequestsEnd == \A t \in Api : (txn[t] # Idle) ~> (txn[t] = Idle)

-----------------------------------------------------------------------------
(* What the repository says of these handlers and the code refutes           *)

\* pos_payment.py: "a PAID intent is consumed exactly once"; an intent listed
\* twice in one checkout backs two allocations.
AllocationsBacked == \A i \in Intents, o \in Sales : sale[o].links[i] <= 1

\* routes_pos.py: "All allocations validated -- consume every PAY_BY_LINK intent
\* now": a checkout whose intents are all PAID is a sale, not a server error.
ValidCheckoutSells == failures = {}

\* routes_pos.py: a PAID intent "is real, received money [...] it must never
\* silently disappear": only a sale takes it off the till's list.
PaidStaysUntilSpent ==
  [][\A i \in Intents : intent[i] = "PAID" => intent'[i] \in {"PAID", "CONSUMED"}]_vars
=============================================================================
