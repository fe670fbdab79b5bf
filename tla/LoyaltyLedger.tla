---------------------------- MODULE LoyaltyLedger ----------------------------
(***************************************************************************)
(* The loyalty points of one business: wallets found or opened by phone    *)
(* number, points earned by paid orders, rewards redeemed at the till or   *)
(* by hand, given back by a void or a refund, and corrected by a manager.  *)
(*                                                                         *)
(* Every handler first loads the customer without a lock, and takes the    *)
(* row's lock only to change the balance, which it then reads afresh; the  *)
(* lock lasts until its commit.  So a handler is one step that reads and   *)
(* one that locks, decides and commits.  Earning is a third step: it runs  *)
(* after the payment has committed, in a transaction of its own, and is    *)
(* lost when the process dies in between.                                  *)
(***************************************************************************)
EXTENDS Integers, FiniteSets, Sequences

CONSTANTS
  Requests,     \* slots for handlers in service
  Customers,    \* wallets that may be opened for the phone number
  Sales,        \* till sales, each with the idempotency key of its checkout
  Remote,       \* orders paid by a webhook or a staff confirmation
  Keys,         \* idempotency keys of manual adjustments
  NoKey,        \* an entry without a key
  NoOne,        \* "no customer"
  Costs,        \* points a reward may cost
  Earns,        \* points an order may earn, the promotion included
  Deltas,       \* manual adjustments asked for
  MaxEntries    \* bound: ledger entries

ASSUME LoyaltyAssumption ==
  /\ Costs \subseteq Nat \ {0} /\ Earns \subseteq Nat \ {0}
  /\ Deltas \subseteq Int \ {0}
  /\ NoOne \notin Customers
  /\ \A o \in Sales : NoKey # <<"REDEEM", o>> /\ NoKey # <<"REDEEM_REVERSAL", o>>
  /\ MaxEntries \in Nat

VARIABLES
  opened,    \* wallets with a customers row
  balance,   \* loyalty_points_balance
  log,       \* loyalty_transactions of a wallet, oldest first
  cost,      \* points_cost of the reward
  pay,       \* order -> payment_status
  owner,     \* order -> its customer_id
  req        \* slot -> what the handler in it has read

vars == <<opened, balance, log, cost, pay, owner, req>>

Orders == Sales \cup Remote

Statuses == {"NONE", "UNPAID", "PAID", "REVERSED"}

RedeemKey(o) == <<"REDEEM", o>>
ReversalKey(o) == <<"REDEEM_REVERSAL", o>>
AdjustKey(k) == <<"ADJUST", k>>

EntryKeys ==
  {NoKey} \cup {RedeemKey(o) : o \in Sales} \cup {ReversalKey(o) : o \in Sales}
  \cup {AdjustKey(k) : k \in Keys}

Entry == [delta : Int, after : Nat, key : EntryKeys]

Idle == [op |-> "idle"]

Read ==
  {Idle}
  \cup [op : {"lookup"}, on : Customers]
  \cup [op : {"checkout"}, on : Sales, who : Customers, seen : Nat,
        cost : Nat, redeems : BOOLEAN]
  \cup [op : {"redeem"}, who : Customers, seen : Nat, cost : Nat]
  \cup [op : {"adjust"}, on : Keys, who : Customers, seen : Nat]
  \cup [op : {"pay", "award"}, on : Orders]

\* Every row has its type; a balance below zero would violate the column's check.
TypeOK ==
  /\ opened \subseteq Customers
  /\ balance \in [Customers -> Nat]
  /\ log \in [Customers -> Seq(Entry)]
  /\ cost \in Costs
  /\ pay \in [Orders -> Statuses]
  /\ owner \in [Orders -> Customers \cup {NoOne}]
  /\ req \in [Requests -> Read]

Init ==
  /\ opened = {}
  /\ balance = [c \in Customers |-> 0]
  /\ log = [c \in Customers |-> <<>>]
  /\ cost \in Costs
  /\ pay = [o \in Orders |-> "NONE"]
  /\ owner = [o \in Orders |-> NoOne]
  /\ req = [r \in Requests |-> Idle]

-----------------------------------------------------------------------------
Begin(r, read) == req[r] = Idle /\ req' = [req EXCEPT ![r] = read]
Then(r, read) == req' = [req EXCEPT ![r] = read]
End(r) == Then(r, Idle)
Serving(r, op) == req[r].op = op

Entries(c) == {log[c][n] : n \in 1 .. Len(log[c])}
Taken(key) == key # NoKey /\ \E c \in Customers : \E e \in Entries(c) : e.key = key

\* Mutant: the row loaded before the lock, which the identity map hands back.
StaleBalance(r, c) == req[r].seen

\* _lock_customer_for_balance_update: FOR UPDATE with populate_existing.
LockedBalance(r, c) == balance[c]

\* A reward needs its points; a correction may not end below zero.
Covers(now, points) == now >= points
Allows(now, delta) == now + delta >= 0

\* The balance and its ledger entry change together.
Write(c, before, delta, key) ==
  /\ Len(log[c]) < MaxEntries
  /\ balance' = [balance EXCEPT ![c] = before + delta]
  /\ log' = [log EXCEPT ![c] =
               Append(@, [delta |-> delta, after |-> before + delta, key |-> key])]

Untouched == UNCHANGED <<balance, log>>

-----------------------------------------------------------------------------
(* Wallets. *)

\* lookup_customer_by_phone finds nobody: it opens a wallet.
LookupReads(r, c) ==
  /\ opened = {} /\ \A q \in Requests : Serving(q, "lookup") => req[q].on # c
  /\ Begin(r, [op |-> "lookup", on |-> c])
  /\ Untouched /\ UNCHANGED <<opened, cost, pay, owner>>

LookupCommits(r) ==
  /\ Serving(r, "lookup")
  /\ opened' = opened \cup {req[r].on}
  /\ End(r)
  /\ Untouched /\ UNCHANGED <<cost, pay, owner>>

\* update_reward.
EditReward ==
  /\ cost' \in Costs \ {cost}
  /\ Untouched /\ UNCHANGED <<opened, pay, owner, req>>

-----------------------------------------------------------------------------
(* Redemptions. *)

\* create_pos_order with a customer's phone, which must match one wallet.
CheckoutReads(r, o, c, redeems) ==
  /\ pay[o] = "NONE"
  /\ opened = {c}
  /\ Begin(r, [op |-> "checkout", on |-> o, who |-> c, seen |-> balance[c],
               cost |-> cost, redeems |-> redeems])
  /\ Untouched /\ UNCHANGED <<opened, cost, pay, owner>>

\* The sale, its redemption and the order's key commit together.
CheckoutCommits(r) ==
  /\ Serving(r, "checkout")
  /\ LET o == req[r].on
         c == req[r].who
         now == LockedBalance(r, c)
     IN  /\ pay[o] = "NONE"
         /\ IF req[r].redeems
            THEN /\ Covers(now, req[r].cost)
                 /\ ~Taken(RedeemKey(o))
                 /\ Write(c, now, -req[r].cost, RedeemKey(o))
            ELSE Untouched
         /\ pay' = [pay EXCEPT ![o] = "PAID"]
         /\ owner' = [owner EXCEPT ![o] = c]
         /\ Then(r, [op |-> "award", on |-> o])
  /\ UNCHANGED <<opened, cost>>

\* Too few points, or the sale was committed by its twin: nothing is kept.
CheckoutRefused(r) ==
  /\ Serving(r, "checkout")
  /\ \/ pay[req[r].on] # "NONE"
     \/ req[r].redeems /\ ~Covers(LockedBalance(r, req[r].who), req[r].cost)
  /\ End(r)
  /\ Untouched /\ UNCHANGED <<opened, cost, pay, owner>>

\* redeem_loyalty_reward, handed over without a sale: no key.
RedeemReads(r, c) ==
  /\ c \in opened
  /\ Begin(r, [op |-> "redeem", who |-> c, seen |-> balance[c], cost |-> cost])
  /\ Untouched /\ UNCHANGED <<opened, cost, pay, owner>>

RedeemCommits(r) ==
  /\ Serving(r, "redeem")
  /\ LET c == req[r].who
         now == LockedBalance(r, c)
     IN  IF Covers(now, req[r].cost) THEN Write(c, now, -req[r].cost, NoKey) ELSE Untouched
  /\ End(r)
  /\ UNCHANGED <<opened, cost, pay, owner>>

\* Mutant: today's price of the reward instead of the one charged.
PointsBackRepriced(e) == cost

\* The points of the original entry.
PointsBack(e) == -e.delta

\* void_pos_order, and a full refund that restores points: the order is locked.
Reverse(o) ==
  /\ pay[o] = "PAID" /\ o \in Sales
  /\ pay' = [pay EXCEPT ![o] = "REVERSED"]
  /\ LET c == owner[o]
         spent == {e \in Entries(c) : e.key = RedeemKey(o)}
     IN  IF spent = {} \/ Taken(ReversalKey(o)) THEN Untouched
         ELSE \E e \in spent : Write(c, balance[c], PointsBack(e), ReversalKey(o))
  /\ UNCHANGED <<opened, cost, owner, req>>

\* A full refund whose restore_loyalty_points is off.
ReverseKeepingPoints(o) ==
  /\ pay[o] = "PAID" /\ o \in Sales
  /\ pay' = [pay EXCEPT ![o] = "REVERSED"]
  /\ Untouched /\ UNCHANGED <<opened, cost, owner, req>>

-----------------------------------------------------------------------------
(* Corrections by a manager. *)

AdjustReads(r, k, c) ==
  /\ c \in opened
  /\ ~Taken(AdjustKey(k))
  /\ Begin(r, [op |-> "adjust", on |-> k, who |-> c, seen |-> balance[c]])
  /\ Untouched /\ UNCHANGED <<opened, cost, pay, owner>>

\* Mutant: the unique index forgotten.
KeyFreeAlways(key) == TRUE

KeyFree(key) == ~Taken(key)

\* adjust_customer_points; the loser of a race replays the winner's entry.
AdjustCommits(r) ==
  /\ Serving(r, "adjust")
  /\ LET c == req[r].who
         now == LockedBalance(r, c)
         key == AdjustKey(req[r].on)
     IN  \/ \E delta \in Deltas :
              /\ KeyFree(key)
              /\ IF Allows(now, delta) THEN Write(c, now, delta, key) ELSE Untouched
         \/ ~KeyFree(key) /\ Untouched
  /\ End(r)
  /\ UNCHANGED <<opened, cost, pay, owner>>

-----------------------------------------------------------------------------
(* Payments confirmed later, and what they earn. *)

\* A WhatsApp order of a known customer.
PlaceRemote(o, c) ==
  /\ o \in Remote /\ pay[o] = "NONE" /\ c \in opened
  /\ pay' = [pay EXCEPT ![o] = "UNPAID"]
  /\ owner' = [owner EXCEPT ![o] = c]
  /\ Untouched /\ UNCHANGED <<opened, cost, req>>

\* mark_order_paid and update_payment_status both look before they write.
PayReads(r, o) ==
  /\ pay[o] = "UNPAID"
  /\ Begin(r, [op |-> "pay", on |-> o])
  /\ Untouched /\ UNCHANGED <<opened, cost, pay, owner>>

PayCommits(r) ==
  /\ Serving(r, "pay")
  /\ pay' = [pay EXCEPT ![req[r].on] = "PAID"]
  /\ Then(r, [op |-> "award", on |-> req[r].on])
  /\ Untouched /\ UNCHANGED <<opened, cost, owner>>

\* A staff correction of a payment that never arrived.
Unpay(o) ==
  /\ o \in Remote /\ pay[o] = "PAID"
  /\ pay' = [pay EXCEPT ![o] = "UNPAID"]
  /\ Untouched /\ UNCHANGED <<opened, cost, owner, req>>

\* Mutant: every wallet of the phone number is credited.
AwardEveryWallet(r) ==
  /\ Serving(r, "award")
  /\ \A c \in opened : Len(log[c]) < MaxEntries
  /\ \E points \in Earns :
       /\ balance' = [c \in Customers |->
                        IF c \in opened THEN balance[c] + points ELSE balance[c]]
       /\ log' = [c \in Customers |->
                    IF c \in opened
                    THEN Append(log[c], [delta |-> points, key |-> NoKey,
                                         after |-> balance[c] + points])
                    ELSE log[c]]
  /\ End(r)
  /\ UNCHANGED <<opened, cost, pay, owner>>

\* award_loyalty_points_if_enabled, in its own transaction, under the row's lock.
Award(r) ==
  /\ Serving(r, "award")
  /\ LET c == owner[req[r].on]
     IN  \E points \in Earns : Write(c, balance[c], points, NoKey)
  /\ End(r)
  /\ UNCHANGED <<opened, cost, pay, owner>>

\* The programme is off, the award fails and is only logged, or the process dies.
AwardSkipped(r) ==
  /\ Serving(r, "award")
  /\ End(r)
  /\ Untouched /\ UNCHANGED <<opened, cost, pay, owner>>

Next ==
  \/ EditReward
  \/ \E o \in Sales : Reverse(o) \/ ReverseKeepingPoints(o)
  \/ \E o \in Remote : Unpay(o) \/ \E c \in Customers : PlaceRemote(o, c)
  \/ \E r \in Requests :
       \/ \E c \in Customers : LookupReads(r, c) \/ RedeemReads(r, c)
       \/ \E o \in Sales, c \in Customers, redeems \in BOOLEAN :
            CheckoutReads(r, o, c, redeems)
       \/ \E k \in Keys, c \in Customers : AdjustReads(r, k, c)
       \/ \E o \in Remote : PayReads(r, o)
       \/ LookupCommits(r) \/ CheckoutCommits(r) \/ CheckoutRefused(r)
       \/ RedeemCommits(r) \/ AdjustCommits(r) \/ PayCommits(r)
       \/ Award(r) \/ AwardSkipped(r)

Spec == Init /\ [][Next]_vars

-----------------------------------------------------------------------------
Before(c, n) == IF n = 1 THEN 0 ELSE log[c][n - 1].after

\* "A balance is always explainable" (models/loyalty.py:99): each entry starts
\* from the balance the one before it left, and the last one left this balance,
\* whichever handlers raced for the wallet.
BalanceExplained ==
  \A c \in Customers :
    /\ \A n \in 1 .. Len(log[c]) : log[c][n].after = Before(c, n) + log[c][n].delta
    /\ balance[c] = Before(c, Len(log[c]) + 1)

\* A till sale spends its reward once, a void or refund returns it once, and
\* exactly as many points as were charged, whatever the reward costs by then.
RedeemedAndReturnedOnce ==
  \A c, d \in Customers : \A m \in 1 .. Len(log[c]), n \in 1 .. Len(log[d]) :
    /\ log[c][m].key = log[d][n].key /\ log[c][m].key # NoKey => c = d /\ m = n
    /\ \A o \in Sales :
         log[c][m].key = RedeemKey(o) /\ log[d][n].key = ReversalKey(o) =>
           c = d /\ log[d][n].delta = -log[c][m].delta

Account == INSTANCE PointsAccount WITH Customers <- Customers, balance <- balance

\* Every handler, at each of its steps, credits or debits at most one wallet,
\* and no debit takes more than the wallet holds.
WalletsAreAccounts == Account!Spec

\* "resolve to the SAME customer/points wallet instead of silently creating
\* two" (loyalty/engine.py, get_or_create_customer_by_phone).
OneWalletPerPhone == Cardinality(opened) <= 1
=============================================================================
