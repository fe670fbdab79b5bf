----------------------------- MODULE StockLedger -----------------------------
(***************************************************************************)
(* The stock ledger of one business and every handler that writes it:      *)
(* sales and their reversals, a marketplace's daily report, deliveries,    *)
(* opening stock, manual corrections, wastage and its review, stocktakes.  *)
(*                                                                         *)
(* Stock is never stored: it is the sum of an append-only table whose rows *)
(* carry the instant the event happened, which the caller may backdate.    *)
(* Only the approval of a stocktake locks its row.  Every other handler    *)
(* decides on what it read earlier, so it is two steps here: one that      *)
(* reads (and refuses), one that commits.  What holds regardless rests on  *)
(* the unique index over idempotency keys, which is consulted at commit.   *)
(***************************************************************************)
EXTENDS Integers, FiniteSets, FiniteSetsExt

CONSTANTS
  Requests,     \* slots for handlers in service
  Ingredients,
  Orders,       \* orders that sell something
  Reported,     \* external_order_id of the orders a marketplace's report lists
  Entries,      \* wastage entries
  Deliveries,   \* goods-received idempotency keys, one per physical delivery
  Counts,       \* stocktake sessions
  Options,      \* option choices and removable ingredients of a dish
  Recipes,      \* recipes the dish may be given: [yields, lines]
  Baskets,      \* what an order may ask for: [portions, chosen, removed]
  Milli,        \* quantities a client may enter
  MaxTime,      \* bound: instants
  MaxPosts,     \* bound: transactions that write the ledger
  MaxCalls      \* bound: two-step handlers begun

Always == ""    \* a recipe line's option_id or removable_ref_id, when null

Line == [item : Ingredients, milli : Nat, option : Options \cup {Always},
         ref : Options \cup {Always}]

Recipe == [yields : Nat \ {0}, lines : SUBSET Line]

Basket == [portions : Nat, chosen : SUBSET Options, removed : SUBSET Options]

ASSUME StockAssumption ==
  /\ MaxTime \in Nat /\ MaxPosts \in Nat /\ MaxCalls \in Nat
  /\ Milli \subseteq Nat
  /\ Recipes \subseteq Recipe
  /\ Baskets \subseteq Basket

VARIABLES
  now,      \* the clock
  ledger,   \* stock_movements
  posts,    \* ledger transactions so far: orders the rows by created_at
  recipe,   \* the dish's active recipe
  entry,    \* wastage entry -> recorded, approved, rejected
  receipts, \* idempotency keys of the goods receipts
  count,    \* stocktake session -> its row and lines
  req,      \* slot -> what the handler in it has read
  calls     \* handlers begun so far

vars == <<now, ledger, posts, recipe, entry, receipts, count, req, calls>>

Times == 0 .. MaxTime
Never == -1       \* a null period_start_at: before every movement
NotCounted == -1  \* a null counted_quantity_milli

Kinds ==
  {"OPENING_BALANCE", "GOODS_RECEIVED", "SALE_CONSUMPTION", "SALE_REVERSAL",
   "WASTAGE", "WASTAGE_REVERSAL", "MANUAL_ADJUSTMENT", "STOCKTAKE_ADJUSTMENT"}

\* Mutant: a count's correction without a key of its own.
KeyedNotCounts ==
  Kinds \ {"GOODS_RECEIVED", "MANUAL_ADJUSTMENT", "STOCKTAKE_ADJUSTMENT"}

\* Deliveries and manual corrections carry no idempotency key.
Keyed == Kinds \ {"GOODS_RECEIVED", "MANUAL_ADJUSTMENT"}

Movement ==
  [kind : Kinds, item : Ingredients, milli : Int, at : Times, post : Nat,
   src : Orders \cup Reported \cup Entries \cup Deliveries \cup Counts \cup Ingredients]

Session ==
  [status : {"NONE", "DRAFT", "COMPLETED", "APPROVED", "CANCELLED"},
   cutoff : Times, start : Times \cup {Never},
   counted : [Ingredients -> Nat \cup {NotCounted}],
   expected : [Ingredients -> Int], variance : [Ingredients -> Int]]

Idle == [op |-> "idle"]

Read ==
  {Idle}
  \cup [op : {"open"}, on : Counts, start : Times \cup {Never}]
  \cup [op : {"submit_counts", "cancel"}, on : Counts]
  \cup [op : {"complete"}, on : Counts, expected : [Ingredients -> Int],
        counted : [Ingredients -> Nat]]
  \cup [op : {"approve_wastage", "reject_wastage"}, on : Entries]
  \cup [op : {"goods_receipt"}, on : Deliveries]
  \cup [op : {"opening_stock"}, on : Ingredients]
  \cup [op : {"import"}, on : Reported, at : Times, basket : Baskets]
  \cup [op : {"reverse"}, on : Orders, undo : SUBSET Movement]

\* Every row has its type.
TypeOK ==
  /\ now \in Times
  /\ ledger \subseteq Movement
  /\ posts \in Nat
  /\ recipe \in Recipes
  /\ entry \in [Entries -> [recorded : BOOLEAN, approved : BOOLEAN,
                            rejected : BOOLEAN]]
  /\ receipts \subseteq Deliveries
  /\ count \in [Counts -> Session]
  /\ req \in [Requests -> Read]
  /\ calls \in Nat

NoSession ==
  [status |-> "NONE", cutoff |-> 0, start |-> Never,
   counted |-> [i \in Ingredients |-> NotCounted],
   expected |-> [i \in Ingredients |-> 0],
   variance |-> [i \in Ingredients |-> 0]]

\* An empty store, counted and approved before its first delivery.
NothingFound ==
  [NoSession EXCEPT !.status = "APPROVED", !.counted = [i \in Ingredients |-> 0]]

Init ==
  /\ now = 0
  /\ ledger = {}
  /\ posts = 0
  /\ recipe \in Recipes
  /\ entry = [w \in Entries |->
                [recorded |-> FALSE, approved |-> FALSE, rejected |-> FALSE]]
  /\ receipts = {}
  /\ \E before \in {{}} \cup {{c} : c \in Counts} :
       count = [c \in Counts |-> IF c \in before THEN NothingFound ELSE NoSession]
  /\ req = [r \in Requests |-> Idle]
  /\ calls = 0

-----------------------------------------------------------------------------
(* The ledger. *)

Sum(ms) == MapThenSumSet(LAMBDA m : m.milli, ms)

stock_on_hand(i, t) == Sum({m \in ledger : m.item = i /\ m.at <= t})

\* Mutant: both ends included.
InPeriodClosed(i, since, until) ==
  {m \in ledger : m.item = i /\ since <= m.at /\ m.at <= until}

\* The period's movements: after since, up to and including until.
InPeriod(i, since, until) ==
  {m \in ledger : m.item = i /\ since < m.at /\ m.at <= until}

movement_totals(i, kinds, since, until) ==
  Sum({m \in InPeriod(i, since, until) : m.kind \in kinds})

Row(kind, i, milli, at, src) ==
  [kind |-> kind, item |-> i, milli |-> milli, at |-> at, src |-> src,
   post |-> posts]

is_idempotency_violation(rows) ==
  \E m \in rows, x \in ledger :
    /\ m.kind \in Keyed
    /\ <<x.kind, x.src, x.item>> = <<m.kind, m.src, m.item>>

\* The rows of one transaction: all of them, or none when a key is taken.
Post(rows) ==
  /\ posts < MaxPosts
  /\ ~is_idempotency_violation(rows)
  /\ ledger' = ledger \cup rows
  /\ posts' = posts + 1

Begin(r, read) ==
  /\ calls < MaxCalls /\ calls' = calls + 1
  /\ req[r] = Idle /\ req' = [req EXCEPT ![r] = read]

End(r) == req' = [req EXCEPT ![r] = Idle] /\ UNCHANGED calls

Serving(r, op) == req[r].op = op

-----------------------------------------------------------------------------
(* Sales. *)

\* milli * portions / yields, rounded half up.
scale(milli, portions, yields) == (2 * milli * portions + yields) \div (2 * yields)

\* A line counts unless it was removed or its option was not chosen.
Applies(line, basket) ==
  /\ line.ref = Always \/ line.ref \notin basket.removed
  /\ line.option = Always \/ line.option \in basket.chosen

resolve_order(basket, i) ==
  LET lines == {l \in recipe.lines : l.item = i /\ Applies(l, basket)}
  IN  MapThenSumSet(LAMBDA l : scale(l.milli, basket.portions, recipe.yields), lines)

\* post_sale_consumption, in the transaction that creates the order.
Consumption(o, basket, at) ==
  {Row("SALE_CONSUMPTION", i, -resolve_order(basket, i), at, o) :
     i \in {j \in Ingredients : resolve_order(basket, j) > 0}}

Originals(o) == {m \in ledger : m.kind = "SALE_CONSUMPTION" /\ m.src = o}

\* A checkout: an order is created once.
Sell(o) ==
  \E basket \in Baskets :
    /\ Originals(o) = {}
    /\ Post(Consumption(o, basket, now))
    /\ UNCHANGED <<now, recipe, entry, receipts, count, req, calls>>

\* upsert_recipe, at any moment between a sale and its reversal.
EditRecipe ==
  /\ recipe' \in Recipes \ {recipe}
  /\ UNCHANGED <<now, ledger, posts, entry, receipts, count, req, calls>>

\* Mutant: the recipe resolved again.
MirrorResolved(m) ==
  Row("SALE_REVERSAL", m.item,
      MapThenSumSet(LAMBDA l : scale(l.milli, 1, recipe.yields), recipe.lines),
      now, m.src)

\* The sale's own rows, negated: never the recipe resolved again.
Mirror(m) == Row("SALE_REVERSAL", m.item, -m.milli, now, m.src)

Already(o) ==
  {m.item : m \in {x \in ledger : x.kind = "SALE_REVERSAL" /\ x.src = o}}

\* reverse_sale_consumption: a void, a refund or a cancellation of the order.
ReverseSaleReads(r, o) ==
  LET undo == {Mirror(m) : m \in {x \in Originals(o) : x.item \notin Already(o)}}
  IN  /\ undo # {}
      /\ Begin(r, [op |-> "reverse", on |-> o, undo |-> undo])
      /\ UNCHANGED <<now, ledger, posts, recipe, entry, receipts, count>>

\* The unique index refuses a second reversal: the whole transaction is undone.
ReverseSaleCommits(r) ==
  /\ Serving(r, "reverse")
  /\ LET rows == {[m EXCEPT !.post = posts] : m \in req[r].undo}
     IN  \/ Post(rows)
         \/ is_idempotency_violation(rows) /\ UNCHANGED <<ledger, posts>>
  /\ End(r)
  /\ UNCHANGED <<now, recipe, entry, receipts, count>>

-----------------------------------------------------------------------------
(* A marketplace's daily report, uploaded by a manager. *)

WithStatus(s) == {c \in Counts : count[c].status = s}

\* The previous approved count's cut-off.
PeriodStart ==
  IF WithStatus("APPROVED") = {} THEN Never
  ELSE Max({count[c].cutoff : c \in WithStatus("APPROVED")})

\* A sale inside the approved period is dated one instant after its cut-off.
movement_at(placed, cutoff) == IF placed <= cutoff THEN cutoff + 1 ELSE placed

\* What a reported order means here, once each of its lines has a product: an
\* order found already is skipped, an unmapped line refuses the whole report.
resolve_orders(x) ==
  {[at |-> movement_at(placed, PeriodStart), basket |-> basket] :
     placed \in {t \in 0 .. now : Originals(x) = {}}, basket \in Baskets}

\* commit_external_orders: neither the cut-off nor the order is locked.
ImportReads(r, x) ==
  /\ \E found \in resolve_orders(x) :
       /\ found.at \in Times
       /\ Begin(r, [op |-> "import", on |-> x, at |-> found.at, basket |-> found.basket])
  /\ UNCHANGED <<now, ledger, posts, recipe, entry, receipts, count>>

\* import_resolved_orders: the unique index over the external id undoes the
\* whole report of a second upload.
ImportCommits(r) ==
  /\ Serving(r, "import")
  /\ \/ /\ Originals(req[r].on) = {}
        /\ Post(Consumption(req[r].on, req[r].basket, req[r].at))
     \/ /\ Originals(req[r].on) # {}
        /\ UNCHANGED <<ledger, posts>>
  /\ End(r)
  /\ UNCHANGED <<now, recipe, entry, receipts, count>>

-----------------------------------------------------------------------------
(* Deliveries, opening stock and manual corrections. *)

\* create_goods_receipt: a retry whose receipt has committed is answered with it.
GoodsReceiptReads(r, d) ==
  /\ d \notin receipts
  /\ Begin(r, [op |-> "goods_receipt", on |-> d])
  /\ UNCHANGED <<now, ledger, posts, recipe, entry, receipts, count>>

\* The receipts table has its own unique index; the loser replays the winner.
GoodsReceiptCommits(r) ==
  /\ Serving(r, "goods_receipt")
  /\ \/ /\ req[r].on \notin receipts
        /\ receipts' = receipts \cup {req[r].on}
        /\ \E i \in Ingredients, milli \in Milli \ {0}, at \in Times :
             Post({Row("GOODS_RECEIVED", i, milli, at, req[r].on)})
     \/ /\ req[r].on \in receipts
        /\ UNCHANGED <<receipts, ledger, posts>>
  /\ End(r)
  /\ UNCHANGED <<now, recipe, entry, count>>

HasOpening(i) == \E m \in ledger : m.kind = "OPENING_BALANCE" /\ m.item = i

OpeningStockReads(r, i) ==
  /\ ~HasOpening(i)
  /\ Begin(r, [op |-> "opening_stock", on |-> i])
  /\ UNCHANGED <<now, ledger, posts, recipe, entry, receipts, count>>

OpeningStockCommits(r) ==
  /\ Serving(r, "opening_stock")
  /\ \/ \E milli \in Milli \ {0}, at \in Times :
          Post({Row("OPENING_BALANCE", req[r].on, milli, at, req[r].on)})
     \/ /\ is_idempotency_violation(
             {Row("OPENING_BALANCE", req[r].on, 1, now, req[r].on)})
        /\ UNCHANGED <<ledger, posts>>
  /\ End(r)
  /\ UNCHANGED <<now, recipe, entry, receipts, count>>

\* create_adjustment: nothing to read that could go stale.
Adjust(i) ==
  /\ \E milli \in Milli \ {0}, sign \in {-1, 1} :
       Post({Row("MANUAL_ADJUSTMENT", i, sign * milli, now, i)})
  /\ UNCHANGED <<now, recipe, entry, receipts, count, req, calls>>

-----------------------------------------------------------------------------
(* Wastage: the stock leaves at once, a manager reviews it afterwards. *)

\* record_wastage; above the threshold a manager's own entry is approved at once.
RecordWastage(w, i) ==
  /\ ~entry[w].recorded
  /\ \E milli \in Milli \ {0}, at \in Times :
       Post({Row("WASTAGE", i, -milli, at, w)})
  /\ \E approved \in BOOLEAN :
       entry' = [entry EXCEPT ![w] = [recorded |-> TRUE, approved |-> approved,
                                      rejected |-> FALSE]]
  /\ UNCHANGED <<now, recipe, receipts, count, req, calls>>

Reviewable(w) ==
  entry[w].recorded /\ ~entry[w].approved /\ ~entry[w].rejected

ApproveWastageReads(r, w) ==
  /\ Reviewable(w)
  /\ Begin(r, [op |-> "approve_wastage", on |-> w])
  /\ UNCHANGED <<now, ledger, posts, recipe, entry, receipts, count>>

ApproveWastageCommits(r) ==
  /\ Serving(r, "approve_wastage")
  /\ entry' = [entry EXCEPT ![req[r].on].approved = TRUE]
  /\ End(r)
  /\ UNCHANGED <<now, ledger, posts, recipe, receipts, count>>

RejectWastageReads(r, w) ==
  /\ Reviewable(w)
  /\ Begin(r, [op |-> "reject_wastage", on |-> w])
  /\ UNCHANGED <<now, ledger, posts, recipe, entry, receipts, count>>

\* Mutant: nothing to give back once somebody approved.
WastageReversalUnlessApproved(w) ==
  {Row("WASTAGE_REVERSAL", m.item, -m.milli, now, w) :
     m \in {x \in ledger : x.kind = "WASTAGE" /\ x.src = w /\ ~entry[w].approved}}

\* The deduction negated.
WastageReversal(w) ==
  {Row("WASTAGE_REVERSAL", m.item, -m.milli, now, w) :
     m \in {x \in ledger : x.kind = "WASTAGE" /\ x.src = w}}

\* reject_wastage: the row's update and the reversal commit together or not.
RejectWastageCommits(r) ==
  /\ Serving(r, "reject_wastage")
  /\ LET w == req[r].on
     IN  \/ /\ Post(WastageReversal(w))
            /\ entry' = [entry EXCEPT ![w].rejected = TRUE]
         \/ /\ is_idempotency_violation(WastageReversal(w))
            /\ UNCHANGED <<entry, ledger, posts>>
  /\ End(r)
  /\ UNCHANGED <<now, recipe, receipts, count>>

-----------------------------------------------------------------------------
(* Stocktakes: DRAFT, COMPLETED, APPROVED; or CANCELLED. *)

OpenReads(r, c) ==
  /\ count[c].status = "NONE"
  /\ WithStatus("DRAFT") \cup WithStatus("COMPLETED") = {}
  /\ \A q \in Requests : Serving(q, "open") => req[q].on # c
  /\ Begin(r, [op |-> "open", on |-> c, start |-> PeriodStart])
  /\ UNCHANGED <<now, ledger, posts, recipe, entry, receipts, count>>

OpenCommits(r) ==
  /\ Serving(r, "open")
  /\ \E cutoff \in Times :
       count' = [count EXCEPT ![req[r].on] =
                   [@ EXCEPT !.status = "DRAFT", !.cutoff = cutoff,
                             !.start = req[r].start]]
  /\ End(r)
  /\ UNCHANGED <<now, ledger, posts, recipe, entry, receipts>>

SubmitCountsReads(r, c) ==
  /\ count[c].status = "DRAFT"
  /\ Begin(r, [op |-> "submit_counts", on |-> c])
  /\ UNCHANGED <<now, ledger, posts, recipe, entry, receipts, count>>

SubmitCountsCommits(r) ==
  /\ Serving(r, "submit_counts")
  /\ \E i \in Ingredients, milli \in Milli :
       count' = [count EXCEPT ![req[r].on].counted[i] = milli]
  /\ End(r)
  /\ UNCHANGED <<now, ledger, posts, recipe, entry, receipts>>

ReceiptTypes == {"GOODS_RECEIVED"}
ConsumptionTypes == {"SALE_CONSUMPTION", "SALE_REVERSAL"}
WastageTypes == {"WASTAGE"}
OtherTypes == Kinds \ (ReceiptTypes \cup ConsumptionTypes \cup WastageTypes)

\* _compute_variances: what the book says should be there at the cut-off.
Expected(i, s) ==
  LET received    == movement_totals(i, ReceiptTypes, s.start, s.cutoff)
      consumption == -movement_totals(i, ConsumptionTypes, s.start, s.cutoff)
      wastage     == -movement_totals(i, WastageTypes, s.start, s.cutoff)
      adjustment  == movement_totals(i, OtherTypes, s.start, s.cutoff)
  IN  stock_on_hand(i, s.start) + received - consumption - wastage + adjustment

\* complete_stocktake reads the counts and the ledger without a lock ...
CompleteReads(r, c) ==
  /\ count[c].status = "DRAFT"
  /\ \A i \in Ingredients : count[c].counted[i] # NotCounted
  /\ Begin(r, [op |-> "complete", on |-> c, counted |-> count[c].counted,
               expected |-> [i \in Ingredients |-> Expected(i, count[c])]])
  /\ UNCHANGED <<now, ledger, posts, recipe, entry, receipts, count>>

\* ... and freezes the variance it computed from them.
CompleteCommits(r) ==
  /\ Serving(r, "complete")
  /\ LET read == req[r]
     IN  count' = [count EXCEPT ![read.on] =
           [@ EXCEPT !.status = "COMPLETED", !.expected = read.expected,
                     !.variance = [i \in Ingredients |->
                                     read.counted[i] - read.expected[i]]]]
  /\ End(r)
  /\ UNCHANGED <<now, ledger, posts, recipe, entry, receipts>>

\* approve_stocktake holds the row's lock: one step.
Approve(c) ==
  /\ count[c].status = "COMPLETED"
  /\ \E post_adjustments \in BOOLEAN :
       LET found == {i \in Ingredients :
                       post_adjustments /\ count[c].variance[i] # 0}
           rows == {Row("STOCKTAKE_ADJUSTMENT", i, count[c].variance[i],
                        count[c].cutoff, c) : i \in found}
       IN  IF found = {} THEN UNCHANGED <<ledger, posts>> ELSE Post(rows)
  /\ count' = [count EXCEPT ![c].status = "APPROVED"]
  /\ UNCHANGED <<now, recipe, entry, receipts, req, calls>>

CancelReads(r, c) ==
  /\ count[c].status \in {"DRAFT", "COMPLETED"}
  /\ Begin(r, [op |-> "cancel", on |-> c])
  /\ UNCHANGED <<now, ledger, posts, recipe, entry, receipts, count>>

\* Mutant: a status the column does not know.
CancelCommitsMisspelt(r) ==
  /\ Serving(r, "cancel")
  /\ count' = [count EXCEPT ![req[r].on].status = "CANCELED"]
  /\ End(r)
  /\ UNCHANGED <<now, ledger, posts, recipe, entry, receipts>>

CancelCommits(r) ==
  /\ Serving(r, "cancel")
  /\ count' = [count EXCEPT ![req[r].on].status = "CANCELLED"]
  /\ End(r)
  /\ UNCHANGED <<now, ledger, posts, recipe, entry, receipts>>

-----------------------------------------------------------------------------
Tick ==
  /\ now < MaxTime
  /\ now' = now + 1
  /\ UNCHANGED <<ledger, posts, recipe, entry, receipts, count, req, calls>>

Reads(r) ==
  \/ \E o \in Orders : ReverseSaleReads(r, o)
  \/ \E x \in Reported : ImportReads(r, x)
  \/ \E d \in Deliveries : GoodsReceiptReads(r, d)
  \/ \E i \in Ingredients : OpeningStockReads(r, i)
  \/ \E w \in Entries : ApproveWastageReads(r, w) \/ RejectWastageReads(r, w)
  \/ \E c \in Counts : OpenReads(r, c) \/ SubmitCountsReads(r, c)
                         \/ CompleteReads(r, c) \/ CancelReads(r, c)

Commits(r) ==
  \/ ReverseSaleCommits(r) \/ ImportCommits(r) \/ GoodsReceiptCommits(r) \/ OpeningStockCommits(r)
  \/ ApproveWastageCommits(r) \/ RejectWastageCommits(r)
  \/ OpenCommits(r) \/ SubmitCountsCommits(r) \/ CompleteCommits(r)
  \/ CancelCommits(r)

Next ==
  \/ Tick \/ EditRecipe
  \/ \E o \in Orders : Sell(o)
  \/ \E i \in Ingredients : Adjust(i)
  \/ \E w \in Entries, i \in Ingredients : RecordWastage(w, i)
  \/ \E c \in Counts : Approve(c)
  \/ \E r \in Requests : Reads(r) \/ Commits(r)

Spec == Init /\ [][Next]_vars

-----------------------------------------------------------------------------
(* What the books promise, whatever the interleaving. *)

SameEvent(m, x) == <<m.kind, m.src, m.item>> = <<x.kind, x.src, x.item>>

\* A sale, its reversal, a delivery, an opening balance, a wastage entry, its
\* rejection and the correction of a count reach the ledger at most once, for
\* all the retries, double taps and stale completions a count can suffer.
BookedOnce ==
  \A m, x \in ledger :
    SameEvent(m, x) /\ m.kind # "MANUAL_ADJUSTMENT" => m = x

\* A reversal gives back exactly what its sale or its wastage entry took, even
\* when the recipe was edited in between.
ReturnsMirror ==
  \A m \in ledger :
    /\ m.kind = "SALE_REVERSAL" =>
         \E x \in ledger : /\ x.kind = "SALE_CONSUMPTION"
                           /\ <<x.src, x.item, -x.milli>> = <<m.src, m.item, m.milli>>
    /\ m.kind = "WASTAGE_REVERSAL" =>
         \E x \in ledger : /\ x.kind = "WASTAGE"
                           /\ <<x.src, x.item, -x.milli>> = <<m.src, m.item, m.milli>>

\* A wastage entry is marked rejected exactly when its stock went back: two
\* managers rejecting at once, or one approving, never separate the two.
RejectionReturnsStock ==
  \A w \in Entries :
    entry[w].rejected <=> \E m \in ledger : m.kind = "WASTAGE_REVERSAL" /\ m.src = w

\* What complete_stocktake computes term by term is the book stock at the
\* cut-off, with a movement on either boundary counted in one period only.
ExpectedIsBook ==
  [][\A r \in Requests :
       req[r] = Idle /\ req'[r].op = "complete" =>
         LET s == count[req'[r].on]
         IN  s.start <= s.cutoff =>
               \A i \in Ingredients :
                 req'[r].expected[i] = stock_on_hand(i, s.cutoff)]_vars

\* "An APPROVED count is immutable" (routes_stocktake.py:11).
ApprovedIsImmutable ==
  [][\A c \in Counts : count[c].status = "APPROVED" => count'[c] = count[c]]_vars
=============================================================================
