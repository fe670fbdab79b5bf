--------------------------- MODULE StockLedgerProofs ---------------------------
(***************************************************************************)
(* What the stock ledger promises, for any number of handlers, orders,     *)
(* wastage entries, deliveries, counts and recipes.                        *)
(*                                                                         *)
(* Only the approval of a count locks a row, so everything else rests on   *)
(* two facts: the ledger only grows, and a transaction one of whose keys   *)
(* is taken leaves nothing behind.  What a handler read may be stale when  *)
(* it commits, but the rows it wants to mirror are still there (UndoOK),   *)
(* and the entry it rejects still has its deduction (ReviewOK).            *)
(***************************************************************************)
EXTENDS StockLedger, TLAPS

\* Rows that do not repeat an event among themselves.
Distinct(rows) == \A m, x \in rows : SameEvent(m, x) => m = x

\* A goods receipt has no key in the ledger: its own table has.
ReceiptsOK == \A m \in ledger : m.kind = "GOODS_RECEIVED" => m.src \in receipts

Deducted(w) == \E m \in ledger : m.kind = "WASTAGE" /\ m.src = w
GivenBack(w) == \E m \in ledger : m.kind = "WASTAGE_REVERSAL" /\ m.src = w

EntryOK(w) ==
  /\ DOMAIN entry[w] = {"recorded", "approved", "rejected"}
  /\ entry[w].recorded => Deducted(w)
  /\ entry[w].rejected \in BOOLEAN
  /\ entry[w].rejected => entry[w].recorded

\* A row a reversal is about to write: the mirror of a sale's row in the ledger.
Mirrors(m, o) ==
  /\ DOMAIN m = {"kind", "item", "milli", "at", "src", "post"}
  /\ m.kind = "SALE_REVERSAL" /\ m.src = o
  /\ \E x \in ledger : /\ x.kind = "SALE_CONSUMPTION" /\ x.src = o
                       /\ m.item = x.item /\ m.milli = -x.milli

UndoOK(r) ==
  Serving(r, "reverse") =>
    /\ \A m \in req[r].undo : Mirrors(m, req[r].on)
    /\ Distinct(req[r].undo)

ReviewOK(r) ==
  Serving(r, "approve_wastage") \/ Serving(r, "reject_wastage") =>
    req[r].on \in Entries /\ entry[req[r].on].recorded

StockInv ==
  /\ BookedOnce /\ ReturnsMirror /\ RejectionReturnsStock
  /\ ReceiptsOK
  /\ DOMAIN entry = Entries /\ \A w \in Entries : EntryOK(w)
  /\ DOMAIN req = Requests /\ \A r \in Requests : UndoOK(r) /\ ReviewOK(r)

-----------------------------------------------------------------------------
(* Transactions *)

\* A transaction whose rows are different events, with keys or a receipt of
\* their own, books nothing twice.
LEMMA PostBooksOnce ==
  ASSUME BookedOnce, NEW rows, Post(rows), Distinct(rows),
         \A m \in rows : m.kind \in Keyed \/ m.kind = "MANUAL_ADJUSTMENT"
                         \/ \A x \in ledger : ~SameEvent(m, x)
  PROVE  BookedOnce'
<1>1. ledger' = ledger \cup rows /\ ~is_idempotency_violation(rows)
  BY DEF Post
<1>2. \A m \in rows, x \in ledger : m.kind # "MANUAL_ADJUSTMENT" => ~SameEvent(m, x)
  BY <1>1 DEF is_idempotency_violation, SameEvent
<1>3. \A m \in rows, x \in ledger : x.kind # "MANUAL_ADJUSTMENT" => ~SameEvent(x, m)
  BY <1>2 DEF SameEvent
<1>. QED
  BY <1>1, <1>2, <1>3 DEF BookedOnce, Distinct

\* Rows other than reversals change nothing about what reversals mirror.
Fresh(rows) ==
  \A m \in rows : m.kind \notin {"SALE_REVERSAL", "WASTAGE_REVERSAL"}

LEMMA PostKeepsMirrors ==
  ASSUME ReturnsMirror, NEW rows, ledger' = ledger \cup rows,
         \A m \in rows :
           /\ m.kind = "SALE_REVERSAL" =>
                \E x \in ledger : /\ x.kind = "SALE_CONSUMPTION"
                                  /\ <<x.src, x.item, -x.milli>> = <<m.src, m.item, m.milli>>
           /\ m.kind = "WASTAGE_REVERSAL" =>
                \E x \in ledger : /\ x.kind = "WASTAGE"
                                  /\ <<x.src, x.item, -x.milli>> = <<m.src, m.item, m.milli>>
  PROVE  ReturnsMirror'
BY DEF ReturnsMirror

\* What handlers read about the ledger stays true while it grows.
LEMMA ReadsLast ==
  ASSUME NEW r \in Requests, UndoOK(r), ReviewOK(r), req'[r] = req[r],
         ledger \subseteq ledger',
         \A w \in Entries : entry[w].recorded => entry'[w].recorded
  PROVE  UndoOK(r)' /\ ReviewOK(r)'
<1>1. \A m, o : Mirrors(m, o) => Mirrors(m, o)'
  BY DEF Mirrors
<1>2. UndoOK(r)'
  <2>1. ASSUME Serving(r, "reverse")
        PROVE  \A m \in req[r].undo : Mirrors(m, req[r].on)'
    BY <1>1, <2>1 DEF UndoOK
  <2>2. ASSUME Serving(r, "reverse")
        PROVE  Distinct(req'[r].undo)
    BY <2>2 DEF UndoOK
  <2>. QED
    BY <2>1, <2>2 DEF UndoOK, Serving, Distinct, SameEvent
<1>3. ReviewOK(r)'
  BY DEF ReviewOK, Serving
<1>. QED
  BY <1>2, <1>3

\* The slot that begins, or ends.
LEMMA SlotMoves ==
  ASSUME StockInv, NEW r \in Requests, NEW read, req' = [req EXCEPT ![r] = read],
         UNCHANGED <<ledger, entry, receipts>>,
         UndoOK(r)', ReviewOK(r)'
  PROVE  StockInv'
<1>1. DOMAIN req' = Requests /\ \A q \in Requests \ {r} : req'[q] = req[q]
  BY DEF StockInv
<1>2. \A q \in Requests \ {r} : UndoOK(q)' /\ ReviewOK(q)'
  BY <1>1, ReadsLast DEF StockInv
<1>3. /\ BookedOnce' /\ ReturnsMirror' /\ RejectionReturnsStock' /\ ReceiptsOK'
      /\ DOMAIN entry' = Entries /\ \A w \in Entries : EntryOK(w)'
  BY DEF StockInv, BookedOnce, ReturnsMirror, RejectionReturnsStock, ReceiptsOK, EntryOK,
     Deducted
<1>. QED
  BY <1>1, <1>2, <1>3 DEF StockInv

LEMMA IdleReads ==
  ASSUME NEW r \in Requests, req'[r] = Idle
  PROVE  UndoOK(r)' /\ ReviewOK(r)'
BY DEF UndoOK, ReviewOK, Serving, Idle

\* Rows that are no reversals, and an entry untouched.
LEMMA FreshPost ==
  ASSUME StockInv, NEW rows, Post(rows), Distinct(rows), Fresh(rows), entry' = entry,
         \A m \in rows : m.kind \in Keyed \/ m.kind = "MANUAL_ADJUSTMENT"
                         \/ \A x \in ledger : ~SameEvent(m, x),
         receipts \subseteq receipts',
         \A m \in rows : m.kind = "GOODS_RECEIVED" => m.src \in receipts',
         \/ req' = req
         \/ \E r \in Requests : req' = [req EXCEPT ![r] = Idle]
  PROVE  StockInv'
<1>1. ledger' = ledger \cup rows
  BY DEF Post
<1>2. BookedOnce'
  BY PostBooksOnce DEF StockInv
<1>3. ReturnsMirror'
  BY <1>1, PostKeepsMirrors DEF StockInv, Fresh
<1>4. RejectionReturnsStock'
  BY <1>1 DEF StockInv, RejectionReturnsStock, Fresh
<1>5. ReceiptsOK'
  BY <1>1 DEF StockInv, ReceiptsOK
<1>6. DOMAIN entry' = Entries /\ \A w \in Entries : EntryOK(w)'
  BY <1>1 DEF StockInv, EntryOK, Deducted
<1>7. DOMAIN req' = Requests /\ \A q \in Requests : req'[q] = req[q] \/ req'[q] = Idle
  BY DEF StockInv
<1>8. \A q \in Requests : UndoOK(q)' /\ ReviewOK(q)'
  BY <1>1, <1>7, ReadsLast, IdleReads DEF StockInv
<1>. QED
  BY <1>2, <1>3, <1>4, <1>5, <1>6, <1>7, <1>8 DEF StockInv

-----------------------------------------------------------------------------
(* Rows *)

LEMMA RowIs ==
  ASSUME NEW kind, NEW i, NEW milli, NEW at, NEW src
  PROVE  /\ Row(kind, i, milli, at, src).kind = kind
         /\ Row(kind, i, milli, at, src).item = i
         /\ Row(kind, i, milli, at, src).milli = milli
         /\ Row(kind, i, milli, at, src).src = src
         /\ DOMAIN Row(kind, i, milli, at, src)
            = {"kind", "item", "milli", "at", "src", "post"}
BY DEF Row

LEMMA KeyedKinds ==
  /\ {"OPENING_BALANCE", "SALE_CONSUMPTION", "SALE_REVERSAL", "WASTAGE",
      "WASTAGE_REVERSAL", "STOCKTAKE_ADJUSTMENT"} \subseteq Keyed
  /\ "GOODS_RECEIVED" \notin Keyed
BY DEF Keyed, Kinds

\* One row alone.
LEMMA OneRow ==
  ASSUME StockInv, NEW kind, NEW i, NEW milli, NEW at, NEW src,
         Post({Row(kind, i, milli, at, src)}), entry' = entry,
         kind \in Keyed \/ kind = "MANUAL_ADJUSTMENT" \/ src \notin receipts,
         kind \in {"OPENING_BALANCE", "GOODS_RECEIVED", "MANUAL_ADJUSTMENT"},
         receipts \subseteq receipts', kind = "GOODS_RECEIVED" => src \in receipts',
         \/ req' = req
         \/ \E r \in Requests : req' = [req EXCEPT ![r] = Idle]
  PROVE  StockInv'
<1>. DEFINE row == Row(kind, i, milli, at, src)
<1>1. row.kind = kind /\ row.src = src
  BY RowIs
<1>2. Post({row})
  OBVIOUS
<1>. HIDE DEF row
<1>3. Distinct({row}) /\ Fresh({row})
  BY <1>1 DEF Distinct, Fresh
<1>4. \A m \in {row} : m.kind \in Keyed \/ m.kind = "MANUAL_ADJUSTMENT"
                       \/ \A x \in ledger : ~SameEvent(m, x)
  BY <1>1, KeyedKinds DEF SameEvent, StockInv, ReceiptsOK
<1>. QED
  BY <1>1, <1>2, <1>3, <1>4, FreshPost

\* Rows of one event, one for each ingredient.
PerItem(kind, src, rows) ==
  /\ \A m \in rows : m.kind = kind /\ m.src = src
  /\ \A m, x \in rows : m.item = x.item => m = x

LEMMA PerItemDistinct ==
  ASSUME NEW kind, NEW src, NEW rows, PerItem(kind, src, rows)
  PROVE  Distinct(rows)
BY DEF PerItem, Distinct, SameEvent

LEMMA ItemsPost ==
  ASSUME StockInv, NEW kind \in {"SALE_CONSUMPTION", "STOCKTAKE_ADJUSTMENT"}, NEW src,
         NEW rows, PerItem(kind, src, rows), Post(rows), UNCHANGED <<entry, receipts>>,
         \/ req' = req
         \/ \E r \in Requests : req' = [req EXCEPT ![r] = Idle]
  PROVE  StockInv'
<1>1. Distinct(rows)
  BY PerItemDistinct
<1>2. \A m \in rows : m.kind \in Keyed /\ m.kind # "GOODS_RECEIVED"
  BY KeyedKinds DEF PerItem
<1>3. Fresh(rows)
  BY DEF PerItem, Fresh
<1>. QED
  BY <1>1, <1>2, <1>3, FreshPost

LEMMA ConsumptionPerItem ==
  ASSUME NEW o, NEW basket, NEW at
  PROVE  PerItem("SALE_CONSUMPTION", o, Consumption(o, basket, at))
<1>. DEFINE needs == {j \in Ingredients : resolve_order(basket, j) > 0}
            row(i) == Row("SALE_CONSUMPTION", i, -resolve_order(basket, i), at, o)
<1>1. Consumption(o, basket, at) = {row(i) : i \in needs}
  BY DEF Consumption
<1>2. \A i \in needs : /\ row(i).kind = "SALE_CONSUMPTION"
                       /\ row(i).src = o /\ row(i).item = i
  BY RowIs
<1>. HIDE DEF needs, row
<1>. QED
  BY <1>1, <1>2 DEF PerItem

-----------------------------------------------------------------------------
(* Sales and reports *)

\* A step that leaves the books alone and ends its request, if it has one.
LEMMA BooksStay ==
  ASSUME StockInv, UNCHANGED <<ledger, entry, receipts>>,
         req' = req \/ \E r \in Requests : req' = [req EXCEPT ![r] = Idle]
  PROVE  StockInv'
<1>1. DOMAIN req' = Requests /\ \A q \in Requests : req'[q] = req[q] \/ req'[q] = Idle
  BY DEF StockInv
<1>2. \A q \in Requests : UndoOK(q)' /\ ReviewOK(q)'
  BY <1>1, ReadsLast, IdleReads DEF StockInv
<1>3. /\ BookedOnce' /\ ReturnsMirror' /\ RejectionReturnsStock' /\ ReceiptsOK'
      /\ DOMAIN entry' = Entries /\ \A w \in Entries : EntryOK(w)'
  BY DEF StockInv, BookedOnce, ReturnsMirror, RejectionReturnsStock, ReceiptsOK, EntryOK,
     Deducted
<1>. QED
  BY <1>1, <1>2, <1>3 DEF StockInv

LEMMA SaleBooked ==
  ASSUME StockInv, NEW o \in Orders, Sell(o)
  PROVE  StockInv'
<1>1. PICK basket \in Baskets : Post(Consumption(o, basket, now))
  BY DEF Sell
<1>. QED
  BY <1>1, ConsumptionPerItem, ItemsPost DEF Sell

LEMMA ReportBooked ==
  ASSUME StockInv, NEW r \in Requests, ImportCommits(r)
  PROVE  StockInv'
<1>1. req' = [req EXCEPT ![r] = Idle] /\ UNCHANGED <<entry, receipts>>
  BY DEF ImportCommits, End
<1>2. CASE Post(Consumption(req[r].on, req[r].basket, req[r].at))
  BY <1>1, <1>2, ConsumptionPerItem, ItemsPost
<1>3. CASE UNCHANGED <<ledger, posts>>
  BY <1>1, <1>3, BooksStay
<1>. QED
  BY <1>2, <1>3 DEF ImportCommits

\* The sale's rows are different events, so are their mirrors.
LEMMA ReversalReads ==
  ASSUME StockInv, NEW r \in Requests, NEW o \in Orders, ReverseSaleReads(r, o)
  PROVE  StockInv'
<1>. DEFINE sold == {m \in Originals(o) : m.item \notin Already(o)}
            undo == {Mirror(m) : m \in sold}
            read == [op |-> "reverse", on |-> o, undo |-> undo]
<1>1. req' = [req EXCEPT ![r] = read] /\ UNCHANGED <<ledger, entry, receipts>>
  BY DEF ReverseSaleReads, Begin
<1>2. \A m \in sold : m \in ledger /\ m.kind = "SALE_CONSUMPTION" /\ m.src = o
  BY DEF Originals
<1>3. \A m \in sold : /\ Mirror(m).kind = "SALE_REVERSAL" /\ Mirror(m).src = o
                      /\ Mirror(m).item = m.item /\ Mirror(m).milli = -m.milli
                      /\ DOMAIN Mirror(m) = {"kind", "item", "milli", "at", "src", "post"}
  BY <1>2, RowIs DEF Mirror
<1>4. read.op = "reverse" /\ read.on = o /\ read.undo = undo
  OBVIOUS
<1>5. req'[r] = read
  BY <1>1 DEF StockInv
<1>. HIDE DEF sold, read
<1>6. \A m, x \in sold : m.item = x.item => m = x
  BY <1>2 DEF StockInv, BookedOnce, SameEvent
<1>7. Distinct(undo)
  BY <1>3, <1>6 DEF Distinct, SameEvent
<1>8. \A m \in undo : Mirrors(m, o)
  BY <1>2, <1>3 DEF Mirrors
<1>. HIDE DEF undo
<1>9. \A m \in undo : Mirrors(m, o)'
  BY <1>1, <1>8 DEF Mirrors
<1>10. UndoOK(r)' /\ ReviewOK(r)'
  BY <1>4, <1>5, <1>7, <1>9 DEF UndoOK, ReviewOK, Serving, Distinct, SameEvent
<1>. QED
  BY <1>1, <1>10, SlotMoves

\* Whatever happened since the request read the sale, its rows are still there;
\* a reversal that overtook it has taken the key.
LEMMA ReversalBooked ==
  ASSUME StockInv, NEW r \in Requests, ReverseSaleCommits(r)
  PROVE  StockInv'
<1>. DEFINE undo == req[r].undo
            rows == {[m EXCEPT !.post = posts] : m \in undo}
<1>1. /\ req' = [req EXCEPT ![r] = Idle] /\ UNCHANGED <<entry, receipts>>
      /\ \A m \in undo : Mirrors(m, req[r].on)
      /\ Distinct(undo)
  BY DEF ReverseSaleCommits, End, StockInv, UndoOK
<1>2. ASSUME Post(rows)
      PROVE  StockInv'
  <2>1. \A m \in undo : /\ [m EXCEPT !.post = posts].kind = "SALE_REVERSAL"
                        /\ [m EXCEPT !.post = posts].src = m.src
                        /\ [m EXCEPT !.post = posts].item = m.item
                        /\ [m EXCEPT !.post = posts].milli = m.milli
                        /\ m.kind = "SALE_REVERSAL"
    BY <1>1 DEF Mirrors
  <2>2. \A n \in rows : \E m \in undo :
          /\ n = [m EXCEPT !.post = posts]
          /\ n.kind = "SALE_REVERSAL" /\ n.src = m.src /\ n.item = m.item
          /\ n.milli = m.milli /\ m.kind = "SALE_REVERSAL"
    BY <2>1
  <2>3. ledger' = ledger \cup rows
    BY <1>2 DEF Post
  <2>. HIDE DEF undo, rows
  <2>4. Distinct(rows)
    BY <1>1, <2>2 DEF Distinct, SameEvent
  <2>5. \A n \in rows : n.kind \in Keyed
    BY <2>2, KeyedKinds
  <2>6. BookedOnce'
    BY <1>2, <2>4, <2>5, PostBooksOnce DEF StockInv
  <2>7. \A n \in rows : n.kind = "SALE_REVERSAL" /\ \E x \in ledger :
          /\ x.kind = "SALE_CONSUMPTION"
          /\ <<x.src, x.item, -x.milli>> = <<n.src, n.item, n.milli>>
    BY <1>1, <2>2 DEF Mirrors
  <2>8. ReturnsMirror'
    BY <2>3, <2>7, PostKeepsMirrors DEF StockInv
  <2>9. RejectionReturnsStock'
    BY <1>1, <2>3, <2>7 DEF StockInv, RejectionReturnsStock
  <2>10. ReceiptsOK'
    BY <1>1, <2>3, <2>7 DEF StockInv, ReceiptsOK
  <2>11. DOMAIN entry' = Entries /\ \A w \in Entries : EntryOK(w)'
    BY <1>1, <2>3 DEF StockInv, EntryOK, Deducted
  <2>12. DOMAIN req' = Requests /\ \A q \in Requests : req'[q] = req[q] \/ req'[q] = Idle
    BY <1>1 DEF StockInv
  <2>13. \A q \in Requests : UndoOK(q)' /\ ReviewOK(q)'
    BY <1>1, <2>3, <2>12, ReadsLast, IdleReads DEF StockInv
  <2>. QED
    BY <2>6, <2>8, <2>9, <2>10, <2>11, <2>12, <2>13 DEF StockInv
<1>3. CASE UNCHANGED <<ledger, posts>>
  BY <1>1, <1>3, BooksStay
<1>. QED
  BY <1>2, <1>3 DEF ReverseSaleCommits

-----------------------------------------------------------------------------
(* Deliveries, opening stock, corrections, counts *)

\* A request that has read, and relies on nothing the ledger says.
LEMMA PlainReads ==
  ASSUME StockInv, NEW r \in Requests, NEW read, Begin(r, read),
         read.op \notin {"reverse", "approve_wastage", "reject_wastage"},
         UNCHANGED <<ledger, entry, receipts>>
  PROVE  StockInv'
<1>1. req' = [req EXCEPT ![r] = read]
  BY DEF Begin
<1>2. req'[r] = read
  BY <1>1 DEF StockInv
<1>3. UndoOK(r)' /\ ReviewOK(r)'
  BY <1>2 DEF UndoOK, ReviewOK, Serving
<1>. QED
  BY <1>1, <1>3, SlotMoves

BeginsAside(r) ==
  \E read : /\ Begin(r, read)
            /\ read.op \notin {"reverse", "approve_wastage", "reject_wastage"}

LEMMA ReadsAside ==
  ASSUME StockInv, NEW r \in Requests,
         \/ \E x \in Reported : ImportReads(r, x)
         \/ \E d \in Deliveries : GoodsReceiptReads(r, d)
         \/ \E i \in Ingredients : OpeningStockReads(r, i)
         \/ \E c \in Counts : \/ OpenReads(r, c) \/ SubmitCountsReads(r, c)
                              \/ CompleteReads(r, c) \/ CancelReads(r, c)
  PROVE  StockInv'
<1>1. BeginsAside(r)
  <2>1. ASSUME NEW x \in Reported, ImportReads(r, x)
        PROVE  BeginsAside(r)
    BY <2>1 DEF BeginsAside, ImportReads
  <2>2. ASSUME NEW d \in Deliveries, GoodsReceiptReads(r, d)
        PROVE  BeginsAside(r)
    BY <2>2 DEF BeginsAside, GoodsReceiptReads
  <2>3. ASSUME NEW i \in Ingredients, OpeningStockReads(r, i)
        PROVE  BeginsAside(r)
    BY <2>3 DEF BeginsAside, OpeningStockReads
  <2>4. ASSUME NEW c \in Counts,
               \/ OpenReads(r, c) \/ SubmitCountsReads(r, c)
               \/ CompleteReads(r, c) \/ CancelReads(r, c)
        PROVE  BeginsAside(r)
    BY <2>4 DEF BeginsAside, OpenReads, SubmitCountsReads, CompleteReads, CancelReads
  <2>. QED
    BY <2>1, <2>2, <2>3, <2>4
<1>2. UNCHANGED <<ledger, entry, receipts>>
  BY DEF ImportReads, GoodsReceiptReads, OpeningStockReads, OpenReads, SubmitCountsReads,
     CompleteReads, CancelReads
<1>. QED
  BY <1>1, <1>2, PlainReads DEF BeginsAside

LEMMA DeliveryBooked ==
  ASSUME StockInv, NEW r \in Requests, GoodsReceiptCommits(r)
  PROVE  StockInv'
<1>1. req' = [req EXCEPT ![r] = Idle] /\ entry' = entry
  BY DEF GoodsReceiptCommits, End
<1>2. CASE /\ req[r].on \notin receipts
           /\ receipts' = receipts \cup {req[r].on}
           /\ \E i \in Ingredients, milli \in Milli \ {0}, at \in Times :
                Post({Row("GOODS_RECEIVED", i, milli, at, req[r].on)})
  <2>1. PICK i \in Ingredients, milli \in Milli \ {0}, at \in Times :
          Post({Row("GOODS_RECEIVED", i, milli, at, req[r].on)})
    BY <1>2
  <2>2. receipts \subseteq receipts' /\ req[r].on \in receipts' /\ req[r].on \notin receipts
    BY <1>2
  <2>. QED
    BY <1>1, <2>1, <2>2, OneRow
<1>3. CASE UNCHANGED <<receipts, ledger, posts>>
  BY <1>1, <1>3, BooksStay
<1>. QED
  BY <1>2, <1>3 DEF GoodsReceiptCommits

LEMMA OpeningBooked ==
  ASSUME StockInv, NEW r \in Requests, OpeningStockCommits(r)
  PROVE  StockInv'
<1>1. req' = [req EXCEPT ![r] = Idle] /\ entry' = entry /\ receipts' = receipts
  BY DEF OpeningStockCommits, End
<1>2. CASE \E milli \in Milli \ {0}, at \in Times :
             Post({Row("OPENING_BALANCE", req[r].on, milli, at, req[r].on)})
  <2>1. PICK milli \in Milli \ {0}, at \in Times :
          Post({Row("OPENING_BALANCE", req[r].on, milli, at, req[r].on)})
    BY <1>2
  <2>. QED
    BY <1>1, <2>1, KeyedKinds, OneRow
<1>3. CASE UNCHANGED <<ledger, posts>>
  BY <1>1, <1>3, BooksStay
<1>. QED
  BY <1>2, <1>3 DEF OpeningStockCommits

LEMMA CorrectionBooked ==
  ASSUME StockInv, NEW i \in Ingredients, Adjust(i)
  PROVE  StockInv'
<1>1. PICK milli \in Milli \ {0}, sign \in {-1, 1} :
        Post({Row("MANUAL_ADJUSTMENT", i, sign * milli, now, i)})
  BY DEF Adjust
<1>. QED
  BY <1>1, OneRow DEF Adjust

LEMMA CountApproved ==
  ASSUME StockInv, NEW c \in Counts, Approve(c)
  PROVE  StockInv'
<1>1. PICK post_adjustments \in BOOLEAN :
        LET found == {i \in Ingredients : post_adjustments /\ count[c].variance[i] # 0}
            rows == {Row("STOCKTAKE_ADJUSTMENT", i, count[c].variance[i],
                         count[c].cutoff, c) : i \in found}
        IN  IF found = {} THEN UNCHANGED <<ledger, posts>> ELSE Post(rows)
  BY DEF Approve
<1>. DEFINE found == {i \in Ingredients : post_adjustments /\ count[c].variance[i] # 0}
            row(i) == Row("STOCKTAKE_ADJUSTMENT", i, count[c].variance[i],
                          count[c].cutoff, c)
            rows == {row(i) : i \in found}
<1>2. UNCHANGED <<entry, receipts, req>>
  BY DEF Approve
<1>3. \A i \in found : /\ row(i).kind = "STOCKTAKE_ADJUSTMENT"
                       /\ row(i).src = c /\ row(i).item = i
  BY RowIs
<1>4. UNCHANGED <<ledger, posts>> \/ Post(rows)
  BY <1>1
<1>5. PerItem("STOCKTAKE_ADJUSTMENT", c, rows)
  <2>. HIDE DEF found, row
  <2>. QED
    BY <1>3 DEF PerItem
<1>. HIDE DEF rows
<1>. QED
  BY <1>2, <1>4, <1>5, ItemsPost, BooksStay

LEMMA CountsMove ==
  ASSUME StockInv, NEW r \in Requests,
         \/ OpenCommits(r) \/ SubmitCountsCommits(r) \/ CompleteCommits(r) \/ CancelCommits(r)
  PROVE  StockInv'
<1>1. req' = [req EXCEPT ![r] = Idle] /\ UNCHANGED <<ledger, entry, receipts>>
  BY DEF OpenCommits, SubmitCountsCommits, CompleteCommits, CancelCommits, End
<1>. QED
  BY <1>1, BooksStay

-----------------------------------------------------------------------------
(* Wastage *)

\* An entry is recorded together with its one deduction.
LEMMA WastageBooked ==
  ASSUME StockInv, NEW w \in Entries, NEW i \in Ingredients, RecordWastage(w, i)
  PROVE  StockInv'
<1>1. PICK milli \in Milli \ {0}, at \in Times : Post({Row("WASTAGE", i, -milli, at, w)})
  BY DEF RecordWastage
<1>2. PICK approved \in BOOLEAN :
        entry' = [entry EXCEPT ![w] = [recorded |-> TRUE, approved |-> approved,
                                       rejected |-> FALSE]]
  BY DEF RecordWastage
<1>3. ~entry[w].recorded /\ UNCHANGED <<receipts, req>>
  BY DEF RecordWastage
<1>. DEFINE row == Row("WASTAGE", i, -milli, at, w)
            new == [recorded |-> TRUE, approved |-> approved, rejected |-> FALSE]
<1>4. row.kind = "WASTAGE" /\ row.src = w
  BY RowIs
<1>5. /\ DOMAIN new = {"recorded", "approved", "rejected"}
      /\ new.recorded = TRUE /\ new.rejected = FALSE
  OBVIOUS
<1>6. /\ DOMAIN entry' = Entries /\ entry'[w] = new
      /\ \A v \in Entries \ {w} : entry'[v] = entry[v]
  BY <1>2 DEF StockInv
<1>7. ledger' = ledger \cup {row} /\ Post({row})
  BY <1>1 DEF Post
<1>. HIDE DEF row, new
<1>8. Distinct({row}) /\ row.kind \in Keyed
  BY <1>4, KeyedKinds DEF Distinct
<1>9. BookedOnce'
  BY <1>7, <1>8, PostBooksOnce DEF StockInv
<1>10. ReturnsMirror'
  <2>1. \A m \in {row} : m.kind = "WASTAGE"
    BY <1>4
  <2>. QED
    BY <1>7, <2>1, PostKeepsMirrors DEF StockInv
<1>11. ReceiptsOK'
  BY <1>3, <1>4, <1>7 DEF StockInv, ReceiptsOK
<1>12. RejectionReturnsStock'
  <2>1. ~entry[w].rejected
    BY <1>3 DEF StockInv, EntryOK
  <2>2. ~GivenBack(w)
    BY <2>1 DEF StockInv, RejectionReturnsStock, GivenBack
  <2>3. \A v \in Entries : GivenBack(v)' <=> GivenBack(v)
    BY <1>4, <1>7 DEF GivenBack
  <2>4. \A v \in Entries : entry'[v].rejected <=> entry[v].rejected
    BY <1>5, <1>6, <2>1 DEF StockInv, EntryOK
  <2>. QED
    BY <2>3, <2>4 DEF StockInv, RejectionReturnsStock, GivenBack
<1>13. \A v \in Entries : EntryOK(v)'
  <2>1. \A v \in Entries : Deducted(v) => Deducted(v)'
    BY <1>7 DEF Deducted
  <2>2. Deducted(w)'
    BY <1>4, <1>7 DEF Deducted
  <2>. QED
    BY <1>5, <1>6, <2>1, <2>2 DEF StockInv, EntryOK
<1>14. \A q \in Requests : UndoOK(q)' /\ ReviewOK(q)'
  <2>1. \A v \in Entries : entry[v].recorded => entry'[v].recorded
    BY <1>5, <1>6
  <2>. QED
    BY <1>3, <1>7, <2>1, ReadsLast DEF StockInv
<1>. QED
  BY <1>3, <1>6, <1>9, <1>10, <1>11, <1>12, <1>13, <1>14 DEF StockInv

LEMMA ReviewReads ==
  ASSUME StockInv, NEW r \in Requests, NEW w \in Entries,
         ApproveWastageReads(r, w) \/ RejectWastageReads(r, w)
  PROVE  StockInv'
<1>1. PICK read : /\ Begin(r, read) /\ read.on = w /\ read.op # "reverse"
  BY DEF ApproveWastageReads, RejectWastageReads
<1>2. UNCHANGED <<ledger, entry, receipts>> /\ entry[w].recorded
  BY DEF ApproveWastageReads, RejectWastageReads, Reviewable
<1>3. req' = [req EXCEPT ![r] = read]
  BY <1>1 DEF Begin
<1>4. req'[r] = read
  BY <1>3 DEF StockInv
<1>5. UndoOK(r)' /\ ReviewOK(r)'
  BY <1>1, <1>2, <1>4 DEF UndoOK, ReviewOK, Serving
<1>. QED
  BY <1>2, <1>3, <1>5, SlotMoves

LEMMA WastageApproved ==
  ASSUME StockInv, NEW r \in Requests, ApproveWastageCommits(r)
  PROVE  StockInv'
<1>1. /\ req' = [req EXCEPT ![r] = Idle] /\ UNCHANGED <<ledger, receipts>>
      /\ entry' = [entry EXCEPT ![req[r].on].approved = TRUE]
      /\ req[r].on \in Entries
  BY DEF ApproveWastageCommits, End, StockInv, ReviewOK
<1>2. DOMAIN entry' = Entries /\ \A v \in Entries :
        /\ DOMAIN entry'[v] = DOMAIN entry[v]
        /\ entry'[v].recorded = entry[v].recorded
        /\ entry'[v].rejected = entry[v].rejected
  BY <1>1 DEF StockInv, EntryOK
<1>3. RejectionReturnsStock'
  BY <1>1, <1>2 DEF StockInv, RejectionReturnsStock
<1>4. \A v \in Entries : EntryOK(v)'
  BY <1>1, <1>2 DEF StockInv, EntryOK, Deducted
<1>5. DOMAIN req' = Requests /\ \A q \in Requests : req'[q] = req[q] \/ req'[q] = Idle
  BY <1>1 DEF StockInv
<1>6. \A q \in Requests : UndoOK(q)' /\ ReviewOK(q)'
  BY <1>1, <1>2, <1>5, ReadsLast, IdleReads DEF StockInv
<1>7. BookedOnce' /\ ReturnsMirror' /\ ReceiptsOK'
  BY <1>1 DEF StockInv, BookedOnce, ReturnsMirror, ReceiptsOK
<1>. QED
  BY <1>2, <1>3, <1>4, <1>5, <1>6, <1>7 DEF StockInv

\* The entry had its deduction, so a row goes back with the flag.
LEMMA WastageRejected ==
  ASSUME StockInv, NEW r \in Requests, RejectWastageCommits(r)
  PROVE  StockInv'
<1>0. PICK w \in Entries : w = req[r].on
  BY DEF RejectWastageCommits, StockInv, ReviewOK
<1>. DEFINE wasted == {x \in ledger : x.kind = "WASTAGE" /\ x.src = w}
            row(m) == Row("WASTAGE_REVERSAL", m.item, -m.milli, now, w)
            rows == {row(m) : m \in wasted}
<1>1. /\ req' = [req EXCEPT ![r] = Idle] /\ receipts' = receipts
      /\ entry[w].recorded
  BY <1>0 DEF RejectWastageCommits, End, StockInv, ReviewOK
<1>2. WastageReversal(w) = rows
  BY DEF WastageReversal
<1>3. CASE UNCHANGED <<entry, ledger, posts>>
  BY <1>1, <1>3, BooksStay
<1>4. ASSUME Post(rows), entry' = [entry EXCEPT ![w].rejected = TRUE]
      PROVE  StockInv'
  <2>1. \A m \in wasted : /\ row(m).kind = "WASTAGE_REVERSAL" /\ row(m).src = w
                          /\ row(m).item = m.item /\ row(m).milli = -m.milli
    BY RowIs
  <2>2. \A m \in wasted : m \in ledger /\ m.kind = "WASTAGE" /\ m.src = w
    OBVIOUS
  <2>3. \E m \in wasted : TRUE
    BY <1>1 DEF StockInv, EntryOK, Deducted
  <2>4. ledger' = ledger \cup rows
    BY <1>4 DEF Post
  <2>. HIDE DEF row, wasted
  <2>5. \A m, x \in wasted : m.item = x.item => m = x
    BY <2>2 DEF StockInv, BookedOnce, SameEvent
  <2>6. \A n \in rows : \E m \in wasted :
          /\ n = row(m) /\ n.kind = "WASTAGE_REVERSAL" /\ n.src = w
          /\ n.item = m.item /\ n.milli = -m.milli
    BY <2>1
  <2>7. \E n \in rows : n.kind = "WASTAGE_REVERSAL" /\ n.src = w
    BY <2>1, <2>3
  <2>. HIDE DEF rows
  <2>8. Distinct(rows)
    BY <2>5, <2>6 DEF Distinct, SameEvent
  <2>9. \A n \in rows : n.kind \in Keyed /\ n.kind = "WASTAGE_REVERSAL"
    BY <2>6, KeyedKinds
  <2>10. BookedOnce'
    BY <1>4, <2>8, <2>9, PostBooksOnce DEF StockInv
  <2>11. \A n \in rows : \E x \in ledger :
           /\ x.kind = "WASTAGE"
           /\ <<x.src, x.item, -x.milli>> = <<n.src, n.item, n.milli>>
    BY <2>2, <2>6
  <2>12. ReturnsMirror'
    BY <2>4, <2>9, <2>11, PostKeepsMirrors DEF StockInv
  <2>13. ReceiptsOK'
    BY <1>1, <2>4, <2>9 DEF StockInv, ReceiptsOK
  <2>14. /\ DOMAIN entry' = Entries /\ entry'[w].rejected = TRUE
         /\ \A v \in Entries : DOMAIN entry'[v] = DOMAIN entry[v]
                               /\ entry'[v].recorded = entry[v].recorded
         /\ \A v \in Entries \ {w} : entry'[v] = entry[v]
    BY <1>1, <1>4 DEF StockInv, EntryOK
  <2>15. RejectionReturnsStock'
    <3>1. GivenBack(w)'
      BY <2>4, <2>7 DEF GivenBack
    <3>2. \A v \in Entries \ {w} : GivenBack(v)' <=> GivenBack(v)
      BY <2>4, <2>6 DEF GivenBack
    <3>3. \A v \in Entries : entry'[v].rejected <=> GivenBack(v)'
      BY <2>14, <3>1, <3>2 DEF StockInv, RejectionReturnsStock, GivenBack
    <3>. QED
      BY <3>3 DEF RejectionReturnsStock, GivenBack
  <2>16. \A v \in Entries : EntryOK(v)'
    <3>1. \A v \in Entries : Deducted(v) => Deducted(v)'
      BY <2>4 DEF Deducted
    <3>. QED
      BY <1>1, <2>14, <3>1 DEF StockInv, EntryOK
  <2>17. DOMAIN req' = Requests /\ \A q \in Requests : req'[q] = req[q] \/ req'[q] = Idle
    BY <1>1 DEF StockInv
  <2>18. \A q \in Requests : UndoOK(q)' /\ ReviewOK(q)'
    BY <2>4, <2>14, <2>17, ReadsLast, IdleReads DEF StockInv
  <2>. QED
    BY <2>10, <2>12, <2>13, <2>14, <2>15, <2>16, <2>17, <2>18 DEF StockInv
<1>. QED
  BY <1>0, <1>2, <1>3, <1>4 DEF RejectWastageCommits

-----------------------------------------------------------------------------
(* The theorems *)

LEMMA StockInit == Init => StockInv
<1>. SUFFICES ASSUME Init
              PROVE  StockInv
  OBVIOUS
<1>1. ledger = {} /\ \A r \in Requests : req[r] = Idle
  BY DEF Init
<1>2. \A w \in Entries : /\ entry[w].recorded = FALSE /\ entry[w].rejected = FALSE
                         /\ DOMAIN entry[w] = {"recorded", "approved", "rejected"}
  BY DEF Init
<1>3. DOMAIN entry = Entries /\ DOMAIN req = Requests
  BY DEF Init
<1>4. BookedOnce /\ ReturnsMirror /\ RejectionReturnsStock /\ ReceiptsOK
  BY <1>1, <1>2 DEF BookedOnce, ReturnsMirror, RejectionReturnsStock, ReceiptsOK
<1>5. \A w \in Entries : EntryOK(w)
  BY <1>2 DEF EntryOK
<1>6. \A r \in Requests : UndoOK(r) /\ ReviewOK(r)
  BY <1>1 DEF UndoOK, ReviewOK, Serving, Idle
<1>. QED
  BY <1>3, <1>4, <1>5, <1>6 DEF StockInv

LEMMA StockNext == StockInv /\ [Next]_vars => StockInv'
<1>. SUFFICES ASSUME StockInv, [Next]_vars
              PROVE  StockInv'
  OBVIOUS
<1>1. CASE UNCHANGED vars
  BY <1>1, BooksStay DEF vars
<1>2. CASE Tick \/ EditRecipe
  BY <1>2, BooksStay DEF Tick, EditRecipe
<1>3. ASSUME NEW r \in Requests, Reads(r)
      PROVE  StockInv'
  BY <1>3, ReversalReads, ReadsAside, ReviewReads DEF Reads
<1>4. ASSUME NEW r \in Requests, Commits(r)
      PROVE  StockInv'
  BY <1>4, ReversalBooked, ReportBooked, DeliveryBooked, OpeningBooked, WastageApproved,
     WastageRejected, CountsMove DEF Commits
<1>. QED
  BY <1>1, <1>2, <1>3, <1>4, SaleBooked, CorrectionBooked, WastageBooked, CountApproved
     DEF Next

\* The invariant of every reachable state: what stale handlers rely on is still
\* true when they commit.
THEOREM StockInvariant == Spec => []StockInv
<1>. QED
  BY StockInit, StockNext, PTL DEF Spec

\* No sale, reversal, delivery, opening balance, wastage entry, rejection or
\* count's correction is booked twice, whatever is retried or interleaved
\* (uq_stock_movements_idempotency_key, the receipts' own unique index).
THEOREM EventsAreBookedOnce == Spec => []BookedOnce
<1>1. StockInv => BookedOnce
  BY DEF StockInv
<1>. QED
  BY <1>1, StockInvariant, PTL

\* A reversal gives back what its sale or its wastage entry took, however often
\* the recipe was edited since (reverse_sale_consumption, reject_wastage).
THEOREM ReversalsMirror == Spec => []ReturnsMirror
<1>1. StockInv => ReturnsMirror
  BY DEF StockInv
<1>. QED
  BY <1>1, StockInvariant, PTL

\* An entry is marked rejected exactly when its stock went back, though its
\* review locks nothing (reject_wastage, approve_wastage).
THEOREM RejectionsReturnStock == Spec => []RejectionReturnsStock
<1>1. StockInv => RejectionReturnsStock
  BY DEF StockInv
<1>. QED
  BY <1>1, StockInvariant, PTL

=============================================================================
