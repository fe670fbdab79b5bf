---------------------------- MODULE DialogueProofs ----------------------------
(***************************************************************************)
(* The conversation for every menu, every cart size, every limit of orders *)
(* and every setting of the shop.                                          *)
(*                                                                         *)
(* No branch is looked at twice: each leaves the orders in one of three    *)
(* ways (Outcome).  It lets them be (Quiet), it finalises or withdraws the *)
(* one order the session remembers (Settles), or it makes the next one     *)
(* (Makes).  What joins them is that a session never remembers an order    *)
(* but the last, and is in a state that asks for a "yes" only while the    *)
(* customer knows the cart.                                                *)
(***************************************************************************)
EXTENDS Dialogue, FiniteSetTheorems, TLAPS

Fields == {"at", "cart", "mode", "name", "phone", "address", "asked", "pending",
           "guessed", "proposed", "alloc", "order", "fee"}

\* The states in which a "yes" may become an order.
Asked == {"CONFIRMING_ORDER", "CHOOSING_ORDER_MODE", "COLLECTING_DETAILS"}

\* The orders are the first n; only the last may be open, and the session
\* knows none but the last.
Placed(n) ==
  /\ n \in 0 .. MaxOrders
  /\ \A o \in Orders : (orders[o] # "none") = (o <= n)
  /\ \A o \in Orders : orders[o] \in Open => o = n
  /\ session.order # NoOrder => session.order = n /\ n \in Orders

OrdersOK == \E n \in Nat : Placed(n)

IInv ==
  /\ DOMAIN session = Fields /\ DOMAIN orders = Orders
  /\ session.at \in Asked => known
  /\ OrdersOK

-----------------------------------------------------------------------------
(* What the operations on a session leave alone.                            *)

\* A session a branch may work on or reply with.
Sound(s) ==
  /\ DOMAIN s = Fields /\ s.order \in {session.order, NoOrder}
  /\ s.at \in Asked => known

Stays(s) == Sound(s) /\ (s.at \in Asked => s.cart = session.cart)

\* A session's record keeps its fields, and the order it remembers.
LEMMA GoesFields ==
  ASSUME NEW s, DOMAIN s = Fields, NEW x
  PROVE  /\ DOMAIN Goes(s, x) = Fields /\ Goes(s, x).order = s.order
         /\ Goes(s, x).at = x /\ Goes(s, x).cart = s.cart
BY DEF Goes, Fields

LEMMA AddFields ==
  ASSUME NEW s, DOMAIN s = Fields, NEW l
  PROVE  /\ DOMAIN Add(s, l) = Fields /\ Add(s, l).order = s.order /\ Add(s, l).at = s.at
BY DEF Add, Fields

LEMMA ClearedFields ==
  ASSUME NEW s, DOMAIN s = Fields
  PROVE  /\ DOMAIN Cleared(s) = Fields /\ Cleared(s).order = NoOrder /\ Cleared(s).at = s.at
BY DEF Cleared, Fields

LEMMA NowFields ==
  ASSUME DOMAIN session = Fields
  PROVE  /\ DOMAIN Now = Fields /\ Now.order = session.order
         /\ Now.at = session.at /\ Now.cart = session.cart
BY DEF Now, Fields

-----------------------------------------------------------------------------
(* What a message leaves.                                                   *)

Turned == DOMAIN session' = Fields /\ (session'.at \in Asked => known')

\* A reply about nothing of the cart keeps what the customer knows, if the cart stays.
LEMMA RepliesTurn ==
  ASSUME NEW s, NEW q, Stays(s), Replies(s, q)
  PROVE  Turned /\ session'.order \in {session.order, NoOrder}
BY DEF Stays, Sound, Replies, Turned

LEMMA AnnouncesTurn ==
  ASSUME NEW s, NEW q, Sound(s), Announces(s, q)
  PROVE  Turned /\ session'.order \in {session.order, NoOrder}
BY DEF Sound, Announces, Turned

\* After the whole cart was shown, it is known.
LEMMA ShowsTurn ==
  ASSUME NEW s, NEW q, DOMAIN s = Fields, Shows(s, q)
  PROVE  Turned /\ session'.order = s.order
BY DEF Shows, Turned

\* How a message may leave the orders.
Quiet == orders' = orders /\ session'.order \in {session.order, NoOrder}

Settles ==
  /\ session.order # NoOrder /\ session'.order = NoOrder
  /\ \E status \in {"NEW", "CLOSED"} : orders' = [orders EXCEPT ![session.order] = status]

Makes ==
  /\ known /\ ~LimitReached
  /\ \E status \in Open : Creates(status)
  /\ session'.order \in {NoOrder, IF LastOrder = NoOrder THEN 1 ELSE LastOrder + 1}

Outcome == Turned /\ (Quiet \/ Settles \/ Makes)

-----------------------------------------------------------------------------
(* The branches.                                                            *)

LEMMA SummaryTurn ==
  ASSUME NEW s, DOMAIN s = Fields, Summary(s)
  PROVE  Turned /\ session'.order = s.order
BY GoesFields, ShowsTurn DEF Summary

LEMMA ReducedTurn ==
  ASSUME NEW s, DOMAIN s = Fields, Reduced(s)
  PROVE  Turned /\ session'.order = s.order
BY GoesFields, ShowsTurn, SummaryTurn DEF Reduced

LEMMA CancelledTurn ==
  ASSUME NEW s, DOMAIN s = Fields, CancelledCart(s)
  PROVE  Turned /\ session'.order = NoOrder
BY GoesFields, ClearedFields, ShowsTurn DEF CancelledCart

LEMMA CommitsTurn ==
  ASSUME NEW s, DOMAIN s = Fields, NEW ls, Commits(s, ls)
  PROVE  Turned /\ session'.order = s.order
<1> DEFINE t == [s EXCEPT !.cart = [l \in Lines |-> @[l] + Cardinality({i \in DOMAIN ls : ls[i] = l})],
                          !.pending = NoLine, !.guessed = FALSE, !.proposed = NoLine]
<1>1. DOMAIN t = Fields /\ t.order = s.order
  BY DEF Fields
<1>2. Summary(t)
  BY DEF Commits
<1> HIDE DEF t
<1> QED
  BY <1>1, <1>2, SummaryTurn

\* The branches that make no order, one by one.
LEMMA GateOutcome ==
  ASSUME NEW s, Stays(s), ConfirmGate(s)
  PROVE  Outcome
BY RepliesTurn, SummaryTurn DEF ConfirmGate, NoOrders, Stays, Sound, Outcome, Quiet

LEMMA HandOffOutcome ==
  ASSUME NEW s, Sound(s), HandsOff(s)
  PROVE  Outcome
<1>1. Stays(Goes(s, "HANDOFF"))
  BY GoesFields DEF Sound, Stays, Asked
<1> QED
  BY <1>1, RepliesTurn DEF HandsOff, NoOrders, Outcome, Quiet

\* A reply that asks the customer for nothing keeps the orders.
LEMMA AsideOutcome ==
  ASSUME NEW s, NEW x, NEW q, Sound(s), x \notin Asked, NoOrders, Replies(Goes(s, x), q)
  PROVE  Outcome
<1>1. Stays(Goes(s, x))
  BY GoesFields DEF Sound, Stays
<1> QED
  BY <1>1, RepliesTurn DEF NoOrders, Outcome, Quiet

LEMMA VariantOutcome ==
  ASSUME NEW s, NEW m, Stays(s), VariantReply(s, m)
  PROVE  Outcome
<1>0. orders' = orders /\ DOMAIN s = Fields /\ Sound(s)
  BY DEF VariantReply, NoOrders, Stays, Sound
<1>1. CASE Negation(m)
  <2>1. Stays([s EXCEPT !.alloc = 0])
    BY DEF Stays, Sound, Fields
  <2> QED
    BY <1>0, <1>1, <2>1, RepliesTurn DEF VariantReply, Outcome, Quiet
<1>2. CASE ~Negation(m) /\ m.line \in Variants
  <2> DEFINE t == [Add(s, m.line) EXCEPT !.alloc = @ - 1]
  <2>1. DOMAIN t = Fields /\ t.order = s.order /\ t.at = s.at
    BY <1>0, AddFields DEF Fields
  <2>2. Summary(t) \/ Announces(t, "variant")
    BY <1>2 DEF VariantReply
  <2> HIDE DEF t
  <2>3. Sound(t)
    BY <1>0, <2>1 DEF Sound
  <2> QED
    BY <1>0, <2>1, <2>2, <2>3, SummaryTurn, AnnouncesTurn DEF Outcome, Quiet, Sound
<1>3. CASE ~Negation(m) /\ m.line \notin Variants
  <2>1. PICK l : Announces(Add(s, l), "variant")
    BY <1>3 DEF VariantReply
  <2>2. Sound(Add(s, l))
    BY <1>0, AddFields DEF Sound
  <2> QED
    BY <1>0, <2>1, <2>2, AnnouncesTurn DEF Outcome, Quiet
<1> QED
  BY <1>1, <1>2, <1>3

LEMMA GreetsOutcome ==
  ASSUME NEW s, NEW m, Stays(s), Greets(s, m)
  PROVE  Outcome
<1>1. DOMAIN s = Fields /\ Sound(s) /\ NoOrders /\ orders' = orders
  BY DEF Stays, Sound, Greets, NoOrders
<1>2. CASE m.line = NoLine
  BY <1>1, <1>2, AsideOutcome DEF Greets, Asked
<1>3. CASE m.line # NoLine
  <2>1. Summary(Add(s, m.line))
    BY <1>3 DEF Greets
  <2> QED
    BY <1>1, <2>1, AddFields, SummaryTurn DEF Sound, Outcome, Quiet
<1> QED
  BY <1>2, <1>3

LEMMA MenuOutcome ==
  ASSUME NEW s, Stays(s), ShowsMenu(s)
  PROVE  Outcome
<1>1. Sound(s) /\ NoOrders /\ orders' = orders
  BY DEF Stays, ShowsMenu, NoOrders
<1>2. Replies(s, "none") \/ Replies(Goes(s, "BROWSING_MENU"), "none")
  BY DEF ShowsMenu
<1> QED
  BY <1>1, <1>2, AsideOutcome, RepliesTurn DEF Asked, Outcome, Quiet

LEMMA CancelsOutcome ==
  ASSUME NEW s, Sound(s), Cancels(s)
  PROVE  Outcome
<1>1. DOMAIN s = Fields /\ NoOrders /\ orders' = orders
  BY DEF Sound, Cancels, NoOrders
<1>2. Shows(Goes(Cleared(s), "IDLE"), "none") \/ CancelledCart(s)
  BY DEF Cancels
<1> QED
  BY <1>1, <1>2, ClearedFields, GoesFields, ShowsTurn, CancelledTurn DEF Outcome, Quiet

LEMMA ReplacesOutcome ==
  ASSUME NEW s, Stays(s), ReplacesPlaced(s)
  PROVE  Outcome
<1>1. Sound(s) /\ NoOrders /\ orders' = orders
  BY DEF Stays, ReplacesPlaced, NoOrders
<1>2. Replies(s, "none") \/ Replies(Goes(s, "BUILDING_CART"), "none")
  BY DEF ReplacesPlaced
<1> QED
  BY <1>1, <1>2, AsideOutcome, RepliesTurn DEF Asked, Outcome, Quiet

-----------------------------------------------------------------------------
(* Placing the order.                                                       *)

\* _handle_order_confirmation asks, refuses, or makes an order of a known cart.
LEMMA ConfirmationOutcome ==
  ASSUME IInv, NEW s0, Sound(s0), s0.cart = session.cart, known, OrderConfirmation(s0)
  PROVE  Outcome
<1> DEFINE s == IF s0.mode = "none" THEN [s0 EXCEPT !.mode = "PICKUP"] ELSE s0
<1> DEFINE Asks(t, q) == Replies(Goes(t, "COLLECTING_DETAILS"), q) /\ UNCHANGED orders
<1>1. DOMAIN s0 = Fields /\ s0.order \in {session.order, NoOrder}
  BY DEF Sound
<1>2. DOMAIN s = Fields /\ s.order = s0.order /\ s.at = s0.at /\ s.cart = s0.cart
  BY <1>1 DEF Fields
<1>3. \/ Replies(Goes(s0, "CHOOSING_ORDER_MODE"), "mode") /\ UNCHANGED orders
      \/ Asks(s, "name") \/ Asks(s, "phone") \/ Asks(s, "address")
      \/ Asks(NotesAsked(s), "notes")
      \/ Replies(s, "limit") /\ UNCHANGED orders
      \/ UNCHANGED <<session, orders, known, told>>
      \/ ~LimitReached /\ (Parks(s) \/ Places(s))
  BY DEF OrderConfirmation
<1> HIDE DEF s
<1>4. DOMAIN NotesAsked(s) = Fields /\ NotesAsked(s).order = s.order
      /\ NotesAsked(s).cart = s.cart
  BY <1>2 DEF NotesAsked, Fields
<1> HIDE DEF Asks
<1>5. ASSUME NEW t, DOMAIN t = Fields, t.order = s.order, t.cart = session.cart, NEW q, Asks(t, q)
      PROVE  Outcome
  <2>1. Stays(Goes(t, "COLLECTING_DETAILS"))
    BY <1>1, <1>2, <1>5, GoesFields DEF Stays, Sound
  <2> QED
    BY <1>5, <2>1, RepliesTurn DEF Asks, Outcome, Quiet
<1>6. CASE Replies(Goes(s0, "CHOOSING_ORDER_MODE"), "mode") /\ UNCHANGED orders
  <2>1. Stays(Goes(s0, "CHOOSING_ORDER_MODE"))
    BY <1>1, GoesFields DEF Stays, Sound
  <2> QED
    BY <1>6, <2>1, RepliesTurn DEF Outcome, Quiet
<1>7. CASE Asks(s, "name") \/ Asks(s, "phone") \/ Asks(s, "address") \/ Asks(NotesAsked(s), "notes")
  BY <1>2, <1>4, <1>5, <1>7
<1>8. CASE Replies(s, "limit") /\ UNCHANGED orders
  <2>1. Stays(s)
    BY <1>1, <1>2 DEF Stays, Sound
  <2> QED
    BY <1>8, <2>1, RepliesTurn DEF Outcome, Quiet
<1>9. CASE UNCHANGED <<session, orders, known, told>>
  BY <1>9 DEF IInv, Outcome, Turned, Quiet
<1>10. CASE ~LimitReached /\ Parks(s)
  <2>1. PICK new : /\ new = IF LastOrder = NoOrder THEN 1 ELSE LastOrder + 1
                   /\ Shows([Cleared(s) EXCEPT !.order = new, !.at = "WAITING_DELIVERY_FEE_APPROVAL"],
                            "fee later")
    BY <1>10 DEF Parks
  <2>2. DOMAIN Cleared(s) = Fields
    BY <1>2, ClearedFields
  <2> DEFINE t == [Cleared(s) EXCEPT !.order = new, !.at = "WAITING_DELIVERY_FEE_APPROVAL"]
  <2>3. DOMAIN t = Fields /\ t.order = new
    BY <2>2 DEF Fields
  <2> HIDE DEF t
  <2>4. Shows(t, "fee later")
    BY <2>1 DEF t
  <2>5. Turned /\ session'.order = new
    BY <2>3, <2>4, ShowsTurn
  <2>6. Creates("PENDING_DELIVERY_FEE") /\ "PENDING_DELIVERY_FEE" \in Open
    BY <1>10 DEF Parks, Open
  <2> QED
    BY <1>10, <2>1, <2>5, <2>6 DEF Outcome, Makes
<1>11. CASE ~LimitReached /\ Places(s)
  <2>1. Turned /\ session'.order = NoOrder
    BY <1>2, <1>11, ClearedFields, GoesFields, ShowsTurn DEF Places
  <2>2. Creates("NEW") /\ "NEW" \in Open
    BY <1>11 DEF Places, Open
  <2> QED
    BY <1>11, <2>1, <2>2 DEF Outcome, Makes
<1> QED
  BY <1>3, <1>6, <1>7, <1>8, <1>9, <1>10, <1>11

\* Only the order the session remembers is finalised.
LEMMA FinalisesOutcome ==
  ASSUME NEW s, Stays(s), Finalises(s)
  PROVE  Outcome
<1>1. DOMAIN s = Fields /\ s.order \in {session.order, NoOrder}
  BY DEF Stays, Sound
<1>2. CASE s.order = NoOrder
  BY <1>2, RepliesTurn DEF Finalises, Outcome, Quiet
<1>3. CASE s.order # NoOrder
  <2>1. Shows(Goes(Cleared(s), "ORDER_PLACED"), "placed")
        /\ orders' = [orders EXCEPT ![s.order] = "NEW"]
    BY <1>3 DEF Finalises
  <2>2. Turned /\ session'.order = NoOrder
    BY <1>1, <2>1, ClearedFields, GoesFields, ShowsTurn
  <2>3. s.order = session.order
    BY <1>1, <1>3
  <2> QED
    BY <1>3, <2>1, <2>2, <2>3 DEF Outcome, Settles
<1> QED
  BY <1>2, <1>3

LEMMA DetailsOutcome ==
  ASSUME IInv, NEW s, Sound(s), s.cart = session.cart, known, NextAfterDetails(s)
  PROVE  Outcome
BY FinalisesOutcome, ConfirmationOutcome DEF NextAfterDetails, Stays

-----------------------------------------------------------------------------
(* Dishes by name, by the rules or by the model.                            *)

\* What a turn that makes no order leaves.
Talks == Turned /\ session'.order \in {session.order, NoOrder}

\* No sentence about dishes touches an order.
LEMMA NamedTalks ==
  ASSUME NEW s, NEW m, Sound(s), AddsNamed(s, m)
  PROVE  Talks
<1>0. DOMAIN s = Fields /\ s.order \in {session.order, NoOrder}
  BY DEF Sound
<1>1. CASE Missing(m.line)
  <2>1. DOMAIN Add(s, m.also) = Fields /\ Add(s, m.also).order = s.order
    BY <1>0, AddFields
  <2>2. DOMAIN AsksOption(s, m.line, m.also) = Fields
        /\ AsksOption(s, m.line, m.also).order = s.order
        /\ AsksOption(s, m.line, m.also).at = "CHOOSING_OPTIONS"
    BY <2>1 DEF AsksOption, Fields
  <2>3. Stays(AsksOption(s, m.line, m.also))
    BY <1>0, <2>2 DEF Stays, Sound, Asked
  <2> QED
    BY <1>1, <2>3, RepliesTurn DEF AddsNamed, Talks
<1>2. CASE ~Missing(m.line)
  <2>1. DOMAIN Add(s, m.line) = Fields /\ Add(s, m.line).order = s.order
    BY <1>0, AddFields
  <2>2. DOMAIN Add(Add(s, m.line), m.also) = Fields /\ Add(Add(s, m.line), m.also).order = s.order
    BY <2>1, AddFields
  <2> QED
    BY <1>0, <1>2, <2>2, SummaryTurn DEF AddsNamed, Talks
<1> QED
  BY <1>1, <1>2

LEMMA VariantTalks ==
  ASSUME NEW s, NEW m, Sound(s), AsksVariant(s, m)
  PROVE  Talks
<1>1. PICK n : Announces([Add(s, m.also) EXCEPT !.alloc = n], "variant")
  BY DEF AsksVariant
<1> DEFINE t == [Add(s, m.also) EXCEPT !.alloc = n]
<1>2. DOMAIN t = Fields /\ t.order = s.order /\ t.at = s.at
  BY AddFields DEF Sound, Fields
<1> HIDE DEF t
<1>3. Sound(t)
  BY <1>2 DEF Sound
<1> QED
  BY <1>1, <1>3, AnnouncesTurn DEF t, Talks

LEMMA RemovesTalks ==
  ASSUME NEW s, NEW m, Sound(s), Removes(s, m)
  PROVE  Talks
<1> DEFINE t == [s EXCEPT !.pending = NoLine, !.guessed = FALSE]
<1>0. s.order \in {session.order, NoOrder}
  BY DEF Sound
<1>1. DOMAIN t = Fields /\ t.order = s.order
  BY DEF Sound, Fields
<1>2. \/ \E l : Summary(Add(t, l))
      \/ \E l, n : Reduced([TakesOff(t, l, n) EXCEPT !.proposed = NoLine])
  BY DEF Removes
<1> HIDE DEF t
<1>3. CASE \E l : Summary(Add(t, l))
  BY <1>0, <1>1, <1>3, AddFields, SummaryTurn DEF Talks
<1>4. CASE \E l, n : Reduced([TakesOff(t, l, n) EXCEPT !.proposed = NoLine])
  <2>1. PICK l, n : Reduced([TakesOff(t, l, n) EXCEPT !.proposed = NoLine])
    BY <1>4
  <2> DEFINE u == [TakesOff(t, l, n) EXCEPT !.proposed = NoLine]
  <2>2. DOMAIN u = Fields /\ u.order = t.order
    BY <1>1 DEF TakesOff, Fields
  <2> HIDE DEF u
  <2>3. Reduced(u)
    BY <2>1 DEF u
  <2> QED
    BY <1>0, <1>1, <2>2, <2>3, ReducedTurn DEF Talks
<1> QED
  BY <1>2, <1>3, <1>4

LEMMA RewordsTalks ==
  ASSUME NEW s, NEW m, Sound(s), Rewords(s, m) \/ SetsQuantity(s, m)
  PROVE  Talks
<1>0. DOMAIN s = Fields /\ s.order \in {session.order, NoOrder}
  BY DEF Sound
<1>1. CASE Rewords(s, m)
  <2>1. PICK l, at, n : Shows(Goes(Reworded(s, l, n), at), "confirm")
    BY <1>1 DEF Rewords
  <2>2. DOMAIN Reworded(s, l, n) = Fields /\ Reworded(s, l, n).order = s.order
    BY <1>0 DEF Reworded, Fields
  <2> QED
    BY <1>0, <2>1, <2>2, GoesFields, ShowsTurn DEF Talks
<1>2. CASE SetsQuantity(s, m)
  <2>1. PICK l, n : Shows([s EXCEPT !.cart[l] = n], "confirm")
    BY <1>2 DEF SetsQuantity
  <2> DEFINE t == [s EXCEPT !.cart[l] = n]
  <2>2. DOMAIN t = Fields /\ t.order = s.order
    BY <1>0 DEF Fields
  <2> HIDE DEF t
  <2>3. Shows(t, "confirm")
    BY <2>1 DEF t
  <2> QED
    BY <1>0, <2>2, <2>3, ShowsTurn DEF Talks
<1> QED
  BY <1>1, <1>2

\* Whatever the language model answers.
LEMMA ModelTalks ==
  ASSUME NEW s, NEW old, NEW intent, Stays(s), Stays(old), NoOrders, ModelAnswers(s, old, intent)
  PROVE  Talks
<1>0. Sound(s) /\ DOMAIN s = Fields /\ s.order \in {session.order, NoOrder}
  BY DEF Stays, Sound
<1>1. CASE ModelFails(old)
  BY <1>1, RepliesTurn DEF ModelFails, Talks
<1>2. CASE ModelAdds(s)
  <2>1. PICK l, p : Summary([Add(s, l) EXCEPT !.pending = p])
    BY <1>2 DEF ModelAdds
  <2> DEFINE t == [Add(s, l) EXCEPT !.pending = p]
  <2>2. DOMAIN t = Fields /\ t.order = s.order
    BY <1>0, AddFields DEF Fields
  <2> HIDE DEF t
  <2>3. Summary(t)
    BY <2>1 DEF t
  <2> QED
    BY <1>0, <2>2, <2>3, SummaryTurn DEF Talks
<1>3. CASE ModelRemoves(s)
  <2>1. PICK l, n : Reduced(TakesOff(s, l, n))
    BY <1>3 DEF ModelRemoves
  <2>2. DOMAIN TakesOff(s, l, n) = Fields /\ TakesOff(s, l, n).order = s.order
    BY <1>0 DEF TakesOff, Fields
  <2> QED
    BY <1>0, <2>1, <2>2, ReducedTurn DEF Talks
<1>4. CASE ModelReplaces(s)
  <2>1. PICK l, n, new : Summary([Add(TakesOff(s, l, n), new) EXCEPT !.pending = NoLine])
    BY <1>4 DEF ModelReplaces
  <2>2. DOMAIN TakesOff(s, l, n) = Fields /\ TakesOff(s, l, n).order = s.order
    BY <1>0 DEF TakesOff, Fields
  <2> DEFINE t == [Add(TakesOff(s, l, n), new) EXCEPT !.pending = NoLine]
  <2>3. DOMAIN t = Fields /\ t.order = s.order
    BY <2>2, AddFields DEF Fields
  <2> HIDE DEF t
  <2>4. Summary(t)
    BY <2>1 DEF t
  <2> QED
    BY <1>0, <2>3, <2>4, SummaryTurn DEF Talks
<1>5. CASE ModelRecommends(s)
  <2>1. Stays(Goes(s, "BROWSING_MENU"))
    BY <1>0, GoesFields DEF Stays, Sound, Asked
  <2> QED
    BY <1>5, <2>1, RepliesTurn DEF ModelRecommends, Talks
<1>6. ASSUME NEW t, DOMAIN t = Fields, t.order = s.order, t.at = "CHOOSING_OPTIONS", NEW q, Replies(t, q)
      PROVE  Talks
  <2>1. Stays(t)
    BY <1>0, <1>6 DEF Stays, Sound, Asked
  <2> QED
    BY <1>6, <2>1, RepliesTurn DEF Talks
<1> DEFINE c == Goes(s, "CHOOSING_OPTIONS")
<1>7. DOMAIN c = Fields /\ c.order = s.order /\ c.at = "CHOOSING_OPTIONS"
  BY <1>0, GoesFields
<1>8. CASE ModelAsksOption(s)
  <2>1. Replies(c, "option") \/ \E l : Replies([c EXCEPT !.pending = l, !.guessed = TRUE], "option")
    BY <1>8 DEF ModelAsksOption
  <2> HIDE DEF c
  <2>2. ASSUME NEW l, Replies([c EXCEPT !.pending = l, !.guessed = TRUE], "option")
        PROVE  Talks
    <3> DEFINE t == [c EXCEPT !.pending = l, !.guessed = TRUE]
    <3>1. DOMAIN t = Fields /\ t.order = c.order /\ t.at = c.at
      BY <1>7 DEF Fields
    <3> HIDE DEF t
    <3>2. Replies(t, "option")
      BY <2>2 DEF t
    <3> QED
      BY <1>6, <1>7, <3>1, <3>2
  <2> QED
    BY <1>6, <1>7, <2>1, <2>2
<1>9. CASE ConfirmGate(s)
  BY <1>9, RepliesTurn, SummaryTurn, <1>0 DEF ConfirmGate, Talks
<1>10. CASE CancelledCart(s)
  BY <1>0, <1>10, CancelledTurn DEF Talks
<1>11. CASE HandsOff(s)
  <2>1. Stays(Goes(s, "HANDOFF"))
    BY <1>0, GoesFields DEF Stays, Sound, Asked
  <2> QED
    BY <1>11, <2>1, RepliesTurn DEF HandsOff, Talks
<1>12. CASE ModelChats(s, old, intent)
  <2>1. Replies(s, "none") \/ \E l : Replies([c EXCEPT !.proposed = l], "none")
    BY <1>12 DEF ModelChats
  <2> HIDE DEF c
  <2>2. ASSUME NEW l, Replies([c EXCEPT !.proposed = l], "none")
        PROVE  Talks
    <3> DEFINE t == [c EXCEPT !.proposed = l]
    <3>1. DOMAIN t = Fields /\ t.order = c.order /\ t.at = c.at
      BY <1>7 DEF Fields
    <3> HIDE DEF t
    <3>2. Replies(t, "none")
      BY <2>2 DEF t
    <3> QED
      BY <1>6, <1>7, <3>1, <3>2
  <2> QED
    BY <2>1, <2>2, RepliesTurn DEF Talks
<1> QED
  BY <1>1, <1>2, <1>3, <1>4, <1>5, <1>8, <1>9, <1>10, <1>11, <1>12 DEF ModelAnswers

\* _handle_with_llm makes no order.
LEMMA OrderingOutcome ==
  ASSUME NEW s, NEW old, NEW intent, NEW m, Stays(s), Stays(old), Ordering(s, old, intent, m)
  PROVE  Outcome
<1>1. Talks
  BY NamedTalks, VariantTalks, RemovesTalks, RewordsTalks, ModelTalks DEF Ordering, Stays
<1> QED
  BY <1>1 DEF Ordering, NoOrders, Talks, Outcome, Quiet

-----------------------------------------------------------------------------
(* The branches of a state.                                                 *)

\* The session as a message finds it.
Found(s) ==
  /\ DOMAIN s = Fields /\ s.order = session.order
  /\ s.at = session.at /\ s.cart = session.cart

LEMMA FoundStays ==
  ASSUME IInv, NEW s, Found(s)
  PROVE  Stays(s)
BY DEF IInv, Found, Stays, Sound

LEMMA ConfirmingOutcome ==
  ASSUME IInv, NEW s, NEW m, Found(s), s.at = "CONFIRMING_ORDER", Confirming(s, m)
  PROVE  Outcome
<1>0. Stays(s) /\ Sound(s) /\ DOMAIN s = Fields /\ known
  BY FoundStays DEF Stays, Sound, Found, IInv, Asked
<1>1. \/ \E t \in {s, [s EXCEPT !.mode = "DELIVERY"]} : OrderConfirmation(t)
      \/ NoOrders /\ CancelledCart(s)
      \/ NoOrders /\ Replies(Goes(s, "BUILDING_CART"), "none")
      \/ Ordering(Goes(Cleared(s), "BUILDING_CART"), s, "ORDER_START", m)
  BY DEF Confirming
<1>2. CASE \E t \in {s, [s EXCEPT !.mode = "DELIVERY"]} : OrderConfirmation(t)
  <2>1. PICK t \in {s, [s EXCEPT !.mode = "DELIVERY"]} : OrderConfirmation(t)
    BY <1>2
  <2>2. DOMAIN t = Fields /\ t.order = s.order /\ t.at = s.at /\ t.cart = s.cart
    BY <1>0, <2>1 DEF Fields
  <2>3. Sound(t) /\ t.cart = session.cart
    BY <1>0, <2>2 DEF Sound, Found
  <2> QED
    BY <1>0, <2>1, <2>3, ConfirmationOutcome
<1>3. CASE NoOrders /\ CancelledCart(s)
  BY <1>0, <1>3, CancelledTurn DEF NoOrders, Outcome, Quiet
<1>4. CASE NoOrders /\ Replies(Goes(s, "BUILDING_CART"), "none")
  BY <1>0, <1>4, AsideOutcome DEF Asked
<1>5. CASE Ordering(Goes(Cleared(s), "BUILDING_CART"), s, "ORDER_START", m)
  <2>1. Stays(Goes(Cleared(s), "BUILDING_CART"))
    BY <1>0, ClearedFields, GoesFields DEF Stays, Sound, Asked
  <2> QED
    BY <1>0, <1>5, <2>1, OrderingOutcome
<1> QED
  BY <1>1, <1>2, <1>3, <1>4, <1>5

LEMMA OptionsOutcome ==
  ASSUME IInv, NEW s, NEW m, Found(s), ChoosingOptions(s, m)
  PROVE  Outcome
<1>0. Stays(s) /\ DOMAIN s = Fields /\ s.order = session.order
  BY FoundStays DEF Found
<1>1. \/ NoOrders /\ \E ls : Commits(s, ls)
      \/ NoOrders /\ Replies([Goes(s, "IDLE") EXCEPT !.pending = NoLine], "none")
      \/ Ordering(s, s, Intent[m], m)
  BY DEF ChoosingOptions
<1>2. CASE NoOrders /\ \E ls : Commits(s, ls)
  BY <1>0, <1>2, CommitsTurn DEF NoOrders, Outcome, Quiet
<1>3. CASE NoOrders /\ Replies([Goes(s, "IDLE") EXCEPT !.pending = NoLine], "none")
  <2> DEFINE t == [Goes(s, "IDLE") EXCEPT !.pending = NoLine]
  <2>1. DOMAIN t = Fields /\ t.order = s.order /\ t.at = "IDLE"
    BY <1>0, GoesFields DEF Fields
  <2> HIDE DEF t
  <2>2. Stays(t)
    BY <1>0, <2>1 DEF Stays, Sound, Asked
  <2>3. Replies(t, "none")
    BY <1>3 DEF t
  <2> QED
    BY <1>3, <2>2, <2>3, RepliesTurn DEF NoOrders, Outcome, Quiet
<1>4. CASE Ordering(s, s, Intent[m], m)
  BY <1>0, <1>4, OrderingOutcome
<1> QED
  BY <1>1, <1>2, <1>3, <1>4

LEMMA ModeOutcome ==
  ASSUME IInv, NEW s, NEW m, Found(s), s.at = "CHOOSING_ORDER_MODE", ChoosesMode(s, m)
  PROVE  Outcome
<1>0. Stays(s) /\ DOMAIN s = Fields /\ s.order = session.order /\ s.cart = session.cart /\ known
  BY FoundStays DEF Found, IInv, Asked
<1> DEFINE c == Goes(s, "CONFIRMING_ORDER")
<1>1. DOMAIN c = Fields /\ c.order = session.order /\ c.cart = session.cart
  BY <1>0, GoesFields
<1>2. (\E x : OrderConfirmation([c EXCEPT !.mode = x]))
      \/ (UNCHANGED orders /\ Replies(s, "mode"))
  BY DEF ChoosesMode
<1> HIDE DEF c
<1>3. CASE \E x : OrderConfirmation([c EXCEPT !.mode = x])
  <2>1. PICK x : OrderConfirmation([c EXCEPT !.mode = x])
    BY <1>3
  <2> DEFINE t == [c EXCEPT !.mode = x]
  <2>2. DOMAIN t = Fields /\ t.order = session.order /\ t.cart = session.cart
    BY <1>1 DEF Fields
  <2> HIDE DEF t
  <2>3. Sound(t) /\ OrderConfirmation(t)
    BY <1>0, <2>1, <2>2 DEF Sound, t
  <2> QED
    BY <1>0, <2>2, <2>3, ConfirmationOutcome
<1>4. CASE UNCHANGED orders /\ Replies(s, "mode")
  BY <1>0, <1>4, RepliesTurn DEF Outcome, Quiet
<1> QED
  BY <1>2, <1>3, <1>4

\* Approving a fee finalises, refusing it withdraws, the remembered order.
LEMMA FeeOutcome ==
  ASSUME IInv, NEW s, NEW m, Found(s), s.at = "WAITING_DELIVERY_FEE_APPROVAL", AnswersFee(s, m)
  PROVE  Outcome
<1>0. Stays(s) /\ DOMAIN s = Fields /\ s.order = session.order
  BY FoundStays DEF Found
<1> DEFINE t == [s EXCEPT !.fee = "APPROVED"]
<1>1. DOMAIN t = Fields /\ t.order = session.order /\ t.at = "WAITING_DELIVERY_FEE_APPROVAL"
  BY <1>0 DEF Fields
<1>2. \/ Finalises(t)
      \/ Replies(Goes(t, "COLLECTING_PAYMENT"), "payment") /\ UNCHANGED orders
      \/ /\ orders' = IF s.order = NoOrder THEN orders ELSE [orders EXCEPT ![s.order] = "CLOSED"]
         /\ CancelledCart(s)
      \/ UNCHANGED orders /\ Replies(s, "fee")
  BY DEF AnswersFee
<1> HIDE DEF t
<1>3. Stays(t)
  BY <1>1 DEF Stays, Sound, Asked
<1>4. CASE Finalises(t)
  BY <1>3, <1>4, FinalisesOutcome
<1>5. CASE Replies(Goes(t, "COLLECTING_PAYMENT"), "payment") /\ UNCHANGED orders
  <2>1. Stays(Goes(t, "COLLECTING_PAYMENT"))
    BY <1>1, GoesFields DEF Stays, Sound, Asked
  <2> QED
    BY <1>5, <2>1, RepliesTurn DEF Outcome, Quiet
<1>6. CASE /\ orders' = IF s.order = NoOrder THEN orders ELSE [orders EXCEPT ![s.order] = "CLOSED"]
           /\ CancelledCart(s)
  <2>1. Turned /\ session'.order = NoOrder
    BY <1>0, <1>6, CancelledTurn
  <2> QED
    BY <1>0, <1>6, <2>1 DEF Outcome, Quiet, Settles
<1>7. CASE UNCHANGED orders /\ Replies(s, "fee")
  BY <1>0, <1>7, RepliesTurn DEF Outcome, Quiet
<1> QED
  BY <1>2, <1>4, <1>5, <1>6, <1>7

LEMMA PaymentOutcome ==
  ASSUME IInv, NEW s, NEW m, Found(s), ChoosesPayment(s, m)
  PROVE  Outcome
BY FoundStays, FinalisesOutcome, RepliesTurn DEF ChoosesPayment, Outcome, Quiet

LEMMA AfterDetailOutcome ==
  ASSUME IInv, NEW s, Sound(s), s.cart = session.cart, known, AfterDetail(s)
  PROVE  Outcome
<1>1. NextAfterDetails(s) \/ \E q : UNCHANGED orders /\ Replies(s, q)
  BY DEF AfterDetail
<1>2. Stays(s)
  BY DEF Stays
<1> QED
  BY <1>1, <1>2, DetailsOutcome, RepliesTurn DEF Outcome, Quiet

LEMMA DetailOutcome ==
  ASSUME IInv, NEW s, NEW m, Found(s), s.at = "COLLECTING_DETAILS", GivesDetail(s, m)
  PROVE  Outcome
<1>0. Stays(s) /\ Sound(s) /\ DOMAIN s = Fields /\ s.cart = session.cart /\ known
  BY FoundStays DEF Found, IInv, Asked, Stays
<1>1. \/ \E q : UNCHANGED orders /\ Replies(s, q)
      \/ AfterDetail([s EXCEPT !.name = TRUE]) \/ AfterDetail([s EXCEPT !.phone = TRUE])
      \/ AfterDetail([s EXCEPT !.address = TRUE])
      \/ NextAfterDetails(s)
  BY Zenon DEF GivesDetail, NoOrders
<1>2. ASSUME NEW t \in {[s EXCEPT !.name = TRUE], [s EXCEPT !.phone = TRUE], [s EXCEPT !.address = TRUE]},
             AfterDetail(t)
      PROVE  Outcome
  <2>1. DOMAIN t = Fields /\ t.order = s.order /\ t.at = s.at /\ t.cart = s.cart
    BY <1>0 DEF Fields
  <2>2. Sound(t) /\ t.cart = session.cart
    BY <1>0, <2>1 DEF Sound
  <2> QED
    BY <1>0, <1>2, <2>2, AfterDetailOutcome
<1>3. CASE \E q : UNCHANGED orders /\ Replies(s, q)
  BY <1>0, <1>3, RepliesTurn DEF Outcome, Quiet
<1>4. CASE NextAfterDetails(s)
  BY <1>0, <1>4, DetailsOutcome
<1> QED
  BY <1>1, <1>2, <1>3, <1>4

LEMMA InStateOutcome ==
  ASSUME IInv, NEW s, NEW m, Found(s), InState(s, m)
  PROVE  Outcome
<1>1. \/ ChoosingOptions(s, m) \/ ChoosesPayment(s, m)
      \/ s.at = "CHOOSING_ORDER_MODE" /\ ChoosesMode(s, m)
      \/ s.at = "WAITING_DELIVERY_FEE_APPROVAL" /\ AnswersFee(s, m)
      \/ s.at = "COLLECTING_DETAILS" /\ GivesDetail(s, m)
      \/ Ordering(s, s, Intent[m], m)
  BY DEF InState
<1> QED
  BY <1>1, FoundStays, OptionsOutcome, PaymentOutcome, ModeOutcome, FeeOutcome, DetailOutcome,
     OrderingOutcome

\* Whatever is written and wherever the conversation is, there are three outcomes.
LEMMA HandlesOutcome ==
  ASSUME IInv, NEW m, Handles(m)
  PROVE  Outcome
<1> DEFINE s == Now
<1>1. Found(s) /\ Stays(s) /\ Sound(s)
  BY NowFields, FoundStays DEF Found, IInv, Stays
<1>2. \/ VariantReply(s, m) \/ Greets(s, m) \/ ShowsMenu(s) \/ Cancels(s)
      \/ ReplacesPlaced(s) \/ ConfirmGate(s) \/ HandsOff(s)
      \/ s.at = "CONFIRMING_ORDER" /\ Confirming(s, m)
      \/ InState(s, m)
  BY DEF Handles
<1> HIDE DEF s
<1> QED
  BY <1>1, <1>2, VariantOutcome, GreetsOutcome, MenuOutcome, CancelsOutcome, ReplacesOutcome,
     GateOutcome, HandOffOutcome, ConfirmingOutcome, InStateOutcome

-----------------------------------------------------------------------------
(* What the outcomes make of the orders.                                    *)

\* With n orders the last is the nth.
LEMMA LastPlaced ==
  ASSUME NEW n \in Nat, Placed(n)
  PROVE  LastOrder = IF n = 0 THEN NoOrder ELSE n
<1>1. n <= MaxOrders /\ MaxOrders \in Nat
  BY DialogueAssumption DEF Placed
<1>2. {o \in Orders : orders[o] # "none"} = 1 .. n
  BY <1>1 DEF Placed, Orders
<1>3. CASE n = 0
  BY <1>1, <1>3 DEF Placed, LastOrder, Orders
<1>4. CASE n # 0
  <2>1. n \in Orders /\ orders[n] # "none"
    BY <1>1, <1>4 DEF Placed, Orders
  <2>2. LastOrder = Max(1 .. n)
    BY <1>2, <2>1 DEF LastOrder
  <2>3. n \in 1 .. n /\ \A x \in 1 .. n : n >= x
    BY <1>4
  <2>4. Max(1 .. n) \in 1 .. n /\ \A y \in 1 .. n : Max(1 .. n) >= y
    BY <2>3 DEF Max
  <2> QED
    BY <1>4, <2>2, <2>3, <2>4
<1> QED
  BY <1>3, <1>4

\* Each outcome keeps the invariant.
LEMMA QuietKeeps ==
  ASSUME IInv, Turned, Quiet
  PROVE  IInv'
<1>1. PICK n \in Nat : Placed(n)
  BY DEF IInv, OrdersOK
<1>2. Placed(n)'
  BY <1>1 DEF Placed, Quiet
<1> QED
  BY <1>2 DEF IInv, Turned, Quiet, OrdersOK

LEMMA SettlesKeeps ==
  ASSUME IInv, Turned, Settles
  PROVE  IInv' /\ \A o \in Orders : orders[o] = "none" => orders'[o] = "none"
<1>1. PICK n \in Nat : Placed(n)
  BY DEF IInv, OrdersOK
<1>2. PICK status \in {"NEW", "CLOSED"} : orders' = [orders EXCEPT ![session.order] = status]
  BY DEF Settles
<1>3. session.order = n /\ n \in Orders /\ orders[n] # "none" /\ status # "none"
  BY <1>1, <1>2 DEF Placed, Settles
<1>4. orders' = [orders EXCEPT ![n] = status] /\ DOMAIN orders = Orders
  BY <1>2, <1>3 DEF IInv
<1>5. DOMAIN orders' = Orders /\ \A o \in Orders : orders'[o] = IF o = n THEN status ELSE orders[o]
  BY <1>4
<1>6. Placed(n)'
  BY <1>1, <1>3, <1>5 DEF Placed, Settles
<1> QED
  BY <1>3, <1>5, <1>6 DEF IInv, Turned, OrdersOK

LEMMA MakesKeeps ==
  ASSUME IInv, Turned, Makes
  PROVE  IInv'
<1>1. PICK n \in Nat : Placed(n)
  BY DEF IInv, OrdersOK
<1>2. PICK status \in Open : Creates(status)
  BY DEF Makes
<1>3. (IF LastOrder = NoOrder THEN 1 ELSE LastOrder + 1) = n + 1
  BY <1>1, LastPlaced, DialogueAssumption DEF Placed, Orders
<1>4. DOMAIN orders' = Orders
      /\ \A o \in Orders : orders'[o] = IF o = n + 1 THEN status
                                        ELSE IF o \in Replaced THEN "CLOSED" ELSE orders[o]
  BY <1>2, <1>3 DEF Creates
<1>5. n + 1 \in Orders
  BY <1>1, DialogueAssumption DEF Makes, LimitReached, Placed, Orders
<1>6. \A o \in Orders : (orders'[o] # "none") = (o <= n + 1)
  BY <1>1, <1>4, DialogueAssumption DEF Placed, Orders, Open, Replaced
<1>7. \A o \in Orders : orders'[o] \in Open => o = n + 1
  BY <1>4 DEF Open, Replaced
<1>8. session'.order \in {NoOrder, n + 1}
  BY <1>3 DEF Makes
<1>9. Placed(n + 1)'
  BY <1>5, <1>6, <1>7, <1>8, DialogueAssumption DEF Placed, Orders
<1> QED
  BY <1>4, <1>9 DEF IInv, Turned, OrdersOK

-----------------------------------------------------------------------------
(* Staff and the clock.                                                     *)

\* Staff move an order that is there, and a fee makes the session remember the open one.
LEMMA StaffKeeps ==
  ASSUME IInv, NEW o \in Orders, SetDeliveryFee(o) \/ Kitchen(o) \/ CancelsOrder(o)
  PROVE  IInv' /\ \A x \in Orders : orders[x] = "none" => orders'[x] = "none"
<1>1. PICK n \in Nat : Placed(n)
  BY DEF IInv, OrdersOK
<1>2. PICK status : /\ status # "none" /\ orders' = [orders EXCEPT ![o] = status]
                    /\ status \in Open => orders[o] \in Open
  BY DEF SetDeliveryFee, Kitchen, CancelsOrder, Open
<1>3. orders[o] # "none" /\ (orders[o] = "PENDING_DELIVERY_FEE" => orders[o] \in Open)
  BY DEF SetDeliveryFee, Kitchen, CancelsOrder, Open
<1>4. DOMAIN orders' = Orders /\ \A x \in Orders : orders'[x] = IF x = o THEN status ELSE orders[x]
  BY <1>2 DEF IInv
<1>5. session'.order # NoOrder => session'.order = n /\ n \in Orders
  <2>1. CASE SetDeliveryFee(o)
    BY <1>1, <1>3, <2>1 DEF SetDeliveryFee, Placed, IInv, Fields
  <2>2. CASE Kitchen(o) \/ CancelsOrder(o)
    BY <1>1, <2>2 DEF Kitchen, CancelsOrder, Placed
  <2> QED
    BY <2>1, <2>2
<1>6. DOMAIN session' = Fields /\ (session'.at \in Asked => known')
  <2>1. CASE SetDeliveryFee(o)
    BY <2>1 DEF SetDeliveryFee, IInv, Fields, Asked
  <2>2. CASE Kitchen(o) \/ CancelsOrder(o)
    BY <2>2 DEF Kitchen, CancelsOrder, IInv
  <2> QED
    BY <2>1, <2>2
<1>7. Placed(n)'
  BY <1>1, <1>2, <1>3, <1>4, <1>5 DEF Placed
<1> QED
  BY <1>3, <1>4, <1>6, <1>7 DEF IInv, OrdersOK

LEMMA ExpiresKeeps ==
  ASSUME IInv, Expires
  PROVE  IInv' /\ orders' = orders
<1>1. DOMAIN session' = Fields /\ session'.order = NoOrder /\ session'.at \notin Asked
  BY DEF Expires, NewSession, Fields, Asked
<1>2. PICK n \in Nat : Placed(n)
  BY DEF IInv, OrdersOK
<1>3. Placed(n)' /\ orders' = orders
  BY <1>1, <1>2 DEF Placed, Expires
<1> QED
  BY <1>1, <1>3 DEF IInv, OrdersOK

LEMMA InitInv == Init => IInv
<1> SUFFICES ASSUME Init
             PROVE  IInv
  OBVIOUS
<1>1. DOMAIN session = Fields /\ session.order = NoOrder /\ session.at \notin Asked
  BY DEF Init, NewSession, Fields, Asked
<1>2. DOMAIN orders = Orders /\ \A o \in Orders : orders[o] = "none"
  BY DEF Init
<1>3. Placed(0)
  BY <1>1, <1>2, DialogueAssumption DEF Placed, Orders, Open
<1> QED
  BY <1>1, <1>2, <1>3 DEF IInv, OrdersOK

\* A step keeps the invariant, and an order comes only of a cart that is known.
LEMMA StepInv ==
  ASSUME IInv, [Next]_vars
  PROVE  IInv' /\ \A o \in Orders : orders[o] = "none" /\ orders'[o] # "none" => known
<1>1. ASSUME NEW m, Says(m)
      PROVE  IInv' /\ \A o \in Orders : orders[o] = "none" /\ orders'[o] # "none" => known
  <2>1. Outcome
    BY <1>1, HandlesOutcome DEF Says
  <2>2. CASE Quiet
    BY <2>1, <2>2, QuietKeeps DEF Outcome, Quiet
  <2>3. CASE Settles
    BY <2>1, <2>3, SettlesKeeps DEF Outcome
  <2>4. CASE Makes
    BY <2>1, <2>4, MakesKeeps DEF Outcome, Makes
  <2> QED
    BY <2>1, <2>2, <2>3, <2>4 DEF Outcome
<1>2. CASE SeesItThrough \/ UNCHANGED vars
  <2>1. UNCHANGED <<session, orders, known>>
    BY <1>2 DEF SeesItThrough, vars
  <2>2. Turned /\ Quiet
    BY <2>1 DEF IInv, Turned, Quiet
  <2> QED
    BY <2>1, <2>2, QuietKeeps
<1>3. CASE Expires
  BY <1>3, ExpiresKeeps
<1>4. CASE \E o \in Orders : SetDeliveryFee(o) \/ Kitchen(o) \/ CancelsOrder(o)
  BY <1>4, StaffKeeps
<1> QED
  BY <1>1, <1>2, <1>3, <1>4 DEF Next, Chats, AnswersQuestion

-----------------------------------------------------------------------------
(* What a conversation promises.                                            *)

\* The invariant of every conversation, whatever is written, in whatever state,
\* and whatever the language model makes of it.
THEOREM DialogueInvariant == Spec => []IInv
<1>1. IInv /\ [Next]_vars => IInv'
  BY StepInv
<1> QED
  BY <1>1, InitInv, PTL DEF Spec

\* A customer never has two orders open: the one a new order replaces is
\* withdrawn, and an approval finalises no other (_cancel_prior_live_orders,
\* _finalize_pending_delivery_order).
THEOREM OneOrderIsOpen == Spec => []OneOpenOrder
<1>1. IInv => OneOpenOrder
  <2> SUFFICES ASSUME IInv
               PROVE  Cardinality({o \in Orders : orders[o] \in Open}) <= 1
    BY DEF OneOpenOrder
  <2> DEFINE open == {o \in Orders : orders[o] \in Open}
  <2>1. PICK n \in Nat : Placed(n)
    BY DEF IInv, OrdersOK
  <2>2. open \subseteq {n}
    BY <2>1 DEF Placed
  <2>3. IsFiniteSet({n}) /\ Cardinality({n}) = 1
    BY FS_Singleton
  <2> HIDE DEF open
  <2>4. Cardinality(open) <= Cardinality({n})
    BY <2>2, <2>3, FS_Subset
  <2> QED
    BY <2>3, <2>4 DEF open
<1> QED
  BY <1>1, DialogueInvariant, PTL

\* Every order is of a cart the customer was shown or told in full, whichever
\* branches took the messages since (_handle_order_confirmation).
THEOREM OrdersAreAsShown == Spec => OrderedAsShown
<1>1. IInv /\ [Next]_vars =>
        [\A o \in Orders : orders[o] = "none" /\ orders'[o] # "none" => known]_vars
  BY StepInv
<1> QED
  BY <1>1, DialogueInvariant, PTL DEF Spec, OrderedAsShown

===============================================================================
