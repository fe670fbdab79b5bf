--------------------------- MODULE PosCheckoutProofs ---------------------------
(***************************************************************************)
(* What PosCheckout promises, for any number of requests, sales, intents   *)
(* and sessions.                                                           *)
(*                                                                         *)
(* With every handler in service, the poll that decides on an unlocked     *)
(* read and the payment PATCH included: a link's money settles one sale,   *)
(* a repeated checkout is answered with the sale of its key, and every     *)
(* step of an intent is one of PayLinkIntent's.  Without the PATCH, which  *)
(* may declare a reversed sale PAID again, a cash-up is exact and no sale  *)
(* gives back more than it took.                                           *)
(*                                                                         *)
(* The argument is about who may write what.  A checkout that is about to  *)
(* commit holds its PAID intents, so nobody can spend or lapse them        *)
(* meanwhile (Holds, Apart); a spent intent never becomes PAID again, not  *)
(* even when a poll overwrites CONSUMED (SpentOK).  One request holds the  *)
(* till and one the order it reverses (RequestOK, Alone), so that the      *)
(* drawer of the open session is always what a cash-up would count         *)
(* (DrawerOK).  Sums are cardinalities of sets of units, which the         *)
(* library's theorems on finite sets add up.                               *)
(***************************************************************************)
EXTENDS PosCheckout, FiniteSetTheorems, TLAPS

\* Which columns a row and a request have, and which matter here.
SaleShape(o) ==
  /\ DOMAIN sale[o] = DOMAIN Unsold
  /\ sale[o].links \in [Intents -> 0..2]

SlotShape(t) ==
  /\ DOMAIN txn[t] = DOMAIN Idle
  /\ txn[t].op \in Handlers \cup {"idle"}
  /\ txn[t].pays.links \in [Intents -> 0..2]
  /\ txn[t].link \subseteq Intents

Shape ==
  /\ DOMAIN sale = Sales /\ \A o \in Sales : SaleShape(o)
  /\ DOMAIN txn = Api /\ \A t \in Api : SlotShape(t)
  /\ intent \in [Intents -> IntentStatuses]
  /\ spentOn \in [Intents -> Sales \cup {NoSale}]
  /\ live \subseteq Intents

\* The intents t keeps to itself: locked by its checkout, or sent and not yet
\* committed.
Locked(t) == IF Committing(t) THEN Listed(txn[t].pays) ELSE {}
Sending(t) == IF txn[t].phase = "sending" THEN txn[t].link ELSE {}

Holds(t) ==
  /\ \A i \in Locked(t) : intent[i] = "PAID"
  /\ \A i \in Sending(t) : intent[i] = "ABSENT" /\ i \in live
  /\ \A i, j \in Sending(t) : i = j
  /\ txn[t].phase = "polled" =>
       /\ txn[t].op = "get_pos_payment_intent"
       /\ \A i \in txn[t].link : intent[i] # "ABSENT"
       /\ \A i, j \in txn[t].link : i = j
  /\ txn[t].op = "create_pos_order" => txn[t].phase \in {"till", "links", "commit"}

Apart(t, u) ==
  Locked(t) \cap Locked(u) = {} /\ Sending(t) \cap Sending(u) = {}

\* An intent that paid for a sale is spent, or was and has been overwritten.
SpentOK(i) ==
  /\ \A o \in Sales : sale[o].links[i] > 0 => intent[i] \in {"CONSUMED", "EXPIRED"}
  /\ spentOn[i] \in Sales => sale[spentOn[i]].links[i] > 0

LinkInv ==
  /\ Shape
  /\ \A t \in Api : Holds(t)
  /\ \A t, u \in Api : t # u => Apart(t, u)
  /\ \A i \in Intents : SpentOK(i)
  /\ SpentInOneSale

-----------------------------------------------------------------------------
(* The invariant across the shapes of step the actions have *)

LinksStay == \A o \in Sales : sale'[o].links = sale[o].links

\* A request that does not move, and whose intents nobody writes.
Kept(t) ==
  /\ txn'[t] = txn[t]
  /\ \A i \in Locked(t) \cup Sending(t) : intent'[i] = intent[i]

\* No row disappears, and no link is called back.
Forward ==
  /\ \A i \in Intents : intent[i] # "ABSENT" => intent'[i] # "ABSENT"
  /\ live \subseteq live'

LEMMA KeptHolds ==
  ASSUME LinkInv, Forward, NEW t \in Api, Kept(t)
  PROVE  Holds(t)' /\ Locked(t)' = Locked(t) /\ Sending(t)' = Sending(t)
<1>1. Holds(t) /\ txn'[t] = txn[t] /\ txn[t].link \subseteq Intents
  BY DEF LinkInv, Kept, Shape, SlotShape
<1>2. Locked(t)' = Locked(t) /\ Sending(t)' = Sending(t)
  BY <1>1 DEF Locked, Sending, Committing, Listed
<1>3. \A i \in Locked(t)' : intent'[i] = "PAID"
  BY <1>1, <1>2 DEF Kept, Holds
<1>4. \A i \in Sending(t)' : intent'[i] = "ABSENT" /\ i \in live'
  BY <1>1, <1>2 DEF Kept, Holds, Forward
<1>. QED
  BY <1>1, <1>2, <1>3, <1>4 DEF Holds, Forward

\* Intents that a sale lists stay spent.
SpentStay ==
  \A i \in Intents : intent'[i] # intent[i] =>
    intent[i] \notin {"CONSUMED", "EXPIRED"} \/ intent'[i] \in {"CONSUMED", "EXPIRED"}

LEMMA SpentKept ==
  ASSUME LinkInv, LinksStay, SpentStay, spentOn' = spentOn
  PROVE  (\A i \in Intents : SpentOK(i)') /\ SpentInOneSale'
  BY DEF LinkInv, SpentOK, SpentInOneSale, LinksStay, SpentStay

\* One slot moves.
LEMMA SlotMoves ==
  ASSUME LinkInv, Shape', Forward, LinksStay, SpentStay, spentOn' = spentOn,
         NEW t \in Api, \A u \in Api \ {t} : Kept(u),
         Holds(t)', \A u \in Api \ {t} : Apart(t, u)'
  PROVE  LinkInv'
<1>1. \A u \in Api \ {t} : /\ Holds(u)' /\ Locked(u)' = Locked(u)
                           /\ Sending(u)' = Sending(u)
  BY KeptHolds
<1>2. ASSUME NEW u \in Api, NEW v \in Api, u # v
      PROVE  Apart(u, v)'
  <2>1. CASE u = t
    BY <1>2, <2>1
  <2>2. CASE v = t
    <3>1. Apart(t, u)'
      BY <1>2, <2>2
    <3>. QED
      BY <2>2, <3>1 DEF Apart
  <2>3. CASE u # t /\ v # t
    <3>1. Apart(u, v)
      BY <1>2 DEF LinkInv
    <3>2. /\ Locked(u)' = Locked(u) /\ Sending(u)' = Sending(u)
          /\ Locked(v)' = Locked(v) /\ Sending(v)' = Sending(v)
      BY <1>1, <2>3
    <3>. QED
      BY <3>1, <3>2 DEF Apart
  <2>. QED
    BY <2>1, <2>2, <2>3
<1>3. \A u \in Api : Holds(u)'
  BY <1>1
<1>. QED
  BY <1>2, <1>3, SpentKept DEF LinkInv

\* No slot moves: a handler that locks one row, or the world outside.
LEMMA NoSlotMoves ==
  ASSUME LinkInv, Shape', Forward, LinksStay, SpentStay, spentOn' = spentOn,
         \A u \in Api : Kept(u)
  PROVE  LinkInv'
<1>1. \A u \in Api : /\ Holds(u)' /\ Locked(u)' = Locked(u)
                     /\ Sending(u)' = Sending(u)
  BY KeptHolds
<1>2. \A u, v \in Api : u # v => Apart(u, v)'
  BY <1>1 DEF LinkInv, Apart
<1>. QED
  BY <1>1, <1>2, SpentKept DEF LinkInv

\* The slot that moves keeps no intent to itself afterwards.
LEMMA FreeSlotMoves ==
  ASSUME LinkInv, Shape', LinksStay, NEW t \in Api,
         \A u \in Api \ {t} : txn'[u] = txn[u],
         ~Committing(t)', txn'[t].phase \notin {"sending", "polled"},
         txn'[t].op = "create_pos_order" => txn'[t].phase \in {"till", "links"},
         intent' = intent, spentOn' = spentOn, live' = live
  PROVE  LinkInv'
<1>1. Forward /\ SpentStay /\ \A u \in Api \ {t} : Kept(u)
  BY DEF Forward, SpentStay, Kept
<1>2. Locked(t)' = {} /\ Sending(t)' = {}
  BY DEF Locked, Sending
<1>3. Holds(t)' /\ \A u \in Api \ {t} : Apart(t, u)'
  BY <1>2 DEF Holds, Apart
<1>. QED
  BY <1>1, <1>3, SlotMoves

-----------------------------------------------------------------------------
(* Slots and rows *)

LEMMA IdleShape ==
  /\ Idle.op = "idle" /\ Idle.phase = "commit" /\ Idle.link = {}
  /\ Idle.pays.links \in [Intents -> 0..2]
  BY DEF Idle, Nothing, NoLinks

LEMMA EndsSlot ==
  ASSUME Shape, NEW t \in Api, Ends(t)
  PROVE  /\ DOMAIN txn' = Api /\ txn'[t] = Idle
         /\ \A u \in Api \ {t} : txn'[u] = txn[u]
         /\ \A u \in Api : SlotShape(u)'
<1>1. /\ DOMAIN txn' = Api /\ txn'[t] = Idle
      /\ \A u \in Api \ {t} : txn'[u] = txn[u]
  BY DEF Ends, Shape
<1>2. SlotShape(t)'
  BY <1>1, IdleShape DEF SlotShape
<1>3. \A u \in Api \ {t} : SlotShape(u)'
  BY <1>1 DEF Shape, SlotShape
<1>. QED
  BY <1>1, <1>2, <1>3

LEMMA BeginsSlot ==
  ASSUME Shape, NEW t \in Api, NEW op, NEW request, Begins(t, op, request),
         DOMAIN request = DOMAIN Idle,
         request.pays.links \in [Intents -> 0..2], request.link \subseteq Intents
  PROVE  /\ DOMAIN txn' = Api
         /\ txn'[t].op = op /\ txn'[t].phase = request.phase
         /\ txn'[t].link = request.link
         /\ \A u \in Api \ {t} : txn'[u] = txn[u]
         /\ \A u \in Api : SlotShape(u)'
<1>1. op \in Handlers
  BY DEF Begins
<1>2. /\ DOMAIN txn' = Api /\ txn'[t] = [request EXCEPT !.op = op]
      /\ \A u \in Api \ {t} : txn'[u] = txn[u]
  BY DEF Begins, Shape
<1>3. /\ txn'[t].op = op /\ txn'[t].phase = request.phase
      /\ txn'[t].link = request.link /\ txn'[t].pays = request.pays
      /\ DOMAIN txn'[t] = DOMAIN Idle
  BY <1>2 DEF Idle
<1>4. SlotShape(t)'
  BY <1>1, <1>3 DEF SlotShape
<1>5. \A u \in Api \ {t} : SlotShape(u)'
  BY <1>2 DEF Shape, SlotShape
<1>. QED
  BY <1>1, <1>2, <1>3, <1>4, <1>5

LEMMA PhaseSlot ==
  ASSUME Shape, NEW t \in Api, NEW phase, txn' = [txn EXCEPT ![t].phase = phase]
  PROVE  /\ DOMAIN txn' = Api
         /\ txn'[t].op = txn[t].op /\ txn'[t].phase = phase
         /\ txn'[t].pays = txn[t].pays /\ txn'[t].link = txn[t].link
         /\ \A u \in Api \ {t} : txn'[u] = txn[u]
         /\ \A u \in Api : SlotShape(u)'
<1>1. SlotShape(t) /\ DOMAIN txn = Api
  BY DEF Shape
<1>2. /\ DOMAIN txn' = Api /\ txn'[t] = [txn[t] EXCEPT !.phase = phase]
      /\ \A u \in Api \ {t} : txn'[u] = txn[u]
  BY <1>1
<1>3. /\ txn'[t].op = txn[t].op /\ txn'[t].phase = phase
      /\ txn'[t].pays = txn[t].pays /\ txn'[t].link = txn[t].link
      /\ DOMAIN txn'[t] = DOMAIN Idle
  BY <1>1, <1>2 DEF SlotShape, Idle
<1>4. SlotShape(t)'
  BY <1>1, <1>3 DEF SlotShape
<1>5. \A u \in Api \ {t} : SlotShape(u)'
  BY <1>2 DEF Shape, SlotShape
<1>. QED
  BY <1>2, <1>3, <1>4, <1>5

\* A slot that gives up, or commits nothing about links.
LEMMA EndsKeepsLinks ==
  ASSUME LinkInv, NEW t \in Api, Ends(t),
         DOMAIN sale' = Sales, \A o \in Sales : SaleShape(o)', LinksStay,
         intent' = intent, spentOn' = spentOn, live' = live
  PROVE  LinkInv'
<1>1. Shape
  BY DEF LinkInv
<1>2. /\ DOMAIN txn' = Api /\ txn'[t] = Idle
      /\ \A u \in Api \ {t} : txn'[u] = txn[u]
      /\ \A u \in Api : SlotShape(u)'
  BY <1>1, EndsSlot
<1>3. Shape'
  BY <1>1, <1>2 DEF Shape
<1>4. ~Committing(t)' /\ txn'[t].phase \notin {"sending", "polled"}
      /\ txn'[t].op # "create_pos_order"
  BY <1>2, IdleShape DEF Committing
<1>. QED
  BY <1>2, <1>3, <1>4, FreeSlotMoves

\* A handler that begins and keeps no intent to itself.
LEMMA BeginsKeepsLinks ==
  ASSUME LinkInv, NEW t \in Api, NEW op, NEW request, Begins(t, op, request),
         DOMAIN request = DOMAIN Idle,
         request.pays.links \in [Intents -> 0..2], request.link \subseteq Intents,
         request.phase \notin {"sending", "polled"},
         op = "create_pos_order" => request.phase = "till",
         UNCHANGED <<sale, intent, spentOn, live>>
  PROVE  LinkInv'
<1>1. Shape
  BY DEF LinkInv
<1>2. /\ DOMAIN txn' = Api
      /\ txn'[t].op = op /\ txn'[t].phase = request.phase
      /\ \A u \in Api \ {t} : txn'[u] = txn[u]
      /\ \A u \in Api : SlotShape(u)'
  BY <1>1, BeginsSlot
<1>3. Shape'
  BY <1>1, <1>2 DEF Shape, SaleShape
<1>4. LinksStay
  BY DEF LinksStay
<1>5. ~Committing(t)'
  BY <1>2 DEF Committing
<1>. QED
  BY <1>2, <1>3, <1>4, <1>5, FreeSlotMoves

-----------------------------------------------------------------------------
(* Checkouts *)

LEMMA NothingMoves ==
  ASSUME LinkInv, UNCHANGED <<sale, intent, spentOn, txn>>, live \subseteq live',
         live' \subseteq Intents
  PROVE  LinkInv'
<1>1. Shape'
  BY DEF LinkInv, Shape, SaleShape, SlotShape
<1>2. Forward /\ LinksStay /\ SpentStay /\ \A u \in Api : Kept(u)
  BY DEF Forward, LinksStay, SpentStay, Kept
<1>. QED
  BY <1>1, <1>2, NoSlotMoves

LEMMA CheckoutBegins ==
  ASSUME LinkInv, NEW t \in Api, NEW key \in Keys \cup {NoKey}, NEW pays \in Payments,
         create_pos_order(t, key, pays)
  PROVE  LinkInv'
<1>. DEFINE request == [Idle EXCEPT !.phase = "till", !.key = key, !.pays = pays]
<1>1. UNCHANGED <<sale, intent, spentOn, live>>
  BY DEF create_pos_order, links
<1>2. CASE txn' = txn
  BY <1>1, <1>2, NothingMoves DEF LinkInv, Shape
<1>3. CASE Begins(t, "create_pos_order", request)
  <2>1. pays.links \in [Intents -> 0..2]
    BY PosAssumption DEF PaymentShape
  <2>2. /\ DOMAIN request = DOMAIN Idle /\ request.pays = pays
        /\ request.link = {} /\ request.phase = "till"
    BY DEF Idle
  <2>. HIDE DEF request
  <2>. QED
    BY <1>1, <1>3, <2>1, <2>2, BeginsKeepsLinks
<1>. QED
  BY <1>2, <1>3 DEF create_pos_order

LEMMA TillTaken ==
  ASSUME LinkInv, NEW t \in Api, TakeTill(t)
  PROVE  LinkInv'
<1>1. /\ Shape /\ UNCHANGED <<sale, intent, spentOn, live>>
      /\ LinksStay /\ \A o \in Sales : SaleShape(o)'
      /\ DOMAIN sale' = Sales
  BY DEF TakeTill, links, LinkInv, Shape, SaleShape, LinksStay
<1>. DEFINE phase == IF txn[t].op = "create_pos_order" THEN "links" ELSE "commit"
<1>2. CASE txn' = [txn EXCEPT ![t].phase = phase]
  <2>0. phase = IF txn[t].op = "create_pos_order" THEN "links" ELSE "commit"
    OBVIOUS
  <2>. HIDE DEF phase
  <2>1. /\ DOMAIN txn' = Api
        /\ txn'[t].op = txn[t].op /\ txn'[t].phase = phase
        /\ \A u \in Api \ {t} : txn'[u] = txn[u]
        /\ \A u \in Api : SlotShape(u)'
    BY <1>1, <1>2, PhaseSlot
  <2>2. Shape'
    BY <1>1, <2>1 DEF Shape
  <2>3. /\ ~Committing(t)' /\ txn'[t].phase \notin {"sending", "polled"}
        /\ txn'[t].op = "create_pos_order" => txn'[t].phase \in {"till", "links"}
    BY <2>0, <2>1 DEF Committing
  <2>. QED
    BY <1>1, <2>1, <2>2, <2>3, FreeSlotMoves
<1>3. CASE Ends(t)
  BY <1>1, <1>3, EndsKeepsLinks
<1>. QED
  BY <1>2, <1>3 DEF TakeTill

LEMMA LinksLocked ==
  ASSUME LinkInv, NEW t \in Api, LockLinks(t)
  PROVE  LinkInv'
<1>1. /\ Shape /\ UNCHANGED <<sale, intent, spentOn, live>>
      /\ LinksStay /\ \A o \in Sales : SaleShape(o)'
      /\ DOMAIN sale' = Sales
  BY DEF LockLinks, links, LinkInv, Shape, SaleShape, LinksStay
<1>2. CASE /\ \A i \in Listed(txn[t].pays) : IntentFree(i)
           /\ \A i \in Listed(txn[t].pays) : intent[i] = "PAID"
           /\ txn' = [txn EXCEPT ![t].phase = "commit"]
  <2>1. /\ DOMAIN txn' = Api
        /\ txn'[t].op = txn[t].op /\ txn'[t].phase = "commit"
        /\ txn'[t].pays = txn[t].pays
        /\ \A u \in Api \ {t} : txn'[u] = txn[u]
        /\ \A u \in Api : SlotShape(u)'
    BY <1>1, <1>2, PhaseSlot
  <2>2. Shape' /\ Forward /\ SpentStay /\ \A u \in Api \ {t} : Kept(u)
    BY <1>1, <2>1 DEF Shape, Forward, SpentStay, Kept
  <2>3. Locked(t)' \subseteq Listed(txn[t].pays) /\ Sending(t)' = {}
    BY <2>1 DEF Locked, Sending, Listed
  <2>4. Holds(t)'
    BY <1>1, <1>2, <2>1, <2>3 DEF Holds
  <2>5. ASSUME NEW u \in Api \ {t}
        PROVE  Apart(t, u)'
    <3>1. Locked(u)' = Locked(u)
      BY <2>2, KeptHolds
    <3>2. \A i \in Listed(txn[t].pays) : i \notin Locked(u)
      BY <1>2 DEF IntentFree, Locked, Committing
    <3>. QED
      BY <2>3, <3>1, <3>2 DEF Apart
  <2>. QED
    BY <1>1, <2>2, <2>4, <2>5, SlotMoves
<1>3. CASE Ends(t)
  BY <1>1, <1>3, EndsKeepsLinks
<1>. QED
  BY <1>2, <1>3 DEF LockLinks, ReplaySpent

\* One listed intent at most, so one sale and one order_id.
LEMMA CheckoutCommits ==
  ASSUME LinkInv, NEW t \in Api, CommitCheckout(t)
  PROVE  LinkInv'
<1>. DEFINE mine == Listed(txn[t].pays)
<1>1. PICK o \in Sales :
        /\ ~Sold(o)
        /\ sale' = [sale EXCEPT ![o] = RungUp(t)]
        /\ intent' = [i \in Intents |-> IF i \in mine THEN "CONSUMED" ELSE intent[i]]
        /\ spentOn' = [i \in Intents |-> IF i \in mine THEN o ELSE spentOn[i]]
  BY DEF CommitCheckout
<1>2. Shape /\ Committing(t) /\ Ends(t) /\ live' = live /\ SlotShape(t)
  BY DEF CommitCheckout, LinkInv, Shape
<1>3. /\ DOMAIN txn' = Api /\ txn'[t] = Idle
      /\ \A u \in Api \ {t} : txn'[u] = txn[u]
      /\ \A u \in Api : SlotShape(u)'
  BY <1>2, EndsSlot
<1>4. /\ sale'[o].links = txn[t].pays.links /\ SaleShape(o)'
      /\ \A p \in Sales \ {o} : sale'[p] = sale[p]
      /\ DOMAIN sale' = Sales
  <2>1. sale'[o] = RungUp(t) /\ DOMAIN sale' = Sales
        /\ \A p \in Sales \ {o} : sale'[p] = sale[p]
    BY <1>1, <1>2 DEF Shape
  <2>2. RungUp(t).links = txn[t].pays.links /\ DOMAIN RungUp(t) = DOMAIN Unsold
    BY DEF RungUp, Unsold
  <2>. QED
    BY <1>2, <2>1, <2>2 DEF SaleShape, SlotShape
<1>5. \A i \in mine : intent[i] = "PAID" /\ i \in Intents
  BY <1>2 DEF LinkInv, Holds, Locked, Listed
<1>6. Shape'
  <2>1. intent' \in [Intents -> IntentStatuses] /\ spentOn' \in [Intents -> Sales \cup {NoSale}]
    BY <1>1, <1>2 DEF Shape, IntentStatuses
  <2>2. \A p \in Sales : SaleShape(p)'
    BY <1>2, <1>4 DEF Shape, SaleShape
  <2>. QED
    BY <1>2, <1>3, <1>4, <2>1, <2>2 DEF Shape
<1>7. Forward
  BY <1>1, <1>2 DEF Forward
<1>8. ASSUME NEW u \in Api \ {t}
      PROVE  Kept(u)
  <2>1. Apart(t, u) /\ Holds(u)
    BY DEF LinkInv
  <2>2. \A i \in Locked(u) : i \notin mine
    BY <1>2, <2>1 DEF Apart, Locked
  <2>3. \A i \in Sending(u) : i \notin mine
    BY <1>5, <2>1 DEF Holds
  <2>4. Locked(u) \cup Sending(u) \subseteq Intents
    BY DEF Locked, Sending, Listed, LinkInv, Shape, SlotShape
  <2>. QED
    BY <1>1, <1>3, <2>2, <2>3, <2>4 DEF Kept
<1>9. \A u \in Api \ {t} : /\ Holds(u)' /\ Locked(u)' = Locked(u)
                           /\ Sending(u)' = Sending(u)
  BY <1>7, <1>8, KeptHolds
<1>10. Holds(t)' /\ Locked(t)' = {} /\ Sending(t)' = {}
  BY <1>3, IdleShape DEF Holds, Locked, Sending, Committing
<1>11. \A u, v \in Api : u # v => Apart(u, v)'
  BY <1>9, <1>10 DEF LinkInv, Apart
<1>12. \A i \in Intents : sale[o].links[i] = 0
  BY <1>1 DEF Sold, Unsold, NoLinks
<1>13. \A i \in mine : \A p \in Sales : ~(sale[p].links[i] > 0)
  BY <1>5 DEF LinkInv, SpentOK
<1>14. \A i \in Intents : i \in mine <=> txn[t].pays.links[i] > 0
  BY DEF Listed
<1>. HIDE DEF mine
<1>15. ASSUME NEW i \in Intents
       PROVE  SpentOK(i)'
  <2>1. SpentOK(i)
    BY DEF LinkInv
  <2>2. CASE i \in mine
    <3>1. intent'[i] = "CONSUMED" /\ spentOn'[i] = o /\ sale'[o].links[i] > 0
      BY <1>1, <1>4, <1>14, <2>2
    <3>. QED
      BY <3>1 DEF SpentOK
  <2>3. CASE i \notin mine
    <3>1. /\ intent'[i] = intent[i] /\ spentOn'[i] = spentOn[i]
          /\ ~(sale'[o].links[i] > 0)
      BY <1>1, <1>4, <1>14, <2>3
    <3>2. spentOn[i] \in Sales => spentOn[i] # o
      BY <1>12, <2>1 DEF SpentOK
    <3>. QED
      BY <1>4, <2>1, <3>1, <3>2 DEF SpentOK
  <2>. QED
    BY <2>2, <2>3
<1>16. SpentInOneSale'
  <2>. SUFFICES ASSUME NEW i \in Intents, NEW p \in Sales, NEW q \in Sales,
                       sale'[p].links[i] > 0, sale'[q].links[i] > 0
                PROVE  p = q
    BY DEF SpentInOneSale
  <2>1. CASE i \in mine
    BY <1>4, <1>13, <2>1
  <2>2. CASE i \notin mine
    <3>1. ~(sale'[o].links[i] > 0)
      BY <1>4, <1>14, <2>2
    <3>2. sale[p].links[i] > 0 /\ sale[q].links[i] > 0
      BY <1>4, <3>1
    <3>. QED
      BY <3>2 DEF LinkInv, SpentInOneSale
  <2>. QED
    BY <2>1, <2>2
<1>. QED
  BY <1>6, <1>9, <1>10, <1>11, <1>15, <1>16 DEF LinkInv

-----------------------------------------------------------------------------
(* Till, reversals, corrections: rows change, their links do not *)

LEMMA RowPatched ==
  ASSUME Shape, NEW o, NEW row, sale' = [sale EXCEPT ![o] = row],
         DOMAIN row = DOMAIN sale[o], row.links = sale[o].links
  PROVE  DOMAIN sale' = Sales /\ (\A p \in Sales : SaleShape(p)') /\ LinksStay
<1>1. \A p \in Sales : DOMAIN sale'[p] = DOMAIN sale[p] /\ sale'[p].links = sale[p].links
  BY DEF Shape
<1>. QED
  BY <1>1 DEF Shape, SaleShape, LinksStay

LEMMA SessionOpens ==
  ASSUME LinkInv, open_till
  PROVE  LinkInv'
  BY NothingMoves DEF open_till, links, LinkInv, Shape

LEMMA CashUpBegins ==
  ASSUME LinkInv, NEW t \in Api, close_till(t)
  PROVE  LinkInv'
<1>. DEFINE request == [Idle EXCEPT !.amount = ExpectedCash(session)]
<1>1. Begins(t, "close_till", request) /\ UNCHANGED <<sale, intent, spentOn, live>>
  BY DEF close_till, links
<1>2. /\ DOMAIN request = DOMAIN Idle /\ request.pays = Idle.pays
      /\ request.link = {} /\ request.phase = "commit"
  BY DEF Idle
<1>. HIDE DEF request
<1>. QED
  BY <1>1, <1>2, IdleShape, BeginsKeepsLinks

LEMMA ReversalBegins ==
  ASSUME LinkInv, NEW t \in Api, NEW op \in {"refund_pos_order", "void_pos_order"},
         NEW o, NEW amount, NEW cash, BeginReversal(t, op, o, amount, cash)
  PROVE  LinkInv'
<1>. DEFINE request == [Idle EXCEPT !.sale = o, !.amount = amount, !.cash = cash,
                          !.phase = IF HasCash(o) THEN "till" ELSE "commit"]
<1>1. Begins(t, op, request) /\ UNCHANGED <<sale, intent, spentOn, live>>
  BY DEF BeginReversal, links
<1>2. /\ DOMAIN request = DOMAIN Idle /\ request.pays = Idle.pays
      /\ request.link = {} /\ request.phase \in {"till", "commit"}
  BY DEF Idle
<1>. HIDE DEF request
<1>. QED
  BY <1>1, <1>2, IdleShape, BeginsKeepsLinks

LEMMA PatchBegins ==
  ASSUME LinkInv, NEW t \in Api, NEW o, NEW new, update_payment_status(t, o, new)
  PROVE  LinkInv'
<1>. DEFINE request == [Idle EXCEPT !.sale = o, !.to = new]
<1>1. Begins(t, "update_payment_status", request) /\ UNCHANGED <<sale, intent, spentOn, live>>
  BY DEF update_payment_status, links
<1>2. /\ DOMAIN request = DOMAIN Idle /\ request.pays = Idle.pays
      /\ request.link = {} /\ request.phase = "commit"
  BY DEF Idle
<1>. HIDE DEF request
<1>. QED
  BY <1>1, <1>2, IdleShape, BeginsKeepsLinks

\* Commits that end a request and change at most other columns of a row.
LEMMA RowCommits ==
  ASSUME LinkInv, NEW t \in Api, CommitClose(t) \/ CommitReversal(t) \/ CommitPatch(t)
  PROVE  LinkInv'
<1>1. Shape /\ Ends(t) /\ UNCHANGED <<intent, spentOn, live>>
  BY DEF CommitClose, CommitReversal, CommitPatch, links, LinkInv
<1>. DEFINE o == txn[t].sale
<1>2. DOMAIN sale' = Sales /\ (\A p \in Sales : SaleShape(p)') /\ LinksStay
  <2>1. CASE sale' = sale
    BY <1>1, <2>1 DEF Shape, SaleShape, LinksStay
  <2>2. CASE o \notin Sales /\ (CommitReversal(t) \/ CommitPatch(t))
    <3>1. DOMAIN sale' = DOMAIN sale /\ \A p \in DOMAIN sale \ {o} : sale'[p] = sale[p]
      BY <2>2 DEF CommitReversal, CommitPatch
    <3>2. DOMAIN sale' = Sales /\ \A p \in Sales : sale'[p] = sale[p]
      BY <1>1, <2>2, <3>1 DEF Shape
    <3>. QED
      BY <1>1, <3>2 DEF Shape, SaleShape, LinksStay
  <2>3. CASE o \in Sales /\ CommitReversal(t)
    <3>. DEFINE row == [sale[o] EXCEPT !.pay = StatusAfter(t, o), !.refundCash = txn[t].cash,
                          !.refundedIn = session,
                          !.flag = FlagAfter(o, txn[t].amount - txn[t].cash)]
    <3>1. sale' = [sale EXCEPT ![o] = row]
      BY <2>3 DEF CommitReversal
    <3>2. DOMAIN row = DOMAIN sale[o] /\ row.links = sale[o].links
      BY <1>1, <2>3 DEF Shape, SaleShape, Unsold
    <3>. QED
      BY <1>1, <3>1, <3>2, RowPatched
  <2>4. CASE o \in Sales /\ CommitPatch(t)
    <3>. DEFINE row == [sale[o] EXCEPT !.pay = txn[t].to]
    <3>1. sale' = [sale EXCEPT ![o] = row]
      BY <2>4 DEF CommitPatch
    <3>2. DOMAIN row = DOMAIN sale[o] /\ row.links = sale[o].links
      BY <1>1, <2>4 DEF Shape, SaleShape, Unsold
    <3>. QED
      BY <1>1, <3>1, <3>2, RowPatched
  <2>. QED
    BY <2>1, <2>2, <2>3, <2>4 DEF CommitClose
<1>. QED
  BY <1>1, <1>2, EndsKeepsLinks

\* The provider refund confirmed by hand, and the generic refund.
LEMMA RowsAtOnce ==
  ASSUME LinkInv, NEW o \in Sales,
         \/ confirm_pos_order_provider_refund(o)
         \/ \E amount \in 1..Total(o) : refund_order_payment(o, amount)
  PROVE  LinkInv'
<1>1. Shape /\ UNCHANGED <<intent, spentOn, live, txn>>
  BY DEF confirm_pos_order_provider_refund, refund_order_payment, links, LinkInv
<1>2. \E row : /\ sale' = [sale EXCEPT ![o] = row]
               /\ DOMAIN row = DOMAIN sale[o] /\ row.links = sale[o].links
  <2>1. CASE confirm_pos_order_provider_refund(o)
    <3>. DEFINE row == [sale[o] EXCEPT !.flag = "CONFIRMED"]
    <3>1. sale' = [sale EXCEPT ![o] = row]
      BY <2>1 DEF confirm_pos_order_provider_refund
    <3>2. DOMAIN row = DOMAIN sale[o] /\ row.links = sale[o].links
      BY <1>1 DEF Shape, SaleShape, Unsold
    <3>. HIDE DEF row
    <3>. QED
      BY <3>1, <3>2
  <2>2. ASSUME NEW amount \in 1..Total(o), refund_order_payment(o, amount)
        PROVE  \E row : /\ sale' = [sale EXCEPT ![o] = row]
                        /\ DOMAIN row = DOMAIN sale[o] /\ row.links = sale[o].links
    <3>. DEFINE row == [sale[o] EXCEPT !.refundedIn = session, !.pay =
                          IF amount = Total(o) THEN "REFUNDED" ELSE "PARTIALLY_REFUNDED"]
    <3>1. sale' = [sale EXCEPT ![o] = row]
      BY <2>2 DEF refund_order_payment
    <3>2. DOMAIN row = DOMAIN sale[o] /\ row.links = sale[o].links
      BY <1>1 DEF Shape, SaleShape, Unsold
    <3>. HIDE DEF row
    <3>. QED
      BY <3>1, <3>2
  <2>. QED
    BY <2>1, <2>2
<1>3. DOMAIN sale' = Sales /\ (\A p \in Sales : SaleShape(p)') /\ LinksStay
  BY <1>1, <1>2, RowPatched
<1>4. Shape'
  BY <1>1, <1>3 DEF Shape, SlotShape
<1>5. Forward /\ SpentStay /\ \A u \in Api : Kept(u)
  BY <1>1 DEF Forward, SpentStay, Kept
<1>. QED
  BY <1>1, <1>3, <1>4, <1>5, NoSlotMoves

-----------------------------------------------------------------------------
(* Pay-by-Link requests *)

\* Only a link nobody was sent is sent, so no two requests are sending it.
LEMMA LinkSent ==
  ASSUME LinkInv, NEW t \in Api, NEW i \in Intents, create_pos_payment_intent(t, i)
  PROVE  LinkInv'
<1>. DEFINE request == [Idle EXCEPT !.link = {i}, !.phase = "sending"]
<1>1. /\ Shape /\ Begins(t, "create_pos_payment_intent", request)
      /\ UNCHANGED <<sale, intent, spentOn>> /\ live' = live \cup {i}
      /\ intent[i] = "ABSENT" /\ i \notin live
  BY DEF create_pos_payment_intent, LinkInv
<1>2. /\ DOMAIN request = DOMAIN Idle /\ request.pays = Idle.pays
      /\ request.link = {i} /\ request.phase = "sending"
  BY DEF Idle
<1>. HIDE DEF request
<1>3. /\ DOMAIN txn' = Api
      /\ txn'[t].op = "create_pos_payment_intent" /\ txn'[t].phase = "sending"
      /\ txn'[t].link = {i}
      /\ \A u \in Api \ {t} : txn'[u] = txn[u]
      /\ \A u \in Api : SlotShape(u)'
  BY <1>1, <1>2, IdleShape, BeginsSlot
<1>4. Shape' /\ Forward /\ LinksStay /\ SpentStay /\ \A u \in Api \ {t} : Kept(u)
  BY <1>1, <1>3 DEF Shape, SaleShape, Forward, LinksStay, SpentStay, Kept
<1>5. Locked(t)' = {} /\ Sending(t)' = {i}
  BY <1>3 DEF Locked, Sending, Committing
<1>6. Holds(t)'
  BY <1>1, <1>3, <1>5 DEF Holds
<1>7. ASSUME NEW u \in Api \ {t}
      PROVE  Apart(t, u)'
  <2>1. Sending(u)' = Sending(u) /\ Holds(u)
    BY <1>4, KeptHolds DEF LinkInv
  <2>. QED
    BY <1>1, <1>5, <2>1 DEF Apart, Holds
<1>. QED
  BY <1>1, <1>4, <1>6, <1>7, SlotMoves

\* A row changes status while nobody keeps it to himself.
Unkept(i) == \A t \in Api : i \notin Locked(t) \cup Sending(t)

LEMMA StatusWritten ==
  ASSUME LinkInv, NEW i \in Intents, NEW status \in IntentStatuses, Unkept(i),
         intent' = [intent EXCEPT ![i] = status],
         status # "ABSENT", intent[i] \notin {"CONSUMED", "EXPIRED"} \/ status = "EXPIRED",
         UNCHANGED <<sale, spentOn, live>>
  PROVE  /\ intent' \in [Intents -> IntentStatuses]
         /\ Forward /\ LinksStay /\ SpentStay
         /\ \A t \in Api : txn'[t] = txn[t] => Kept(t)
<1>1. /\ intent' \in [Intents -> IntentStatuses] /\ intent'[i] = status
      /\ \A j \in Intents \ {i} : intent'[j] = intent[j]
  BY DEF LinkInv, Shape
<1>2. Forward /\ LinksStay /\ SpentStay
  BY <1>1 DEF Forward, LinksStay, SpentStay
<1>3. ASSUME NEW t \in Api, txn'[t] = txn[t]
      PROVE  Kept(t)
  <2>1. Locked(t) \cup Sending(t) \subseteq Intents \ {i}
    BY DEF Unkept, Locked, Sending, Listed, LinkInv, Shape, SlotShape
  <2>. QED
    BY <1>1, <1>3, <2>1 DEF Kept
<1>. QED
  BY <1>1, <1>2, <1>3

\* What the provider's webhook, a cancellation, a resend and an unavailable
\* provider find: nobody's intent.
LEMMA PendingUnkept ==
  ASSUME LinkInv, NEW i \in Intents, intent[i] = "PENDING" \/ (intent[i] = "ABSENT" /\ i \notin live)
  PROVE  Unkept(i)
BY DEF Unkept, LinkInv, Holds

LEMMA StatusAtOnce ==
  ASSUME LinkInv, NEW i \in Intents, NEW status \in IntentStatuses, status # "ABSENT",
         intent[i] = "PENDING" \/ (intent[i] = "ABSENT" /\ i \notin live),
         IntentBecomes(i, status), UNCHANGED txn
  PROVE  LinkInv'
<1>1. /\ intent' = [intent EXCEPT ![i] = status] /\ UNCHANGED <<sale, spentOn, live, txn>>
  BY DEF IntentBecomes
<1>2. /\ intent' \in [Intents -> IntentStatuses]
      /\ Forward /\ LinksStay /\ SpentStay /\ \A u \in Api : Kept(u)
  BY <1>1, PendingUnkept, StatusWritten
<1>3. Shape'
  BY <1>1, <1>2 DEF LinkInv, Shape, SaleShape, SlotShape
<1>. QED
  BY <1>1, <1>2, <1>3, NoSlotMoves

LEMMA IntentsAtOnce ==
  ASSUME LinkInv, NEW i \in Intents,
         \/ LinkUnavailable(i) \/ mark_intent_paid(i)
         \/ cancel_pos_payment_intent(i) \/ resend_pos_payment_intent(i)
  PROVE  LinkInv'
<1>1. CASE LinkUnavailable(i)
  BY <1>1, StatusAtOnce DEF LinkUnavailable, IntentStatuses
<1>2. CASE mark_intent_paid(i)
  <2>1. Lapsed(i, "PAID") \in IntentStatuses /\ Lapsed(i, "PAID") # "ABSENT"
    BY DEF Lapsed, IntentStatuses
  <2>2. intent[i] = "PENDING" /\ IntentBecomes(i, Lapsed(i, "PAID")) /\ UNCHANGED txn
    BY <1>2 DEF mark_intent_paid
  <2>. QED
    BY <2>1, <2>2, StatusAtOnce
<1>3. CASE cancel_pos_payment_intent(i)
  <2>1. Lapsed(i, "CANCELLED") \in IntentStatuses /\ Lapsed(i, "CANCELLED") # "ABSENT"
    BY DEF Lapsed, IntentStatuses
  <2>2. intent[i] = "PENDING" /\ IntentBecomes(i, Lapsed(i, "CANCELLED")) /\ UNCHANGED txn
    BY <1>3 DEF cancel_pos_payment_intent
  <2>. QED
    BY <2>1, <2>2, StatusAtOnce
<1>4. CASE resend_pos_payment_intent(i)
  <2>1. "EXPIRED" \in IntentStatuses /\ "EXPIRED" # "ABSENT"
    BY DEF IntentStatuses
  <2>2. intent[i] = "PENDING" /\ IntentBecomes(i, "EXPIRED") /\ UNCHANGED txn
    BY <1>4 DEF resend_pos_payment_intent
  <2>. QED
    BY <2>1, <2>2, StatusAtOnce
<1>. QED
  BY <1>1, <1>2, <1>3, <1>4

LEMMA LinkCommits ==
  ASSUME LinkInv, NEW t \in Api, CommitLink(t)
  PROVE  LinkInv'
<1>1. /\ Shape /\ Ends(t) /\ UNCHANGED <<sale, spentOn, live>>
      /\ Sending(t) = txn[t].link
      /\ intent' = [i \in Intents |-> IF i \in Sending(t) THEN "PENDING" ELSE intent[i]]
  BY DEF CommitLink, LinkInv, Sending
<1>2. \A i \in Sending(t) : intent[i] = "ABSENT"
  BY DEF LinkInv, Holds
<1>3. /\ DOMAIN txn' = Api /\ txn'[t] = Idle
      /\ \A u \in Api \ {t} : txn'[u] = txn[u]
      /\ \A u \in Api : SlotShape(u)'
  BY <1>1, EndsSlot
<1>4. Shape'
  <2>1. intent' \in [Intents -> IntentStatuses]
    BY <1>1 DEF Shape, IntentStatuses
  <2>. QED
    BY <1>1, <1>3, <2>1 DEF Shape, SaleShape
<1>5. Forward /\ LinksStay /\ SpentStay
  BY <1>1, <1>2 DEF Forward, LinksStay, SpentStay
<1>6. ASSUME NEW u \in Api \ {t}
      PROVE  Kept(u)
  <2>1. Apart(t, u) /\ Holds(u)
    BY DEF LinkInv
  <2>2. \A i \in Locked(u) \cup Sending(u) : i \notin Sending(t)
    BY <1>2, <2>1 DEF Apart, Holds
  <2>3. Locked(u) \cup Sending(u) \subseteq Intents
    BY DEF Locked, Sending, Listed, LinkInv, Shape, SlotShape
  <2>. QED
    BY <1>1, <1>3, <2>2, <2>3 DEF Kept
<1>7. Locked(t)' = {} /\ Sending(t)' = {} /\ Holds(t)'
  BY <1>3, IdleShape DEF Holds, Locked, Sending, Committing
<1>8. \A u \in Api \ {t} : Apart(t, u)'
  BY <1>7 DEF Apart
<1>. QED
  BY <1>1, <1>4, <1>5, <1>6, <1>7, <1>8, SlotMoves

LEMMA PollBegins ==
  ASSUME LinkInv, NEW t \in Api, NEW i \in Intents, get_pos_payment_intent(t, i)
  PROVE  LinkInv'
<1>. DEFINE request == [Idle EXCEPT !.link = {i}, !.phase = "polled"]
<1>1. /\ Shape /\ Begins(t, "get_pos_payment_intent", request)
      /\ UNCHANGED <<sale, intent, spentOn, live>> /\ intent[i] = "PENDING"
  BY DEF get_pos_payment_intent, links, LinkInv
<1>2. /\ DOMAIN request = DOMAIN Idle /\ request.pays = Idle.pays
      /\ request.link = {i} /\ request.phase = "polled"
  BY DEF Idle
<1>. HIDE DEF request
<1>3. /\ DOMAIN txn' = Api
      /\ txn'[t].op = "get_pos_payment_intent" /\ txn'[t].phase = "polled"
      /\ txn'[t].link = {i}
      /\ \A u \in Api \ {t} : txn'[u] = txn[u]
      /\ \A u \in Api : SlotShape(u)'
  BY <1>1, <1>2, IdleShape, BeginsSlot
<1>4. Shape' /\ Forward /\ LinksStay /\ SpentStay /\ \A u \in Api \ {t} : Kept(u)
  BY <1>1, <1>3 DEF Shape, SaleShape, Forward, LinksStay, SpentStay, Kept
<1>5. Locked(t)' = {} /\ Sending(t)' = {}
  BY <1>3 DEF Locked, Sending, Committing
<1>6. Holds(t)' /\ \A u \in Api \ {t} : Apart(t, u)'
  BY <1>1, <1>3, <1>5 DEF Holds, Apart
<1>. QED
  BY <1>1, <1>4, <1>6, SlotMoves

\* The poll writes by primary key, but the lock of a checkout makes it wait: it
\* may overwrite a PAID or a CONSUMED intent, never a held one.
LEMMA PollCommits ==
  ASSUME LinkInv, NEW t \in Api, CommitPoll(t)
  PROVE  LinkInv'
<1>1. /\ Shape /\ Ends(t) /\ UNCHANGED <<sale, spentOn, live>>
      /\ txn[t].link \subseteq Intents
  BY DEF CommitPoll, IntentBecomes, LinkInv, Shape, SlotShape
<1>2. /\ DOMAIN txn' = Api /\ txn'[t] = Idle
      /\ \A u \in Api \ {t} : txn'[u] = txn[u]
      /\ \A u \in Api : SlotShape(u)'
  BY <1>1, EndsSlot
<1>3. PICK i \in txn[t].link :
        \/ IntentFree(i) /\ intent' = [intent EXCEPT ![i] = "EXPIRED"]
        \/ intent' = [intent EXCEPT ![i] = intent[i]]
  BY DEF CommitPoll, IntentBecomes
<1>4. /\ intent' \in [Intents -> IntentStatuses]
      /\ Forward /\ LinksStay /\ SpentStay /\ \A u \in Api \ {t} : Kept(u)
  <2>1. CASE IntentFree(i) /\ intent' = [intent EXCEPT ![i] = "EXPIRED"]
    <3>1. intent[i] # "ABSENT"
      BY DEF LinkInv, Holds, CommitPoll
    <3>2. Unkept(i)
      BY <2>1, <3>1 DEF Unkept, IntentFree, Locked, Committing, LinkInv, Holds
    <3>. QED
      BY <1>1, <1>2, <2>1, <3>2, StatusWritten DEF IntentStatuses
  <2>2. CASE intent' = [intent EXCEPT ![i] = intent[i]]
    <3>1. intent' \in [Intents -> IntentStatuses] /\ \A j \in Intents : intent'[j] = intent[j]
      BY <1>1, <2>2 DEF Shape
    <3>2. \A u \in Api : Locked(u) \cup Sending(u) \subseteq Intents
      BY <1>1 DEF Locked, Sending, Listed, Shape, SlotShape
    <3>. QED
      BY <1>1, <1>2, <3>1, <3>2 DEF Forward, LinksStay, SpentStay, Kept
  <2>. QED
    BY <1>3, <2>1, <2>2
<1>5. Shape'
  BY <1>1, <1>2, <1>4 DEF Shape, SaleShape
<1>6. Locked(t)' = {} /\ Sending(t)' = {} /\ Holds(t)'
  BY <1>2, IdleShape DEF Holds, Locked, Sending, Committing
<1>7. \A u \in Api \ {t} : Apart(t, u)'
  BY <1>6 DEF Apart
<1>. QED
  BY <1>1, <1>4, <1>5, <1>6, <1>7, SlotMoves

\* A request that is refused, loses to another, or dies.
LEMMA RequestDropped ==
  ASSUME LinkInv, NEW t \in Api, ReplayWinner(t) \/ LinksCollide(t) \/ Crash(t)
  PROVE  LinkInv'
<1>1. Ends(t) /\ UNCHANGED <<sale, intent, spentOn, live>>
  BY DEF ReplayWinner, LinksCollide, Crash, links
<1>2. DOMAIN sale' = Sales /\ (\A o \in Sales : SaleShape(o)') /\ LinksStay
  BY <1>1 DEF LinkInv, Shape, SaleShape, LinksStay
<1>. QED
  BY <1>1, <1>2, EndsKeepsLinks

LEMMA WorldMoves ==
  ASSUME LinkInv, NEW i \in Intents, CustomerPays(i) \/ GrowsStale(i)
  PROVE  LinkInv'
BY NothingMoves DEF CustomerPays, GrowsStale, LinkInv, Shape

-----------------------------------------------------------------------------
(* The theorems *)

LEMMA LinkInit == Init => LinkInv
<1>. SUFFICES ASSUME Init
              PROVE  LinkInv
  OBVIOUS
<1>1. \A o \in Sales : sale[o] = Unsold /\ DOMAIN sale = Sales
  BY DEF Init
<1>2. Unsold.links = NoLinks /\ NoLinks \in [Intents -> 0..2] /\ \A i \in Intents : NoLinks[i] = 0
  BY DEF Unsold, NoLinks
<1>3. \A t \in Api : txn[t] = Idle
  BY DEF Init
<1>4. Shape
  <2>1. \A o \in Sales : SaleShape(o)
    BY <1>1, <1>2 DEF SaleShape
  <2>2. \A t \in Api : SlotShape(t)
    BY <1>3, IdleShape DEF SlotShape
  <2>3. DOMAIN sale = Sales /\ DOMAIN txn = Api /\ live \subseteq Intents
    BY DEF Init
  <2>4. intent \in [Intents -> IntentStatuses] /\ spentOn \in [Intents -> Sales \cup {NoSale}]
    BY DEF Init, IntentStatuses
  <2>. QED
    BY <2>1, <2>2, <2>3, <2>4 DEF Shape
<1>5. \A t \in Api : Locked(t) = {} /\ Sending(t) = {} /\ Holds(t)
  BY <1>3, IdleShape DEF Locked, Sending, Committing, Holds
<1>6. \A i \in Intents : SpentOK(i)
  <2>1. \A i \in Intents : spentOn[i] = NoSale
    BY DEF Init
  <2>2. \A i \in Intents, o \in Sales : sale[o].links[i] = 0
    BY <1>1, <1>2
  <2>. QED
    BY <2>1, <2>2, PosAssumption DEF SpentOK
<1>7. SpentInOneSale
  BY <1>1, <1>2 DEF SpentInOneSale
<1>. QED
  BY <1>4, <1>5, <1>6, <1>7 DEF LinkInv, Apart

LEMMA LinkNext == LinkInv /\ [Next]_vars => LinkInv'
<1>. SUFFICES ASSUME LinkInv, [Next]_vars
              PROVE  LinkInv'
  OBVIOUS
<1>1. CASE UNCHANGED vars
  BY <1>1, NothingMoves DEF vars, LinkInv, Shape
<1>2. CASE Immediate
  BY <1>2, SessionOpens, RowsAtOnce, IntentsAtOnce DEF Immediate
<1>3. CASE Environment
  BY <1>3, WorldMoves DEF Environment
<1>4. ASSUME NEW t \in Api, Requests(t)
      PROVE  LinkInv'
  <2>1. ASSUME NEW o \in Sales, refund_pos_order(t, o) \/ void_pos_order(t, o)
        PROVE  LinkInv'
    BY <2>1, ReversalBegins DEF refund_pos_order, void_pos_order
  <2>. QED
    BY <1>4, <2>1, CheckoutBegins, CashUpBegins, PatchBegins, LinkSent, PollBegins
       DEF Requests
<1>5. ASSUME NEW t \in Api, Step(t)
      PROVE  LinkInv'
  BY <1>5, TillTaken, LinksLocked, RequestDropped, CheckoutCommits, RowCommits,
     LinkCommits, PollCommits DEF Step
<1>6. ASSUME NEW t \in Api, Crash(t)
      PROVE  LinkInv'
  BY <1>6, RequestDropped
<1>. QED
  BY <1>1, <1>2, <1>3, <1>4, <1>5, <1>6 DEF Next

\* The invariant of every reachable state: what requests hold, and that what a
\* sale was paid with stays spent.
THEOREM LinksInvariant == Spec => []LinkInv
<1>. QED
  BY LinkInit, LinkNext, PTL DEF Spec

\* A customer's link payment settles at most one sale, with every handler in
\* service and however many requests, sales and intents there are
\* (create_pos_order's locked loop over the intents, _mark_intent_paid).
THEOREM LinkSettlesOneSale == Spec => []SpentInOneSale
<1>1. LinkInv => SpentInOneSale
  BY DEF LinkInv
<1>. QED
  BY <1>1, LinksInvariant, PTL

-----------------------------------------------------------------------------
(* The handlers, the unlocked poll included, implement PayLinkIntent *)

\* Each step is one of PayLinkIntent's, or leaves its variables alone.
IntentStep == StateMachine!Next \/ UNCHANGED <<intent, spentOn, Seen>>

\* What the poll in slot t has read as PENDING.
Seeing(t) == IF txn[t].phase = "polled" THEN txn[t].link ELSE {}

LEMMA SeenIsSeeing ==
  /\ \A i : i \in Seen <=> \E t \in Api : i \in Seeing(t)
  /\ \A i : i \in Seen' <=> \E t \in Api : i \in Seeing(t)'
  BY DEF Seen, Seeing

\* A step of slot t that neither begins nor ends a poll.
LEMMA SeenStays ==
  ASSUME NEW t \in Api, txn[t].phase # "polled", txn'[t].phase # "polled",
         \A u \in Api \ {t} : txn'[u] = txn[u]
  PROVE  Seen' = Seen
<1>1. \A u \in Api : Seeing(u)' = Seeing(u)
  BY DEF Seeing
<1>. QED
  BY <1>1, SeenIsSeeing

LEMMA SeenStaysAtEnd ==
  ASSUME Shape, NEW t \in Api, Ends(t), txn[t].phase # "polled"
  PROVE  Seen' = Seen
<1>1. txn'[t].phase # "polled" /\ \A u \in Api \ {t} : txn'[u] = txn[u]
  BY EndsSlot, IdleShape
<1>. QED
  BY <1>1, SeenStays

LEMMA SeenStaysAtBegin ==
  ASSUME Shape, NEW t \in Api, NEW op, NEW request, Begins(t, op, request),
         DOMAIN request = DOMAIN Idle, request.phase # "polled"
  PROVE  Seen' = Seen
<1>1. /\ txn'[t] = [request EXCEPT !.op = op]
      /\ \A u \in Api \ {t} : txn'[u] = txn[u]
  BY DEF Begins, Shape
<1>2. txn'[t].phase # "polled"
  BY <1>1 DEF Idle
<1>3. txn[t].phase # "polled"
  BY IdleShape DEF Begins
<1>. QED
  BY <1>1, <1>2, <1>3, SeenStays

\* A poll that ends: its intent may be on the screen of another till.
LEMMA SeenShrinks ==
  ASSUME Shape, NEW t \in Api, Ends(t), NEW i, Seeing(t) \subseteq {i}
  PROVE  Seen' \in {Seen, Seen \ {i}}
<1>1. /\ Seeing(t)' = {}
      /\ \A u \in Api \ {t} : Seeing(u)' = Seeing(u)
  BY EndsSlot, IdleShape DEF Seeing
<1>2. CASE \E u \in Api \ {t} : i \in Seeing(u)
  <2>1. \A j : j \in Seen' <=> j \in Seen
    BY <1>1, <1>2, SeenIsSeeing
  <2>. QED
    BY <2>1
<1>3. CASE ~ \E u \in Api \ {t} : i \in Seeing(u)
  <2>1. \A j : j \in Seen' <=> j \in Seen \ {i}
    BY <1>1, <1>3, SeenIsSeeing
  <2>. QED
    BY <2>1
<1>. QED
  BY <1>2, <1>3

LEMMA PollSteps ==
  ASSUME LinkInv, NEW t \in Api, NEW i \in Intents, get_pos_payment_intent(t, i)
  PROVE  StateMachine!Next
<1>. DEFINE request == [Idle EXCEPT !.link = {i}, !.phase = "polled"]
<1>1. /\ intent[i] = "PENDING" /\ Begins(t, "get_pos_payment_intent", request)
      /\ UNCHANGED <<intent, spentOn>> /\ Shape
  BY DEF get_pos_payment_intent, links, LinkInv
<1>2. /\ DOMAIN request = DOMAIN Idle /\ request.pays = Idle.pays
      /\ request.link = {i} /\ request.phase = "polled"
  BY DEF Idle
<1>3. txn[t].phase # "polled"
  BY <1>1, IdleShape DEF Begins
<1>. HIDE DEF request
<1>4. /\ txn'[t].phase = "polled" /\ txn'[t].link = {i}
      /\ \A u \in Api \ {t} : txn'[u] = txn[u]
  BY <1>1, <1>2, IdleShape, BeginsSlot
<1>5. \A j : j \in Seen' <=> j \in Seen \cup {i}
  <2>1. Seeing(t)' = {i} /\ Seeing(t) = {} /\ \A u \in Api \ {t} : Seeing(u)' = Seeing(u)
    BY <1>3, <1>4 DEF Seeing
  <2>. QED
    BY <2>1, SeenIsSeeing
<1>6. StateMachine!Look(i)
  BY <1>1, <1>5 DEF StateMachine!Look
<1>. QED
  BY <1>6 DEF StateMachine!Next

\* A poll answers, or dies with its process.
LEMMA PollEnds ==
  ASSUME LinkInv, NEW t \in Api, Ends(t), spentOn' = spentOn,
         \/ intent' = intent
         \/ \E i \in Seeing(t) : intent' = [intent EXCEPT ![i] = "EXPIRED"]
  PROVE  IntentStep
<1>1. Shape /\ Seeing(t) \subseteq Intents /\ \A i, j \in Seeing(t) : i = j
  BY DEF LinkInv, Holds, Shape, SlotShape, Seeing
<1>2. CASE Seeing(t) = {}
  <2>1. Seen' = Seen
    BY <1>1, <1>2, SeenShrinks, SeenIsSeeing
  <2>. QED
    BY <1>2, <2>1 DEF IntentStep
<1>3. ASSUME NEW i \in Seeing(t)
      PROVE  IntentStep
  <2>1. i \in Intents /\ Seeing(t) \subseteq {i}
    BY <1>1
  <2>2. i \in Seen /\ Seen' \in {Seen, Seen \ {i}}
    BY <1>1, <2>1, SeenShrinks, SeenIsSeeing
  <2>3. CASE intent' = intent
    BY <2>1, <2>2, <2>3 DEF IntentStep, StateMachine!Next, StateMachine!LookAway
  <2>4. CASE \E j \in Seeing(t) : intent' = [intent EXCEPT ![j] = "EXPIRED"]
    <3>1. intent' = [intent EXCEPT ![i] = "EXPIRED"]
      BY <2>1, <2>4
    <3>. QED
      BY <2>1, <2>2, <3>1 DEF IntentStep, StateMachine!Next, StateMachine!ExpireSeen
  <2>. QED
    BY <2>3, <2>4
<1>. QED
  BY <1>2, <1>3

LEMMA StatusSteps ==
  ASSUME Shape, NEW i \in Intents, NEW status, UNCHANGED <<spentOn, Seen>>,
         intent' = [intent EXCEPT ![i] = status],
         \/ intent[i] = "ABSENT" /\ status \in {"PENDING", "FAILED"}
         \/ intent[i] = "PENDING" /\ status \in {"PAID", "EXPIRED", "CANCELLED"}
  PROVE  StateMachine!Next
<1>1. \A from : intent[i] = from => StateMachine!Becomes(i, from, status)
  BY DEF StateMachine!Becomes
<1>2. StateMachine!Request(i) \/ StateMachine!Pay(i) \/ StateMachine!GiveUp(i)
  BY <1>1 DEF StateMachine!Request, StateMachine!Pay, StateMachine!GiveUp
<1>. QED
  BY <1>2 DEF StateMachine!Next

LEMMA ImmediateSteps ==
  ASSUME LinkInv, NEW i \in Intents,
         \/ LinkUnavailable(i) \/ mark_intent_paid(i)
         \/ cancel_pos_payment_intent(i) \/ resend_pos_payment_intent(i)
  PROVE  StateMachine!Next
<1>1. Shape /\ Seen' = Seen
  BY DEF LinkInv, LinkUnavailable, mark_intent_paid, cancel_pos_payment_intent,
         resend_pos_payment_intent, Seen
<1>2. PICK status :
        /\ intent' = [intent EXCEPT ![i] = status] /\ UNCHANGED spentOn
        /\ \/ intent[i] = "ABSENT" /\ status \in {"PENDING", "FAILED"}
           \/ intent[i] = "PENDING" /\ status \in {"PAID", "EXPIRED", "CANCELLED"}
  BY DEF LinkUnavailable, mark_intent_paid, cancel_pos_payment_intent,
         resend_pos_payment_intent, IntentBecomes, Lapsed
<1>. QED
  BY <1>1, <1>2, StatusSteps

LEMMA LinkCommitSteps ==
  ASSUME LinkInv, NEW t \in Api, CommitLink(t)
  PROVE  IntentStep
<1>1. /\ Shape /\ spentOn' = spentOn /\ Sending(t) \subseteq Intents
      /\ intent' = [i \in Intents |-> IF i \in Sending(t) THEN "PENDING" ELSE intent[i]]
      /\ \A i, j \in Sending(t) : i = j
      /\ \A i \in Sending(t) : intent[i] = "ABSENT"
  BY DEF CommitLink, Sending, LinkInv, Shape, SlotShape, Holds
<1>2. Seen' = Seen
  BY <1>1, SeenStaysAtEnd DEF CommitLink
<1>3. CASE Sending(t) = {}
  <2>1. intent' = intent
    BY <1>1, <1>3 DEF Shape
  <2>. QED
    BY <1>1, <1>2, <2>1 DEF IntentStep
<1>4. ASSUME NEW i \in Sending(t)
      PROVE  IntentStep
  <2>1. i \in Intents /\ intent[i] = "ABSENT" /\ intent' = [intent EXCEPT ![i] = "PENDING"]
    BY <1>1 DEF Shape
  <2>. QED
    BY <1>1, <1>2, <2>1, StatusSteps DEF IntentStep
<1>. QED
  BY <1>3, <1>4

LEMMA AtMostOne ==
  ASSUME NEW S, IsFiniteSet(S), Cardinality(S) <= 1, NEW i \in S, NEW j \in S
  PROVE  i = j
<1>. SUFFICES ASSUME i # j
              PROVE  FALSE
  OBVIOUS
<1>1. IsFiniteSet({i}) /\ Cardinality({i}) = 1
  BY FS_Singleton
<1>2. Cardinality({i} \cup {j}) = 2
  BY <1>1, FS_AddElement
<1>3. Cardinality({i} \cup {j}) <= Cardinality(S)
  BY FS_Subset
<1>4. Cardinality(S) \in Nat
  BY FS_CardinalityType
<1>. QED
  BY <1>2, <1>3, <1>4

\* A sale not rung up yet is no intent's order_id.
LEMMA CheckoutSteps ==
  ASSUME LinkInv, NEW t \in Api, CommitCheckout(t)
  PROVE  IntentStep
<1>. DEFINE mine == Listed(txn[t].pays)
<1>1. PICK o \in Sales :
        /\ ~Sold(o)
        /\ intent' = [i \in Intents |-> IF i \in mine THEN "CONSUMED" ELSE intent[i]]
        /\ spentOn' = [i \in Intents |-> IF i \in mine THEN o ELSE spentOn[i]]
  BY DEF CommitCheckout
<1>2. /\ Shape /\ mine \subseteq Intents
      /\ \A i \in mine : intent[i] = "PAID"
  BY DEF CommitCheckout, LinkInv, Holds, Locked, Listed
<1>3. \A i, j \in mine : i = j
  <2>1. IsFiniteSet(mine) /\ Cardinality(mine) <= 1
    BY <1>2, PosAssumption, FS_Subset DEF CommitCheckout
  <2>. QED
    BY <2>1, AtMostOne
<1>4. \A j \in Intents : spentOn[j] # o
  BY <1>1 DEF LinkInv, SpentOK, Sold, Unsold, NoLinks
<1>5. Seen' = Seen
  BY <1>2, SeenStaysAtEnd DEF CommitCheckout, Committing
<1>. HIDE DEF mine
<1>6. CASE mine = {}
  <2>1. intent' = intent /\ spentOn' = spentOn
    BY <1>1, <1>2, <1>6 DEF Shape
  <2>. QED
    BY <1>5, <2>1 DEF IntentStep
<1>7. ASSUME NEW i \in mine
      PROVE  IntentStep
  <2>1. /\ intent' = [intent EXCEPT ![i] = "CONSUMED"]
        /\ spentOn' = [spentOn EXCEPT ![i] = o]
    BY <1>1, <1>2, <1>3 DEF Shape
  <2>2. StateMachine!Consume(i, o)
    BY <1>2, <1>4, <1>5, <2>1 DEF StateMachine!Consume
  <2>. QED
    BY <1>2, <2>2 DEF IntentStep, StateMachine!Next
<1>. QED
  BY <1>6, <1>7

\* The requests that touch no intent when they begin.
LEMMA OtherRequests ==
  ASSUME LinkInv, NEW t \in Api, Requests(t),
         ~ \E i \in Intents : get_pos_payment_intent(t, i)
  PROVE  UNCHANGED <<intent, spentOn, Seen>>
<1>1. UNCHANGED <<intent, spentOn>>
  BY DEF Requests, create_pos_order, close_till, refund_pos_order,
     void_pos_order, BeginReversal, update_payment_status, create_pos_payment_intent,
     links
<1>2. Shape
  BY DEF LinkInv
<1>3. ASSUME NEW key \in Keys \cup {NoKey}, NEW pays \in Payments,
             create_pos_order(t, key, pays)
      PROVE  Seen' = Seen
  <2>. DEFINE request == [Idle EXCEPT !.phase = "till", !.key = key, !.pays = pays]
  <2>1. DOMAIN request = DOMAIN Idle /\ request.phase # "polled"
    BY DEF Idle
  <2>2. txn' = txn \/ Begins(t, "create_pos_order", request)
    BY <1>3 DEF create_pos_order
  <2>. HIDE DEF request
  <2>. QED
    BY <1>2, <2>1, <2>2, SeenStaysAtBegin DEF Seen
<1>4. ASSUME close_till(t)
      PROVE  Seen' = Seen
  <2>. DEFINE request == [Idle EXCEPT !.amount = ExpectedCash(session)]
  <2>1. DOMAIN request = DOMAIN Idle /\ request.phase # "polled"
    BY DEF Idle
  <2>2. Begins(t, "close_till", request)
    BY <1>4 DEF close_till
  <2>. HIDE DEF request
  <2>. QED
    BY <1>2, <2>1, <2>2, SeenStaysAtBegin
<1>5. ASSUME NEW o \in Sales, NEW op, NEW amount, NEW cash,
             BeginReversal(t, op, o, amount, cash)
      PROVE  Seen' = Seen
  <2>. DEFINE request == [Idle EXCEPT !.sale = o, !.amount = amount, !.cash = cash,
                            !.phase = IF HasCash(o) THEN "till" ELSE "commit"]
  <2>1. DOMAIN request = DOMAIN Idle /\ request.phase # "polled"
    BY DEF Idle
  <2>2. Begins(t, op, request)
    BY <1>5 DEF BeginReversal
  <2>. HIDE DEF request
  <2>. QED
    BY <1>2, <2>1, <2>2, SeenStaysAtBegin
<1>6. ASSUME NEW o \in Sales, NEW new, update_payment_status(t, o, new)
      PROVE  Seen' = Seen
  <2>. DEFINE request == [Idle EXCEPT !.sale = o, !.to = new]
  <2>1. DOMAIN request = DOMAIN Idle /\ request.phase # "polled"
    BY DEF Idle
  <2>2. Begins(t, "update_payment_status", request)
    BY <1>6 DEF update_payment_status
  <2>. HIDE DEF request
  <2>. QED
    BY <1>2, <2>1, <2>2, SeenStaysAtBegin
<1>7. ASSUME NEW i \in Intents, create_pos_payment_intent(t, i)
      PROVE  Seen' = Seen
  <2>. DEFINE request == [Idle EXCEPT !.link = {i}, !.phase = "sending"]
  <2>1. DOMAIN request = DOMAIN Idle /\ request.phase # "polled"
    BY DEF Idle
  <2>2. Begins(t, "create_pos_payment_intent", request)
    BY <1>7 DEF create_pos_payment_intent
  <2>. HIDE DEF request
  <2>. QED
    BY <1>2, <2>1, <2>2, SeenStaysAtBegin
<1>8. Seen' = Seen
  BY <1>3, <1>4, <1>5, <1>6, <1>7 DEF Requests, refund_pos_order, void_pos_order
<1>. QED
  BY <1>1, <1>8

\* The steps of requests that are no poll and write no intent.
LEMMA OtherSteps ==
  ASSUME LinkInv, NEW t \in Api,
         \/ TakeTill(t) \/ LockLinks(t) \/ ReplayWinner(t) \/ LinksCollide(t)
         \/ CommitClose(t) \/ CommitReversal(t) \/ CommitPatch(t)
  PROVE  UNCHANGED <<intent, spentOn, Seen>>
<1>1. UNCHANGED <<intent, spentOn>>
  BY DEF TakeTill, LockLinks, ReplayWinner, LinksCollide, CommitClose, CommitReversal,
     CommitPatch, links
<1>2. Shape /\ txn[t].phase # "polled"
  BY DEF LinkInv, Holds, TakeTill, LockLinks, ReplayWinner, LinksCollide, Committing,
     CommitClose, CommitReversal, CommitPatch
<1>3. \/ Ends(t)
      \/ \E phase \in {"links", "commit"} : txn' = [txn EXCEPT ![t].phase = phase]
  BY DEF TakeTill, LockLinks, ReplaySpent, ReplayWinner, LinksCollide, CommitClose,
     CommitReversal, CommitPatch
<1>4. CASE Ends(t)
  BY <1>1, <1>2, <1>4, SeenStaysAtEnd
<1>5. ASSUME NEW phase \in {"links", "commit"}, txn' = [txn EXCEPT ![t].phase = phase]
      PROVE  Seen' = Seen
  <2>1. txn'[t].phase # "polled" /\ \A u \in Api \ {t} : txn'[u] = txn[u]
    BY <1>2, <1>5, PhaseSlot
  <2>. QED
    BY <1>2, <2>1, SeenStays
<1>. QED
  BY <1>1, <1>3, <1>4, <1>5

LEMMA StepsImplement == LinkInv /\ [Next]_vars => IntentStep
<1>. SUFFICES ASSUME LinkInv, [Next]_vars
              PROVE  IntentStep
  OBVIOUS
<1>1. CASE UNCHANGED <<intent, spentOn, Seen>>
  BY <1>1 DEF IntentStep
<1>2. CASE UNCHANGED vars
  BY <1>1, <1>2 DEF vars, Seen
<1>3. CASE Immediate
  <2>1. CASE open_till
    BY <1>1, <2>1 DEF open_till, links, Seen
  <2>2. ASSUME NEW o \in Sales,
               \/ confirm_pos_order_provider_refund(o)
               \/ \E amount \in 1..Total(o) : refund_order_payment(o, amount)
        PROVE  IntentStep
    BY <1>1, <2>2 DEF confirm_pos_order_provider_refund, refund_order_payment, links, Seen
  <2>. QED
    BY <1>3, <2>1, <2>2, ImmediateSteps DEF Immediate, IntentStep
<1>4. CASE Environment
  BY <1>1, <1>4 DEF Environment, CustomerPays, GrowsStale, Seen
<1>5. ASSUME NEW t \in Api, Requests(t)
      PROVE  IntentStep
  BY <1>5, PollSteps, OtherRequests DEF IntentStep
<1>6. ASSUME NEW t \in Api, Step(t)
      PROVE  IntentStep
  <2>1. CASE CommitPoll(t)
    <3>1. /\ Ends(t) /\ spentOn' = spentOn
          /\ \/ intent' = intent
             \/ \E i \in Seeing(t) : intent' = [intent EXCEPT ![i] = "EXPIRED"]
      BY <2>1 DEF CommitPoll, IntentBecomes, Seeing, LinkInv, Shape
    <3>. QED
      BY <3>1, PollEnds
  <2>2. CASE \/ LockLinks(t) \/ ReplayWinner(t) \/ LinksCollide(t)
             \/ CommitClose(t) \/ CommitReversal(t) \/ CommitPatch(t) \/ TakeTill(t)
    BY <2>2, OtherSteps DEF IntentStep
  <2>. QED
    BY <1>6, <2>1, <2>2, CheckoutSteps, LinkCommitSteps DEF Step
<1>7. ASSUME NEW t \in Api, Crash(t)
      PROVE  IntentStep
  BY <1>7, PollEnds DEF Crash, links
<1>. QED
  BY <1>2, <1>3, <1>4, <1>5, <1>6, <1>7 DEF Next

\* Whatever checkouts, webhooks, polls, cancellations, resends and crashes race,
\* a Pay-by-Link intent moves only as the payment model says it does, or is
\* expired for good by a poll that read it PENDING: every handler implements
\* PayLinkIntent (_mark_intent_paid, _maybe_expire, create_pos_order,
\* get_pos_payment_intent).
THEOREM CheckoutImplementsStateMachine == Spec => IntentsFollowStateMachine
<1>1. Init => StateMachine!Init
  BY IdleShape DEF Init, StateMachine!Init, Seen
<1>2. LinkInv /\ [Next]_vars => [StateMachine!Next]_(StateMachine!vars)
  BY StepsImplement DEF IntentStep, StateMachine!vars
<1>. QED
  BY <1>1, <1>2, LinksInvariant, PTL
     DEF Spec, IntentsFollowStateMachine, StateMachine!Spec

-----------------------------------------------------------------------------
(* Answers to repeated checkouts *)

\* A key belongs to one sale, and every answer names the sale of its key.
KeysOK ==
  /\ \A o, p \in Sales : sale[o].key # NoKey /\ sale[o].key = sale[p].key => o = p
  /\ \A r \in replies : r[1] # NoKey /\ r[2] \in Sales /\ sale[r[2]].key = r[1]

KeysStay == \A o \in Sales : sale'[o].key = sale[o].key

\* However it is found, the sale of the key is what the answer names.
AnswersKey(key) ==
  replies' = replies \/ \E o \in WithKey(key) : Answered(key, o)

LEMMA KeysKept ==
  ASSUME KeysOK, KeysStay, NEW key, AnswersKey(key)
  PROVE  KeysOK'
<1>1. \A r \in replies' : r \in replies \/ \E o \in WithKey(key) : r = <<key, o>>
  BY DEF AnswersKey, Answered
<1>2. \A o \in WithKey(key) : o \in Sales /\ key # NoKey /\ sale[o].key = key
  BY DEF WithKey
<1>3. \A r \in replies' : r[1] # NoKey /\ r[2] \in Sales /\ sale[r[2]].key = r[1]
  BY <1>1, <1>2 DEF KeysOK
<1>. QED
  BY <1>3 DEF KeysOK, KeysStay

\* The unique index at work: nobody else has the key of the sale rung up.
LEMMA CheckoutKeepsKeys ==
  ASSUME Shape, KeysOK, NEW t \in Api, CommitCheckout(t)
  PROVE  KeysOK'
<1>1. PICK o \in Sales :
        /\ ~Sold(o)
        /\ sale' = [sale EXCEPT ![o] = RungUp(t)]
        /\ IF txn[t].key = NoKey THEN replies' = replies ELSE Answered(txn[t].key, o)
  BY DEF CommitCheckout
<1>. DEFINE key == txn[t].key
<1>2. sale'[o].key = key /\ \A p \in Sales \ {o} : sale'[p] = sale[p]
  BY <1>1 DEF Shape, RungUp
<1>3. key # NoKey => \A p \in Sales \ {o} : sale[p].key # key
  <2>1. WithKey(key) = {}
    BY DEF CommitCheckout
  <2>2. Unsold.key = NoKey
    BY DEF Unsold
  <2>. HIDE DEF key
  <2>. QED
    BY <2>1, <2>2 DEF WithKey, Sold
<1>4. sale[o].key = NoKey
  BY <1>1 DEF Sold, Unsold
<1>5. \A r \in replies' : r \in replies \/ (key # NoKey /\ r = <<key, o>>)
  <2>1. CASE key = NoKey
    BY <1>1, <2>1 DEF Answered
  <2>2. CASE key # NoKey
    <3>1. replies' = replies \cup {<<key, o>>}
      BY <1>1, <2>2 DEF Answered
    <3>. HIDE DEF key
    <3>. QED
      BY <2>2, <3>1
  <2>. QED
    BY <2>1, <2>2
<1>. HIDE DEF key
<1>6. \A r \in replies' : r[1] # NoKey /\ r[2] \in Sales /\ sale'[r[2]].key = r[1]
  BY <1>2, <1>4, <1>5 DEF KeysOK
<1>7. \A p, q \in Sales : sale'[p].key # NoKey /\ sale'[p].key = sale'[q].key => p = q
  BY <1>2, <1>3 DEF KeysOK
<1>. QED
  BY <1>6, <1>7 DEF KeysOK

\* No handler rewrites the key of a row.
LEMMA RowsKeepKeys ==
  ASSUME Shape, NEW t \in Api,
         CommitReversal(t) \/ CommitPatch(t)
  PROVE  KeysStay /\ replies' = replies
<1>1. "key" \in DOMAIN Unsold
  BY DEF Unsold
<1>2. \A o \in Sales : "key" \in DOMAIN sale[o]
  BY <1>1 DEF Shape, SaleShape
<1>3. CASE CommitReversal(t)
  BY <1>2, <1>3 DEF CommitReversal, KeysStay, Shape, answers
<1>4. CASE CommitPatch(t)
  BY <1>2, <1>4 DEF CommitPatch, KeysStay, Shape, answers
<1>. QED
  BY <1>3, <1>4

LEMMA KeysNext == LinkInv /\ KeysOK /\ [Next]_vars => KeysOK'
<1>. SUFFICES ASSUME LinkInv, KeysOK, [Next]_vars
              PROVE  KeysOK'
  OBVIOUS
<1>1. Shape
  BY DEF LinkInv
<1>2. ASSUME sale' = sale, NEW key, AnswersKey(key)
      PROVE  KeysOK'
  BY <1>2, KeysKept DEF KeysStay
<1>3. ASSUME KeysStay, replies' = replies
      PROVE  KeysOK'
  BY <1>3, KeysKept DEF AnswersKey
<1>4. ASSUME sale' = sale, replies' = replies
      PROVE  KeysOK'
  BY <1>2, <1>4 DEF AnswersKey
<1>5. CASE UNCHANGED vars
  BY <1>4, <1>5 DEF vars
<1>6. CASE Immediate
  <2>1. CASE open_till
    BY <1>4, <2>1 DEF open_till, answers
  <2>2. ASSUME NEW o \in Sales, confirm_pos_order_provider_refund(o)
        PROVE  KeysOK'
    <3>1. KeysStay /\ replies' = replies
      <4>1. \A p \in Sales : "key" \in DOMAIN sale[p]
        BY <1>1 DEF Shape, SaleShape, Unsold
      <4>. QED
        BY <1>1, <2>2, <4>1 DEF confirm_pos_order_provider_refund, KeysStay, Shape, answers
    <3>. QED
      BY <1>3, <3>1
  <2>3. ASSUME NEW o \in Sales, NEW amount \in 1..Total(o), refund_order_payment(o, amount)
        PROVE  KeysOK'
    <3>1. KeysStay /\ replies' = replies
      <4>1. \A p \in Sales : "key" \in DOMAIN sale[p]
        BY <1>1 DEF Shape, SaleShape, Unsold
      <4>. QED
        BY <1>1, <2>3, <4>1 DEF refund_order_payment, KeysStay, Shape, answers
    <3>. QED
      BY <1>3, <3>1
  <2>4. ASSUME NEW i \in Intents,
               \/ LinkUnavailable(i) \/ mark_intent_paid(i)
               \/ cancel_pos_payment_intent(i) \/ resend_pos_payment_intent(i)
        PROVE  KeysOK'
    BY <1>4, <2>4 DEF LinkUnavailable, mark_intent_paid, cancel_pos_payment_intent,
       resend_pos_payment_intent, IntentBecomes, answers
  <2>. QED
    BY <1>6, <2>1, <2>2, <2>3, <2>4 DEF Immediate
<1>7. CASE Environment
  BY <1>4, <1>7 DEF Environment, CustomerPays, GrowsStale, answers
<1>8. ASSUME NEW t \in Api, Requests(t)
      PROVE  KeysOK'
  <2>1. ASSUME NEW key \in Keys \cup {NoKey}, NEW pays \in Payments,
               create_pos_order(t, key, pays)
        PROVE  KeysOK'
    <3>1. sale' = sale /\ AnswersKey(key)
      BY <2>1 DEF create_pos_order, AnswersKey
    <3>. QED
      BY <1>2, <3>1
  <2>2. CASE \/ close_till(t)
             \/ \E o \in Sales : \/ refund_pos_order(t, o) \/ void_pos_order(t, o)
                                 \/ \E new \in {"UNPAID", "PAID"} : update_payment_status(t, o, new)
             \/ \E i \in Intents : create_pos_payment_intent(t, i) \/ get_pos_payment_intent(t, i)
    BY <1>4, <2>2 DEF close_till, refund_pos_order, void_pos_order, BeginReversal,
       update_payment_status, create_pos_payment_intent, get_pos_payment_intent, answers
  <2>. QED
    BY <1>8, <2>1, <2>2 DEF Requests
<1>9. ASSUME NEW t \in Api, Step(t)
      PROVE  KeysOK'
  <2>1. CASE TakeTill(t)
    BY <1>4, <2>1 DEF TakeTill, answers
  <2>2. CASE LockLinks(t)
    <3>1. sale' = sale /\ AnswersKey(txn[t].key)
      BY <2>2 DEF LockLinks, ReplaySpent, AnswersKey
    <3>. QED
      BY <1>2, <3>1
  <2>3. CASE ReplayWinner(t)
    <3>1. sale' = sale /\ AnswersKey(txn[t].key)
      BY <2>3 DEF ReplayWinner, AnswersKey
    <3>. QED
      BY <1>2, <3>1
  <2>4. CASE LinksCollide(t)
    BY <1>4, <2>4 DEF LinksCollide
  <2>5. CASE CommitCheckout(t)
    BY <1>1, <2>5, CheckoutKeepsKeys
  <2>6. CASE CommitReversal(t) \/ CommitPatch(t)
    BY <1>1, <1>3, <2>6, RowsKeepKeys
  <2>7. CASE CommitClose(t) \/ CommitLink(t) \/ CommitPoll(t)
    BY <1>4, <2>7 DEF CommitClose, CommitLink, CommitPoll, IntentBecomes, answers
  <2>. QED
    BY <1>9, <2>1, <2>2, <2>3, <2>4, <2>5, <2>6, <2>7 DEF Step
<1>10. ASSUME NEW t \in Api, Crash(t)
       PROVE  KeysOK'
  BY <1>4, <1>10 DEF Crash, answers
<1>. QED
  BY <1>5, <1>6, <1>7, <1>8, <1>9, <1>10 DEF Next

\* A checkout sent again with its key, at any time and however it is found out
\* (lookup, spent intent, violated index), is answered with the one sale the key
\* ever made (create_pos_order, _replay_idempotent).
THEOREM RepliesNameTheSale == Spec => []RepliesAgree
<1>1. Init => KeysOK
  <2>. SUFFICES ASSUME Init
                PROVE  KeysOK
    OBVIOUS
  <2>1. \A o \in Sales : sale[o].key = NoKey
    BY DEF Init, Unsold
  <2>. QED
    BY <2>1 DEF Init, KeysOK
<1>2. KeysOK => RepliesAgree
  <2>. SUFFICES ASSUME KeysOK, NEW r \in replies
                PROVE  WithKey(r[1]) = {r[2]}
    BY DEF RepliesAgree
  <2>1. r[1] # NoKey /\ r[2] \in Sales /\ sale[r[2]].key = r[1]
    BY DEF KeysOK
  <2>2. Sold(r[2])
    BY <2>1 DEF Sold, Unsold
  <2>. QED
    BY <2>1, <2>2 DEF WithKey, KeysOK
<1>. QED
  BY <1>1, <1>2, KeysNext, LinksInvariant, PTL DEF Spec


-----------------------------------------------------------------------------
(* Counting money *)

\* A stack of n units has n units.
LEMMA Stack ==
  ASSUME NEW o, NEW n \in Nat
  PROVE  /\ IsFiniteSet({o} \X (1..n))
         /\ Cardinality({o} \X (1..n)) = n
<1>1. IsFiniteSet({o}) /\ Cardinality({o}) = 1
  BY FS_Singleton
<1>2. IsFiniteSet(1..n) /\ Cardinality(1..n) = n
  BY FS_Interval
<1>3. /\ IsFiniteSet({o} \X (1..n))
      /\ Cardinality({o} \X (1..n)) = Cardinality({o}) * Cardinality(1..n)
  BY <1>1, <1>2, FS_Product
<1>4. Cardinality({o}) * Cardinality(1..n) = n
  BY <1>1, <1>2
<1>. QED
  BY <1>3, <1>4

\* A finite number of finite amounts is a finite amount.
LEMMA UnitsFinite ==
  ASSUME NEW amount, IsFiniteSet(DOMAIN amount),
         \A o \in DOMAIN amount : amount[o] \in Nat
  PROVE  /\ IsFiniteSet(Units(amount))
         /\ Cardinality(Units(amount)) \in Nat
<1>. DEFINE S == DOMAIN amount
            stack == [o \in S |-> {o} \X (1..amount[o])]
            stacks == {{o} \X (1..amount[o]) : o \in S}
<1>1. stack \in Surjection(S, stacks)
  BY DEF Surjection
<1>2. IsFiniteSet(stacks)
  BY <1>1, FS_Surjection
<1>3. \A x \in stacks : IsFiniteSet(x)
  BY Stack
<1>4. IsFiniteSet(UNION stacks)
  BY <1>2, <1>3, FS_UNION
<1>. QED
  BY <1>4, FS_CardinalityType DEF Units

\* One order more, with its amount: that much more money.
LEMMA UnitsMore ==
  ASSUME NEW a, NEW b, NEW o, IsFiniteSet(DOMAIN a),
         \A x \in DOMAIN a : a[x] \in Nat,
         o \notin DOMAIN a, DOMAIN b = DOMAIN a \cup {o},
         \A x \in DOMAIN a : b[x] = a[x], b[o] \in Nat
  PROVE  Cardinality(Units(b)) = Cardinality(Units(a)) + b[o]
<1>. DEFINE more == {o} \X (1..b[o])
<1>1. IsFiniteSet(Units(a)) /\ Cardinality(Units(a)) \in Nat
  BY UnitsFinite
<1>2. IsFiniteSet(more) /\ Cardinality(more) = b[o]
  BY Stack
<1>3. Units(b) = Units(a) \cup more
  BY DEF Units
<1>4. Units(a) \cap more = {}
  BY DEF Units
<1>. HIDE DEF more
<1>5. Cardinality(Units(a) \cup more)
      = Cardinality(Units(a)) + Cardinality(more) - Cardinality(Units(a) \cap more)
  BY <1>1, <1>2, FS_Union
<1>6. Cardinality({}) = 0
  BY FS_EmptySet
<1>7. Cardinality(Units(a) \cap more) = 0
  BY <1>4, <1>6
<1>8. Cardinality(Units(b)) = Cardinality(Units(a) \cup more)
  BY <1>3
<1>. QED
  BY <1>1, <1>2, <1>5, <1>7, <1>8

LEMMA LinkUnitsNat ==
  ASSUME NEW times
  PROVE  LinkUnits(times) \in Nat
<1>1. IsFiniteSet(Intents \X (1..2))
  <2>1. IsFiniteSet(1..2)
    <3>1. 1 \in Int /\ 2 \in Int
      OBVIOUS
    <3>. QED
      BY <3>1, FS_Interval, Zenon
  <2>2. IsFiniteSet(Intents)
    BY PosAssumption
  <2>. QED
    BY <2>1, <2>2, FS_Product
<1>2. {u \in Intents \X (1..2) : u[2] <= times[u[1]]} \in SUBSET (Intents \X (1..2))
  OBVIOUS
<1>. QED
  BY <1>1, <1>2, FS_Subset, FS_CardinalityType DEF LinkUnits


-----------------------------------------------------------------------------
(* The drawer and the refunds, as long as the payment PATCH is out of service *)

NoPatch == "update_payment_status" \notin Handlers

Reversing(t) == txn[t].op \in {"refund_pos_order", "void_pos_order"}

\* A sale gives back what it took at most, and nothing while it is PAID.
RowOK(o) ==
  /\ sale[o].cash \in Nat /\ sale[o].card \in Nat
  /\ sale[o].till \in 0..session /\ sale[o].refundedIn \in 0..session
  /\ sale[o].refundCash \in Nat
  /\ sale[o].pay = "PAID" => sale[o].refundCash = 0
  /\ back[o] \in 0..Total(o)
  /\ sale[o].pay \in {"ABSENT", "PAID"} => back[o] = 0

\* A reversal under way reverses a PAID sale, by no more than it took.
ReversalOK(t) == \E o \in Sales :
  /\ o = txn[t].sale
  /\ sale[o].pay = "PAID"
  /\ txn[t].amount \in 0..Total(o) /\ txn[t].cash \in 0..sale[o].cash
  /\ txn[t].phase \in {"till", "commit"}
  /\ txn[t].phase = "till" => HasCash(o)

\* A cash-up under way has counted the drawer as it is; the till is held while it is open.
RequestOK(t) ==
  /\ txn[t].pays.cash \in Nat /\ txn[t].pays.card \in Nat
  /\ txn[t].phase = "till" => txn[t].op = "create_pos_order" \/ Reversing(t)
  /\ HoldsTill(t) => open
  /\ txn[t].op = "close_till" =>
       /\ txn[t].phase = "commit"
       /\ \A s \in Sessions : s = session => txn[t].amount = ExpectedCash(s)
  /\ Reversing(t) => ReversalOK(t)

\* One request has the till, and one has the order.
Alone(t, u) ==
  /\ ~(HoldsTill(t) /\ HoldsTill(u))
  /\ Reversing(t) /\ Reversing(u) => txn[t].sale # txn[u].sale

\* The drawer of the open session is what a cash-up would count.
DrawerOK ==
  /\ session \in 0..MaxSessions /\ open \in BOOLEAN
  /\ open => session > 0
  /\ drawer \in [Sessions -> Int] /\ DOMAIN expected = Sessions
  /\ \A s \in Sessions : open /\ s = session => drawer[s] = ExpectedCash(s)
  /\ \A s \in Sessions : s > session => drawer[s] = 0
  /\ CashUpExact

MoneyInv ==
  /\ DrawerOK
  /\ \A o \in Sales : RowOK(o)
  /\ \A t \in Api : RequestOK(t)
  /\ \A t, u \in Api : t # u => Alone(t, u)

-----------------------------------------------------------------------------
(* What a cash-up counts *)

CashIn(s) == [o \in RungUpIn(s) |-> sale[o].cash]
CashOut(s) == [o \in ReversedSince(s) |-> sale[o].refundCash]

LEMMA CountIs ==
  ASSUME NEW s
  PROVE  ExpectedCash(s) = Cardinality(Units(CashIn(s))) - Cardinality(Units(CashOut(s)))
BY DEF ExpectedCash, CashIn, CashOut

LEMMA CountsFinite ==
  ASSUME \A o \in Sales : RowOK(o), NEW s
  PROVE  /\ IsFiniteSet(DOMAIN CashIn(s)) /\ \A o \in DOMAIN CashIn(s) : CashIn(s)[o] \in Nat
         /\ IsFiniteSet(DOMAIN CashOut(s)) /\ \A o \in DOMAIN CashOut(s) : CashOut(s)[o] \in Nat
         /\ Cardinality(Units(CashIn(s))) \in Nat /\ Cardinality(Units(CashOut(s))) \in Nat
<1>1. RungUpIn(s) \in SUBSET Sales /\ ReversedSince(s) \in SUBSET Sales
  BY DEF RungUpIn, ReversedSince
<1>2. IsFiniteSet(Sales)
  BY PosAssumption
<1>3. IsFiniteSet(RungUpIn(s)) /\ IsFiniteSet(ReversedSince(s))
  BY <1>1, <1>2, FS_Subset
<1>4. IsFiniteSet(DOMAIN CashIn(s)) /\ \A o \in DOMAIN CashIn(s) : CashIn(s)[o] \in Nat
  BY <1>1, <1>3 DEF CashIn, RowOK
<1>5. IsFiniteSet(DOMAIN CashOut(s)) /\ \A o \in DOMAIN CashOut(s) : CashOut(s)[o] \in Nat
  BY <1>1, <1>3 DEF CashOut, RowOK
<1>. QED
  BY <1>4, <1>5, UnitsFinite

\* The columns a cash-up reads.
Counted(o) == <<sale[o].cash, sale[o].till, sale[o].refundCash, sale[o].refundedIn,
                sale[o].pay \in Reversed>>

LEMMA CountStays ==
  ASSUME \A o \in Sales : Counted(o)' = Counted(o), NEW s
  PROVE  ExpectedCash(s)' = ExpectedCash(s)
<1>1. /\ \A o \in Sales : /\ sale'[o].cash = sale[o].cash /\ sale'[o].till = sale[o].till
                          /\ sale'[o].refundCash = sale[o].refundCash
                          /\ sale'[o].refundedIn = sale[o].refundedIn
                          /\ (sale'[o].pay \in Reversed) <=> (sale[o].pay \in Reversed)
  BY DEF Counted
<1>2. RungUpIn(s)' = RungUpIn(s) /\ ReversedSince(s)' = ReversedSince(s)
  BY <1>1 DEF RungUpIn, ReversedSince
<1>3. \A o \in RungUpIn(s) : sale'[o].cash = sale[o].cash
  BY <1>1 DEF RungUpIn
<1>4. \A o \in ReversedSince(s) : sale'[o].refundCash = sale[o].refundCash
  BY <1>1 DEF ReversedSince
<1>5. CashIn(s)' = CashIn(s)
  BY <1>2, <1>3 DEF CashIn
<1>6. CashOut(s)' = CashOut(s)
  BY <1>2, <1>4 DEF CashOut
<1>7. ExpectedCash(s)' = Cardinality(Units(CashIn(s)')) - Cardinality(Units(CashOut(s)'))
  BY DEF ExpectedCash, CashIn, CashOut
<1>. QED
  BY <1>5, <1>6, <1>7, CountIs

\* A sale of this session: its cash goes in.
LEMMA CountGrows ==
  ASSUME \A o \in Sales : RowOK(o), NEW s \in Sessions, NEW o \in Sales,
         sale[o].till # s, sale[o].pay \notin Reversed,
         sale'[o].till = s, sale'[o].pay \notin Reversed, sale'[o].cash \in Nat,
         \A p \in Sales \ {o} : sale'[p] = sale[p]
  PROVE  /\ ExpectedCash(s)' = ExpectedCash(s) + sale'[o].cash
         /\ ExpectedCash(s) \in Int
<1>1. RungUpIn(s)' = RungUpIn(s) \cup {o} /\ ReversedSince(s)' = ReversedSince(s)
      /\ o \notin RungUpIn(s)
  BY DEF RungUpIn, ReversedSince
<1>2. /\ DOMAIN CashIn(s) = RungUpIn(s)
      /\ DOMAIN CashIn(s)' = RungUpIn(s)' /\ CashIn(s)'[o] = sale'[o].cash
      /\ \A p \in RungUpIn(s) : CashIn(s)'[p] = CashIn(s)[p]
  BY <1>1 DEF CashIn, RungUpIn
<1>3. CashOut(s)' = CashOut(s)
  <2>1. \A p \in ReversedSince(s) : sale'[p].refundCash = sale[p].refundCash
    BY DEF ReversedSince
  <2>. QED
    BY <1>1, <2>1 DEF CashOut
<1>4. /\ IsFiniteSet(DOMAIN CashIn(s)) /\ \A p \in DOMAIN CashIn(s) : CashIn(s)[p] \in Nat
      /\ Cardinality(Units(CashIn(s))) \in Nat /\ Cardinality(Units(CashOut(s))) \in Nat
  BY CountsFinite
<1>5. Cardinality(Units(CashIn(s)')) = Cardinality(Units(CashIn(s))) + sale'[o].cash
  <2>. DEFINE a == CashIn(s)
              b == CashIn(s)'
  <2>1. /\ IsFiniteSet(DOMAIN a) /\ \A x \in DOMAIN a : a[x] \in Nat
        /\ o \notin DOMAIN a /\ DOMAIN b = DOMAIN a \cup {o}
        /\ \A x \in DOMAIN a : b[x] = a[x]
        /\ b[o] = sale'[o].cash /\ b[o] \in Nat
    BY <1>1, <1>2, <1>4
  <2>. HIDE DEF a, b
  <2>2. Cardinality(Units(b)) = Cardinality(Units(a)) + b[o]
    BY <2>1, UnitsMore
  <2>. QED
    BY <2>1, <2>2 DEF a, b
<1>6. ExpectedCash(s)' = Cardinality(Units(CashIn(s)')) - Cardinality(Units(CashOut(s)'))
  BY DEF ExpectedCash, CashIn, CashOut
<1>. QED
  BY <1>3, <1>4, <1>5, <1>6, CountIs

\* A reversal in this session: its cash comes out, whichever session sold it.
LEMMA CountShrinks ==
  ASSUME \A o \in Sales : RowOK(o), NEW s \in Sessions, NEW o \in Sales,
         sale[o].pay \notin Reversed, sale'[o].pay \in Reversed,
         sale'[o].refundedIn = s, sale'[o].refundCash \in Nat,
         sale'[o].till = sale[o].till, sale'[o].cash = sale[o].cash,
         \A p \in Sales \ {o} : sale'[p] = sale[p]
  PROVE  /\ ExpectedCash(s)' = ExpectedCash(s) - sale'[o].refundCash
         /\ ExpectedCash(s) \in Int
<1>0. s \in Int
  BY PosAssumption DEF Sessions
<1>1. RungUpIn(s)' = RungUpIn(s) /\ ReversedSince(s)' = ReversedSince(s) \cup {o}
      /\ o \notin ReversedSince(s)
  BY <1>0 DEF RungUpIn, ReversedSince
<1>2. /\ DOMAIN CashOut(s) = ReversedSince(s)
      /\ DOMAIN CashOut(s)' = ReversedSince(s)' /\ CashOut(s)'[o] = sale'[o].refundCash
      /\ \A p \in ReversedSince(s) : CashOut(s)'[p] = CashOut(s)[p]
  BY <1>1 DEF CashOut, ReversedSince
<1>3. CashIn(s)' = CashIn(s)
  <2>1. \A p \in RungUpIn(s) : sale'[p].cash = sale[p].cash
    BY DEF RungUpIn
  <2>. QED
    BY <1>1, <2>1 DEF CashIn
<1>4. /\ IsFiniteSet(DOMAIN CashOut(s)) /\ \A p \in DOMAIN CashOut(s) : CashOut(s)[p] \in Nat
      /\ Cardinality(Units(CashIn(s))) \in Nat /\ Cardinality(Units(CashOut(s))) \in Nat
  BY CountsFinite
<1>5. Cardinality(Units(CashOut(s)')) = Cardinality(Units(CashOut(s))) + sale'[o].refundCash
  <2>. DEFINE a == CashOut(s)
              b == CashOut(s)'
  <2>1. /\ IsFiniteSet(DOMAIN a) /\ \A x \in DOMAIN a : a[x] \in Nat
        /\ o \notin DOMAIN a /\ DOMAIN b = DOMAIN a \cup {o}
        /\ \A x \in DOMAIN a : b[x] = a[x]
        /\ b[o] = sale'[o].refundCash /\ b[o] \in Nat
    BY <1>1, <1>2, <1>4
  <2>. HIDE DEF a, b
  <2>2. Cardinality(Units(b)) = Cardinality(Units(a)) + b[o]
    BY <2>1, UnitsMore
  <2>. QED
    BY <2>1, <2>2 DEF a, b
<1>6. ExpectedCash(s)' = Cardinality(Units(CashIn(s)')) - Cardinality(Units(CashOut(s)'))
  BY DEF ExpectedCash, CashIn, CashOut
<1>. QED
  BY <1>3, <1>4, <1>5, <1>6, CountIs

\* A session nobody has sold or refunded in counts nothing.
LEMMA CountStarts ==
  ASSUME \A o \in Sales : RowOK(o), session \in Nat, NEW s \in Nat, s > session
  PROVE  ExpectedCash(s) = 0
<1>1. RungUpIn(s) = {} /\ ReversedSince(s) = {}
  BY DEF RungUpIn, ReversedSince, RowOK
<1>2. \A a : DOMAIN a = {} => Units(a) = {}
  BY DEF Units
<1>3. DOMAIN CashIn(s) = {} /\ DOMAIN CashOut(s) = {}
  BY <1>1 DEF CashIn, CashOut
<1>4. Units(CashIn(s)) = {} /\ Units(CashOut(s)) = {}
  BY <1>2, <1>3
<1>5. Cardinality({}) = 0
  BY FS_EmptySet
<1>. QED
  BY <1>4, <1>5, CountIs


-----------------------------------------------------------------------------
(* The invariant across the shapes of step the actions have *)

\* A request that waits while another one moves: what it relies on stays.
Unmoved(u) ==
  /\ txn'[u] = txn[u]
  /\ HoldsTill(u) => open'
  /\ Reversing(u) => sale'[txn[u].sale] = sale[txn[u].sale]
  /\ txn[u].op = "close_till" => \A s \in Sessions : s = session =>
       ExpectedCash(s)' = ExpectedCash(s)

LEMMA UnmovedOK ==
  ASSUME NEW u \in Api, RequestOK(u), Unmoved(u), session' = session
  PROVE  RequestOK(u)' /\ HoldsTill(u)' = HoldsTill(u) /\ Reversing(u)' = Reversing(u)
<1>1. txn'[u] = txn[u] /\ Reversing(u)' = Reversing(u)
  BY DEF Unmoved, Reversing
<1>2. HoldsTill(u)' = HoldsTill(u)
  <2>1. CASE Reversing(u)
    BY <1>1, <2>1 DEF HoldsTill, HasCash, Unmoved, Reversing
  <2>2. CASE ~Reversing(u)
    BY <1>1, <2>2 DEF HoldsTill, Reversing
  <2>. QED
    BY <2>1, <2>2
<1>3. ASSUME Reversing(u)
      PROVE  ReversalOK(u)'
  <2>1. PICK o \in Sales :
               /\ o = txn[u].sale
               /\ sale[o].pay = "PAID"
               /\ txn[u].amount \in 0..Total(o) /\ txn[u].cash \in 0..sale[o].cash
               /\ txn[u].phase \in {"till", "commit"}
               /\ txn[u].phase = "till" => HasCash(o)
    BY <1>3 DEF RequestOK, ReversalOK
  <2>2. sale'[o] = sale[o]
    BY <1>3, <2>1 DEF Unmoved
  <2>3. Total(o)' = Total(o) /\ HasCash(o)' = HasCash(o)
    BY <2>2 DEF Total, HasCash
  <2>. QED
    BY <1>1, <2>1, <2>2, <2>3 DEF ReversalOK
<1>. QED
  BY <1>1, <1>2, <1>3 DEF RequestOK, Unmoved

LEMMA OneMoves ==
  ASSUME MoneyInv, NEW t \in Api, session' = session,
         \A u \in Api \ {t} : Unmoved(u),
         RequestOK(t)',
         HoldsTill(t)' => \A u \in Api \ {t} : ~HoldsTill(u),
         Reversing(t)' => \A u \in Api \ {t} : Reversing(u) => txn[u].sale # txn'[t].sale,
         \A o \in Sales : RowOK(o)', DrawerOK'
  PROVE  MoneyInv'
<1>1. \A u \in Api \ {t} : /\ RequestOK(u)' /\ HoldsTill(u)' = HoldsTill(u)
                           /\ Reversing(u)' = Reversing(u) /\ txn'[u] = txn[u]
  BY UnmovedOK DEF MoneyInv, Unmoved
<1>2. \A u \in Api \ {t} : Alone(t, u)' /\ Alone(u, t)'
  BY <1>1 DEF Alone
<1>3. \A u, v \in Api \ {t} : u # v => Alone(u, v)'
  BY <1>1 DEF Alone, MoneyInv
<1>. QED
  BY <1>1, <1>2, <1>3 DEF MoneyInv

LEMMA NoneMoves ==
  ASSUME MoneyInv, session' = session, \A u \in Api : Unmoved(u),
         \A o \in Sales : RowOK(o)', DrawerOK'
  PROVE  MoneyInv'
<1>1. \A u \in Api : /\ RequestOK(u)' /\ HoldsTill(u)' = HoldsTill(u)
                     /\ Reversing(u)' = Reversing(u) /\ txn'[u] = txn[u]
  BY UnmovedOK DEF MoneyInv, Unmoved
<1>2. \A u, v \in Api : u # v => Alone(u, v)'
  BY <1>1 DEF Alone, MoneyInv
<1>. QED
  BY <1>1, <1>2 DEF MoneyInv

\* Nothing about money changes.
Quiet == UNCHANGED <<session, open, expected, drawer, sale, back>>

LEMMA QuietKeeps ==
  ASSUME MoneyInv, Quiet
  PROVE  (\A o \in Sales : RowOK(o)') /\ DrawerOK' /\ \A s : ExpectedCash(s)' = ExpectedCash(s)
<1>1. \A s : ExpectedCash(s)' = ExpectedCash(s)
  BY CountStays DEF Counted, Quiet
<1>2. \A o \in Sales : Total(o)' = Total(o)
  BY DEF Quiet, Total
<1>3. \A o \in Sales : RowOK(o)'
  BY <1>2 DEF Quiet, RowOK, MoneyInv
<1>4. DrawerOK'
  BY <1>1 DEF DrawerOK, CashUpExact, MoneyInv, Quiet
<1>. QED
  BY <1>1, <1>3, <1>4

LEMMA QuietMoves ==
  ASSUME MoneyInv, Quiet, NEW t \in Api, \A u \in Api \ {t} : txn'[u] = txn[u],
         RequestOK(t)',
         HoldsTill(t)' => \A u \in Api \ {t} : ~HoldsTill(u),
         Reversing(t)' => \A u \in Api \ {t} : Reversing(u) => txn[u].sale # txn'[t].sale
  PROVE  MoneyInv'
<1>1. (\A o \in Sales : RowOK(o)') /\ DrawerOK' /\ \A s : ExpectedCash(s)' = ExpectedCash(s)
  BY QuietKeeps
<1>2. \A u \in Api \ {t} : Unmoved(u)
  BY <1>1 DEF Unmoved, Quiet, MoneyInv, RequestOK
<1>. QED
  BY <1>1, <1>2, OneMoves DEF Quiet

LEMMA QuietStays ==
  ASSUME MoneyInv, Quiet, txn' = txn
  PROVE  MoneyInv'
<1>1. (\A o \in Sales : RowOK(o)') /\ DrawerOK' /\ \A s : ExpectedCash(s)' = ExpectedCash(s)
  BY QuietKeeps
<1>2. \A u \in Api : Unmoved(u)
  BY <1>1 DEF Unmoved, Quiet, MoneyInv, RequestOK
<1>. QED
  BY <1>1, <1>2, NoneMoves DEF Quiet

\* A request that is over owes nothing to anybody.
LEMMA OverOK ==
  ASSUME NEW t \in Api, txn'[t] = Idle
  PROVE  RequestOK(t)' /\ ~HoldsTill(t)' /\ ~Reversing(t)'
<1>1. Idle.op = "idle" /\ Idle.phase = "commit" /\ Idle.pays.cash = 0 /\ Idle.pays.card = 0
  BY DEF Idle, Nothing
<1>. QED
  BY <1>1 DEF RequestOK, HoldsTill, Reversing, TillOps

LEMMA QuietEnds ==
  ASSUME Shape, MoneyInv, Quiet, NEW t \in Api, Ends(t)
  PROVE  MoneyInv'
<1>1. txn'[t] = Idle /\ \A u \in Api \ {t} : txn'[u] = txn[u]
  BY EndsSlot
<1>. QED
  BY <1>1, OverOK, QuietMoves

\* What a request that begins is.
LEMMA BeginsWith ==
  ASSUME Shape, NEW t \in Api, NEW op, NEW request, Begins(t, op, request),
         DOMAIN request = DOMAIN Idle
  PROVE  /\ txn'[t].op = op
         /\ \A f \in DOMAIN Idle \ {"op"} : txn'[t][f] = request[f]
         /\ \A u \in Api \ {t} : txn'[u] = txn[u]
<1>1. txn'[t] = [request EXCEPT !.op = op] /\ \A u \in Api \ {t} : txn'[u] = txn[u]
  BY DEF Begins, Shape
<1>2. "op" \in DOMAIN Idle
  BY DEF Idle
<1>. QED
  BY <1>1, <1>2

\* A request that begins with neither the till nor an order.
LEMMA QuietBegins ==
  ASSUME Shape, MoneyInv, Quiet, NEW t \in Api, NEW op, NEW request, Begins(t, op, request),
         DOMAIN request = DOMAIN Idle, request.pays.cash \in Nat, request.pays.card \in Nat,
         op \notin {"refund_pos_order", "void_pos_order", "close_till"},
         request.phase = "till" \/ op # "create_pos_order",
         request.phase = "till" => op = "create_pos_order"
  PROVE  MoneyInv'
<1>1. "phase" \in DOMAIN Idle /\ "pays" \in DOMAIN Idle
  BY DEF Idle
<1>2. /\ txn'[t].op = op /\ txn'[t].phase = request.phase /\ txn'[t].pays = request.pays
      /\ \A u \in Api \ {t} : txn'[u] = txn[u]
  BY <1>1, BeginsWith
<1>3. RequestOK(t)' /\ ~HoldsTill(t)' /\ ~Reversing(t)'
  BY <1>2 DEF RequestOK, HoldsTill, Reversing, TillOps
<1>. QED
  BY <1>2, <1>3, QuietMoves


-----------------------------------------------------------------------------
(* The handlers *)

\* Requests that only read about money, and intents.
LEMMA MoneyAside ==
  ASSUME LinkInv, MoneyInv, NEW t \in Api,
         \/ \E key \in Keys \cup {NoKey}, pays \in Payments : create_pos_order(t, key, pays)
         \/ \E i \in Intents : create_pos_payment_intent(t, i) \/ get_pos_payment_intent(t, i)
  PROVE  MoneyInv'
<1>1. Shape
  BY DEF LinkInv
<1>2. Quiet
  BY DEF Quiet, create_pos_order, create_pos_payment_intent, get_pos_payment_intent, till
<1>3. Idle.pays.cash = 0 /\ Idle.pays.card = 0
  BY DEF Idle, Nothing
<1>4. ASSUME NEW key \in Keys \cup {NoKey}, NEW pays \in Payments,
             create_pos_order(t, key, pays)
      PROVE  MoneyInv'
  <2>. DEFINE request == [Idle EXCEPT !.phase = "till", !.key = key, !.pays = pays]
  <2>1. CASE txn' = txn
    BY <1>2, <2>1, QuietStays
  <2>2. CASE Begins(t, "create_pos_order", request)
    <3>1. pays.cash \in Nat /\ pays.card \in Nat
      BY PosAssumption DEF PaymentShape
    <3>2. DOMAIN request = DOMAIN Idle /\ request.pays = pays /\ request.phase = "till"
      BY DEF Idle
    <3>. HIDE DEF request
    <3>. QED
      BY <1>1, <1>2, <2>2, <3>1, <3>2, QuietBegins
  <2>. QED
    BY <1>4, <2>1, <2>2 DEF create_pos_order
<1>5. ASSUME NEW i \in Intents, create_pos_payment_intent(t, i)
      PROVE  MoneyInv'
  <2>. DEFINE request == [Idle EXCEPT !.link = {i}, !.phase = "sending"]
  <2>1. DOMAIN request = DOMAIN Idle /\ request.pays = Idle.pays /\ request.phase = "sending"
        /\ Begins(t, "create_pos_payment_intent", request)
    BY <1>5 DEF Idle, create_pos_payment_intent
  <2>. HIDE DEF request
  <2>. QED
    BY <1>1, <1>2, <1>3, <2>1, QuietBegins
<1>6. ASSUME NEW i \in Intents, get_pos_payment_intent(t, i)
      PROVE  MoneyInv'
  <2>. DEFINE request == [Idle EXCEPT !.link = {i}, !.phase = "polled"]
  <2>1. DOMAIN request = DOMAIN Idle /\ request.pays = Idle.pays /\ request.phase = "polled"
        /\ Begins(t, "get_pos_payment_intent", request)
    BY <1>6 DEF Idle, get_pos_payment_intent
  <2>. HIDE DEF request
  <2>. QED
    BY <1>1, <1>2, <1>3, <2>1, QuietBegins
<1>. QED
  BY <1>4, <1>5, <1>6

\* The cash-up counts while it takes the till.
LEMMA CashUpCounts ==
  ASSUME LinkInv, MoneyInv, NEW t \in Api, close_till(t)
  PROVE  MoneyInv'
<1>. DEFINE request == [Idle EXCEPT !.amount = ExpectedCash(session)]
<1>1. /\ Shape /\ Quiet /\ open /\ TillFree /\ Begins(t, "close_till", request)
  BY DEF close_till, till, Quiet, LinkInv
<1>2. /\ DOMAIN request = DOMAIN Idle /\ request.amount = ExpectedCash(session)
      /\ request.phase = "commit" /\ request.pays.cash = 0 /\ request.pays.card = 0
  BY DEF Idle, Nothing
<1>3. {"amount", "phase", "pays"} \subseteq DOMAIN Idle \ {"op"}
  BY DEF Idle
<1>. HIDE DEF request
<1>4. /\ txn'[t].op = "close_till" /\ txn'[t].amount = request.amount
      /\ txn'[t].phase = request.phase /\ txn'[t].pays = request.pays
      /\ \A u \in Api \ {t} : txn'[u] = txn[u]
  BY <1>1, <1>2, <1>3, BeginsWith
<1>5. \A s : ExpectedCash(s)' = ExpectedCash(s)
  BY <1>1, QuietKeeps
<1>6. \A s \in Sessions : s = session' => txn'[t].amount = ExpectedCash(s)'
  BY <1>1, <1>2, <1>4, <1>5 DEF Quiet
<1>7. ~Reversing(t)' /\ open'
  BY <1>1, <1>4 DEF Reversing, Quiet
<1>8. RequestOK(t)'
  BY <1>2, <1>4, <1>6, <1>7 DEF RequestOK
<1>. QED
  BY <1>1, <1>4, <1>7, <1>8, QuietMoves DEF TillFree

\* A refund or a void takes the order, PAID, and asks for no more than its total.
LEMMA ReversalAsks ==
  ASSUME LinkInv, MoneyInv, NEW t \in Api, NEW o \in Sales,
         refund_pos_order(t, o) \/ void_pos_order(t, o)
  PROVE  MoneyInv'
<1>1. sale[o].cash \in Nat /\ sale[o].card \in Nat /\ Total(o) \in Nat /\ sale[o].cash <= Total(o)
  BY LinkUnitsNat DEF MoneyInv, RowOK, Total
<1>2. PICK op \in {"refund_pos_order", "void_pos_order"}, amount \in 0..Total(o),
           cash \in 0..sale[o].cash :
        BeginReversal(t, op, o, amount, cash)
  <2>1. CASE void_pos_order(t, o)
    <3>1. Total(o) \in 0..Total(o) /\ sale[o].cash \in 0..sale[o].cash
      BY <1>1
    <3>. QED
      BY <2>1, <3>1 DEF void_pos_order
  <2>2. CASE refund_pos_order(t, o)
    <3>0. PICK amount \in 1..Total(o) : \E cash \in CashParts(o, amount) :
            BeginReversal(t, "refund_pos_order", o, amount, cash)
      BY <2>2 DEF refund_pos_order
    <3>1. PICK cash \in CashParts(o, amount) :
            BeginReversal(t, "refund_pos_order", o, amount, cash)
      BY <3>0
    <3>2. Lesser(sale[o].cash, amount) \in 0..sale[o].cash
      BY <1>1 DEF Lesser
    <3>3. cash \in 0..sale[o].cash
      BY <1>1, <3>1, <3>2 DEF CashParts
    <3>4. amount \in 0..Total(o)
      BY <1>1
    <3>. QED
      BY <3>1, <3>3, <3>4
  <2>. QED
    BY <2>1, <2>2
<1>. DEFINE step == IF HasCash(o) THEN "till" ELSE "commit"
            request == [Idle EXCEPT !.sale = o, !.amount = amount, !.cash = cash,
                          !.phase = step]
<1>3. /\ Shape /\ Quiet /\ OrderFree(o) /\ sale[o].pay = "PAID" /\ Begins(t, op, request)
  BY <1>2 DEF BeginReversal, till, Quiet, LinkInv
<1>4. /\ DOMAIN request = DOMAIN Idle /\ request.amount = amount /\ request.cash = cash
      /\ request.sale = o /\ request.phase = step
      /\ request.pays.cash = 0 /\ request.pays.card = 0
  BY DEF Idle, Nothing
<1>5. {"amount", "cash", "sale", "phase", "pays"} \subseteq DOMAIN Idle \ {"op"}
  BY DEF Idle
<1>. HIDE DEF request
<1>6. /\ txn'[t].op = op /\ txn'[t].amount = amount /\ txn'[t].cash = cash
      /\ txn'[t].sale = o /\ txn'[t].phase = step /\ txn'[t].pays = request.pays
      /\ \A u \in Api \ {t} : txn'[u] = txn[u]
  BY <1>3, <1>4, <1>5, BeginsWith
<1>7. Total(o)' = Total(o) /\ HasCash(o)' = HasCash(o) /\ sale' = sale
  BY <1>3 DEF Quiet, Total, HasCash
<1>8. step \in {"till", "commit"} /\ (step = "till" => HasCash(o)) /\ (step = "commit" => ~HasCash(o))
  OBVIOUS
<1>. HIDE DEF step
<1>9. ~HoldsTill(t)'
  BY <1>6, <1>7, <1>8 DEF HoldsTill, TillOps
<1>10. RequestOK(t)'
  <2>1. ReversalOK(t)'
    BY <1>3, <1>6, <1>7, <1>8 DEF ReversalOK
  <2>2. txn'[t].phase = "till" => txn'[t].op = "create_pos_order" \/ Reversing(t)'
    BY <1>6 DEF Reversing
  <2>3. txn'[t].op # "close_till" /\ txn'[t].pays.cash \in Nat /\ txn'[t].pays.card \in Nat
    BY <1>4, <1>6
  <2>. QED
    BY <1>9, <2>1, <2>2, <2>3 DEF RequestOK
<1>11. \A u \in Api \ {t} : Reversing(u) => txn[u].sale # txn'[t].sale
  BY <1>3, <1>6 DEF OrderFree, Reversing
<1>. QED
  BY <1>3, <1>6, <1>9, <1>10, <1>11, QuietMoves

\* The lock on the open till, or the refusal.
LEMMA TillIsTaken ==
  ASSUME LinkInv, MoneyInv, NEW t \in Api, TakeTill(t)
  PROVE  MoneyInv'
<1>1. Shape /\ Quiet /\ TillFree /\ txn[t].phase = "till" /\ RequestOK(t)
  BY DEF TakeTill, till, Quiet, LinkInv, MoneyInv
<1>. DEFINE step == IF txn[t].op = "create_pos_order" THEN "links" ELSE "commit"
<1>2. CASE open /\ txn' = [txn EXCEPT ![t].phase = step]
  <2>1. /\ DOMAIN txn[t] = DOMAIN Idle /\ DOMAIN txn = Api
    BY <1>1 DEF Shape, SlotShape
  <2>2. {"amount", "cash", "sale", "op", "pays", "phase"} \subseteq DOMAIN Idle
    BY DEF Idle
  <2>3. step \in {"links", "commit"} /\ (Reversing(t) => step = "commit")
    BY DEF Reversing
  <2>. HIDE DEF step
  <2>4. /\ \A u \in Api \ {t} : txn'[u] = txn[u]
        /\ txn'[t].op = txn[t].op /\ txn'[t].phase = step
        /\ txn'[t].pays = txn[t].pays /\ txn'[t].amount = txn[t].amount
        /\ txn'[t].cash = txn[t].cash /\ txn'[t].sale = txn[t].sale
    BY <1>2, <2>1, <2>2
  <2>5. Reversing(t)' = Reversing(t) /\ open'
    BY <1>1, <1>2, <2>4 DEF Reversing, Quiet
  <2>6. txn[t].op # "close_till"
    BY <1>1 DEF RequestOK
  <2>7. ASSUME Reversing(t)
        PROVE  ReversalOK(t)'
    <3>1. PICK o \in Sales :
               /\ o = txn[t].sale
               /\ sale[o].pay = "PAID"
               /\ txn[t].amount \in 0..Total(o) /\ txn[t].cash \in 0..sale[o].cash
      BY <1>1, <2>7 DEF RequestOK, ReversalOK
    <3>2. Total(o)' = Total(o) /\ sale' = sale
      BY <1>1 DEF Quiet, Total
    <3>. QED
      BY <2>3, <2>4, <2>7, <3>1, <3>2 DEF ReversalOK
  <2>8. RequestOK(t)'
    BY <1>1, <2>3, <2>4, <2>5, <2>6, <2>7 DEF RequestOK
  <2>9. Reversing(t) => \A u \in Api \ {t} : Reversing(u) => txn[u].sale # txn[t].sale
    BY DEF MoneyInv, Alone
  <2>. QED
    BY <1>1, <2>4, <2>5, <2>8, <2>9, QuietMoves DEF TillFree
<1>3. CASE Ends(t)
  BY <1>1, <1>3, QuietEnds
<1>. QED
  BY <1>2, <1>3 DEF TakeTill

\* The intents are locked under the till.
LEMMA LinksUnderTill ==
  ASSUME LinkInv, MoneyInv, NEW t \in Api, LockLinks(t)
  PROVE  MoneyInv'
<1>1. Shape /\ Quiet /\ txn[t].phase = "links" /\ RequestOK(t)
  BY DEF LockLinks, till, Quiet, LinkInv, MoneyInv
<1>2. CASE txn' = [txn EXCEPT ![t].phase = "commit"]
  <2>1. /\ DOMAIN txn[t] = DOMAIN Idle /\ DOMAIN txn = Api
    BY <1>1 DEF Shape, SlotShape
  <2>2. {"amount", "cash", "sale", "op", "pays", "phase"} \subseteq DOMAIN Idle
    BY DEF Idle
  <2>3. /\ \A u \in Api \ {t} : txn'[u] = txn[u]
        /\ txn'[t].op = txn[t].op /\ txn'[t].phase = "commit"
        /\ txn'[t].pays = txn[t].pays
    BY <1>2, <2>1, <2>2
  <2>4. ~Reversing(t) /\ txn[t].op # "close_till"
    BY <1>1 DEF RequestOK, ReversalOK
  <2>5. ~Reversing(t)' /\ (HoldsTill(t)' => HoldsTill(t))
    BY <1>1, <2>3, <2>4 DEF Reversing, HoldsTill
  <2>6. RequestOK(t)'
    BY <1>1, <2>3, <2>4, <2>5 DEF RequestOK, Quiet
  <2>7. HoldsTill(t) => \A u \in Api \ {t} : ~HoldsTill(u)
    BY DEF MoneyInv, Alone
  <2>. QED
    BY <1>1, <2>3, <2>5, <2>6, <2>7, QuietMoves
<1>3. CASE Ends(t)
  BY <1>1, <1>3, QuietEnds
<1>. QED
  BY <1>2, <1>3 DEF LockLinks, ReplaySpent

\* Requests that end with nothing to say about money.
LEMMA EndsAside ==
  ASSUME LinkInv, MoneyInv, NEW t \in Api,
         \/ ReplayWinner(t) \/ LinksCollide(t) \/ CommitLink(t) \/ CommitPoll(t) \/ Crash(t)
  PROVE  MoneyInv'
<1>1. Shape /\ Ends(t) /\ Quiet
  BY DEF LinkInv, Quiet, ReplayWinner, LinksCollide, CommitLink, CommitPoll, IntentBecomes,
     Crash, till
<1>. QED
  BY <1>1, QuietEnds


\* A sale is rung up under the till: its cash goes into the drawer.
LEMMA CheckoutPays ==
  ASSUME LinkInv, MoneyInv, NEW t \in Api, CommitCheckout(t)
  PROVE  MoneyInv'
<1>1. PICK o \in Sales : ~Sold(o) /\ sale' = [sale EXCEPT ![o] = RungUp(t)]
  BY DEF CommitCheckout
<1>2. /\ Shape /\ Ends(t) /\ Committing(t) /\ RequestOK(t) /\ RowOK(o) /\ DrawerOK
      /\ session' = session /\ open' = open /\ expected' = expected /\ back' = back
  BY DEF CommitCheckout, LinkInv, MoneyInv
<1>3. HoldsTill(t) /\ open
  BY <1>2 DEF HoldsTill, Committing, TillOps, RequestOK
<1>4. PICK s \in Sessions : s = session
  BY <1>2, <1>3, PosAssumption DEF DrawerOK, Sessions
<1>. DEFINE cash == txn[t].pays.cash
<1>5. cash \in Nat /\ txn[t].pays.card \in Nat
  BY <1>2 DEF RequestOK
<1>6. drawer' = [drawer EXCEPT ![s] = @ + cash]
  BY <1>4 DEF CommitCheckout
<1>7. /\ sale'[o].cash = cash /\ sale'[o].card = txn[t].pays.card /\ sale'[o].till = s
      /\ sale'[o].pay = "PAID" /\ sale'[o].refundCash = 0 /\ sale'[o].refundedIn = 0
      /\ \A p \in Sales \ {o} : sale'[p] = sale[p]
  BY <1>1, <1>2, <1>4 DEF RungUp, Shape
<1>. HIDE DEF cash
<1>8. sale[o].pay = "ABSENT" /\ sale[o].till = 0 /\ back[o] = 0
  BY <1>1, <1>2 DEF Sold, Unsold, RowOK
<1>9. s \in 1..MaxSessions /\ s # 0
  BY <1>4, PosAssumption DEF Sessions
<1>10. ExpectedCash(s)' = ExpectedCash(s) + cash /\ ExpectedCash(s) \in Int
  <2>1. /\ sale[o].till # s /\ sale[o].pay \notin Reversed
        /\ sale'[o].pay \notin Reversed
    BY <1>7, <1>8, <1>9 DEF Reversed
  <2>. QED
    BY <1>5, <1>7, <2>1, CountGrows DEF MoneyInv
<1>11. ASSUME NEW p \in Sales
       PROVE  RowOK(p)'
  <2>1. CASE p = o
    <3>1. Total(o)' = sale'[o].cash + sale'[o].card + LinkUnits(sale'[o].links)
      BY DEF Total
    <3>2. LinkUnits(sale'[o].links) \in Nat
      BY LinkUnitsNat
    <3>3. 0 \in 0..Total(o)' /\ back'[o] = 0
      BY <1>2, <1>5, <1>7, <1>8, <3>1, <3>2
    <3>4. s \in 0..session' /\ 0 \in 0..session'
      BY <1>2, <1>4, <1>9
    <3>. QED
      BY <1>5, <1>7, <2>1, <3>3, <3>4 DEF RowOK
  <2>2. CASE p # o
    <3>1. sale'[p] = sale[p] /\ back'[p] = back[p] /\ RowOK(p)
      BY <1>2, <1>7, <2>2 DEF MoneyInv
    <3>2. Total(p)' = Total(p)
      BY <3>1 DEF Total
    <3>. QED
      BY <1>2, <3>1, <3>2 DEF RowOK
  <2>. QED
    BY <2>1, <2>2
<1>12. DrawerOK'
  <2>1. drawer' \in [Sessions -> Int]
    BY <1>2, <1>5, <1>6 DEF DrawerOK
  <2>2. drawer'[s] = ExpectedCash(s)'
    BY <1>2, <1>3, <1>4, <1>5, <1>6, <1>10 DEF DrawerOK
  <2>3. \A r \in Sessions : r # s => drawer'[r] = drawer[r]
    BY <1>2, <1>6 DEF DrawerOK
  <2>4. CashUpExact'
    <3>. SUFFICES ASSUME NEW r \in Sessions, r < session' \/ (r = session' /\ ~open')
                  PROVE  expected'[r] = drawer'[r]
      BY DEF CashUpExact
    <3>1. r < s
      BY <1>2, <1>3, <1>4
    <3>2. r # s
      BY <1>9, <3>1 DEF Sessions
    <3>. QED
      BY <1>2, <1>4, <2>3, <3>1, <3>2 DEF DrawerOK, CashUpExact
  <2>5. \A r \in Sessions : r > session' => drawer'[r] = 0
    BY <1>2, <1>4, <1>9, <2>3 DEF DrawerOK
  <2>6. \A r \in Sessions : open' /\ r = session' => drawer'[r] = ExpectedCash(r)'
    BY <1>2, <1>4, <2>2
  <2>. QED
    BY <1>2, <2>1, <2>4, <2>5, <2>6 DEF DrawerOK
<1>13. txn'[t] = Idle /\ \A u \in Api \ {t} : txn'[u] = txn[u]
  BY <1>2, EndsSlot
<1>14. ASSUME NEW u \in Api \ {t}
       PROVE  Unmoved(u)
  <2>1. ~HoldsTill(u) /\ RequestOK(u)
    BY <1>3 DEF MoneyInv, Alone
  <2>2. txn[u].op # "close_till"
    BY <2>1 DEF RequestOK, HoldsTill, TillOps
  <2>3. Reversing(u) => sale'[txn[u].sale] = sale[txn[u].sale]
    BY <1>7, <1>8, <2>1 DEF RequestOK, ReversalOK
  <2>. QED
    BY <1>13, <2>1, <2>2, <2>3 DEF Unmoved
<1>15. RequestOK(t)' /\ ~HoldsTill(t)' /\ ~Reversing(t)'
  BY <1>13, OverOK
<1>. QED
  BY <1>2, <1>11, <1>12, <1>14, <1>15, OneMoves

\* The count is written and the till let go of.
LEMMA CashUpWrites ==
  ASSUME LinkInv, MoneyInv, NEW t \in Api, CommitClose(t)
  PROVE  MoneyInv'
<1>1. /\ Shape /\ Ends(t) /\ RequestOK(t) /\ DrawerOK /\ txn[t].op = "close_till"
      /\ UNCHANGED <<session, drawer, sale, back>> /\ open' = FALSE
      /\ expected' = [expected EXCEPT ![session] = txn[t].amount]
  BY DEF CommitClose, LinkInv, MoneyInv
<1>2. HoldsTill(t) /\ open
  BY <1>1 DEF HoldsTill, TillOps, RequestOK
<1>3. PICK s \in Sessions : s = session
  BY <1>1, <1>2, PosAssumption DEF DrawerOK, Sessions
<1>4. \A r : ExpectedCash(r)' = ExpectedCash(r)
  BY <1>1, CountStays DEF Counted
<1>5. \A o \in Sales : RowOK(o)'
  <2>1. \A o \in Sales : Total(o)' = Total(o)
    BY <1>1 DEF Total
  <2>. QED
    BY <1>1, <2>1 DEF RowOK, MoneyInv
<1>6. /\ expected'[s] = drawer'[s] /\ DOMAIN expected' = Sessions
      /\ \A r \in Sessions : r # s => expected'[r] = expected[r]
  BY <1>1, <1>2, <1>3 DEF DrawerOK, RequestOK
<1>7. CashUpExact'
  <2>. SUFFICES ASSUME NEW r \in Sessions, r < session' \/ (r = session' /\ ~open')
                PROVE  expected'[r] = drawer'[r]
    BY DEF CashUpExact
  <2>1. CASE r = s
    BY <1>6, <2>1
  <2>2. CASE r # s
    BY <1>1, <1>3, <1>6, <2>2 DEF DrawerOK, CashUpExact
  <2>. QED
    BY <2>1, <2>2
<1>8. DrawerOK'
  BY <1>1, <1>6, <1>7 DEF DrawerOK
<1>9. txn'[t] = Idle /\ \A u \in Api \ {t} : txn'[u] = txn[u]
  BY <1>1, EndsSlot
<1>10. \A u \in Api \ {t} : Unmoved(u)
  BY <1>1, <1>2, <1>4, <1>9 DEF Unmoved, MoneyInv, Alone
<1>11. RequestOK(t)' /\ ~HoldsTill(t)' /\ ~Reversing(t)'
  BY <1>9, OverOK
<1>. QED
  BY <1>1, <1>5, <1>8, <1>10, <1>11, OneMoves

\* A new session starts with an empty drawer and nothing to count.
LEMMA TillOpens ==
  ASSUME MoneyInv, open_till
  PROVE  MoneyInv'
<1>1. /\ ~open /\ session < MaxSessions /\ open' = TRUE /\ session' = session + 1
      /\ UNCHANGED <<expected, drawer, sale, back, txn>> /\ DrawerOK
  BY DEF open_till, MoneyInv
<1>2. session \in Nat /\ session' \in Nat /\ session' > session /\ session' \in 0..MaxSessions
  BY <1>1, PosAssumption DEF DrawerOK
<1>3. \A r : ExpectedCash(r)' = ExpectedCash(r)
  BY <1>1, CountStays DEF Counted
<1>4. \A o \in Sales : Total(o)' = Total(o)
  BY <1>1 DEF Total
<1>5. \A o \in Sales : RowOK(o)'
  BY <1>1, <1>2, <1>4 DEF RowOK, MoneyInv
<1>6. \A r \in Sessions : r \in Nat
  BY DEF Sessions
<1>7. \A r \in Sessions : r = session' => drawer'[r] = ExpectedCash(r)'
  <2>. SUFFICES ASSUME NEW r \in Sessions, r = session'
                PROVE  drawer'[r] = ExpectedCash(r)'
    OBVIOUS
  <2>1. r > session /\ r \in Nat
    BY <1>2, <1>6
  <2>2. ExpectedCash(r) = 0
    BY <1>2, <2>1, CountStarts DEF MoneyInv
  <2>3. drawer[r] = 0
    BY <1>1, <2>1 DEF DrawerOK
  <2>. QED
    BY <1>1, <1>3, <2>2, <2>3
<1>8. CashUpExact'
  BY <1>1, <1>2, <1>6 DEF CashUpExact, DrawerOK
<1>9. DrawerOK'
  BY <1>1, <1>2, <1>6, <1>7, <1>8 DEF DrawerOK
<1>10. ASSUME NEW u \in Api
       PROVE  RequestOK(u)' /\ HoldsTill(u)' = HoldsTill(u) /\ Reversing(u)' = Reversing(u)
  <2>1. RequestOK(u)
    BY DEF MoneyInv
  <2>2. ~HoldsTill(u) /\ txn[u].op # "close_till"
    BY <1>1, <2>1 DEF RequestOK, HoldsTill, TillOps
  <2>3. HoldsTill(u)' = HoldsTill(u) /\ Reversing(u)' = Reversing(u)
    BY <1>1 DEF HoldsTill, Reversing, HasCash
  <2>4. ReversalOK(u) => ReversalOK(u)'
    BY <1>1, <1>4 DEF ReversalOK, HasCash
  <2>. QED
    BY <1>1, <2>1, <2>2, <2>3, <2>4 DEF RequestOK
<1>11. \A u, v \in Api : u # v => Alone(u, v)'
  BY <1>1, <1>10 DEF Alone, MoneyInv
<1>. QED
  BY <1>5, <1>9, <1>10, <1>11 DEF MoneyInv


\* A PAID sale is reversed: by a request that has it, or at once.
IsReversed(o, amount, cash) ==
  /\ sale[o].pay = "PAID" /\ sale'[o].pay \in Reversed
  /\ amount \in 0..Total(o) /\ cash \in 0..sale[o].cash
  /\ back' = [back EXCEPT ![o] = @ + amount]
  /\ drawer' = [drawer EXCEPT ![session] = @ - cash]
  /\ sale'[o].refundCash = cash /\ sale'[o].refundedIn = session
  /\ sale'[o].cash = sale[o].cash /\ sale'[o].card = sale[o].card
  /\ sale'[o].links = sale[o].links /\ sale'[o].till = sale[o].till
  /\ \A p \in Sales \ {o} : sale'[p] = sale[p]
  /\ UNCHANGED <<session, open, expected>>

\* Cash comes out of the drawer of an open session, and out of its count.
LEMMA ReversalCounts ==
  ASSUME MoneyInv, DOMAIN back = Sales, NEW o \in Sales, NEW amount, NEW cash,
         IsReversed(o, amount, cash), cash # 0 => open
  PROVE  /\ \A p \in Sales : RowOK(p)'
         /\ DrawerOK'
         /\ cash = 0 => \A s \in Sessions : s = session => ExpectedCash(s)' = ExpectedCash(s)
<1>1. DrawerOK /\ RowOK(o) /\ session' = session /\ open' = open /\ expected' = expected
  BY DEF MoneyInv, IsReversed
<1>2. Total(o)' = Total(o)
  BY DEF Total, IsReversed
<1>3. cash \in Nat /\ amount \in 0..Total(o) /\ back[o] = 0 /\ session \in 0..session
  BY <1>1, PosAssumption DEF IsReversed, RowOK, DrawerOK
<1>4. back'[o] = amount /\ \A p \in Sales \ {o} : back'[p] = back[p]
  BY <1>3 DEF IsReversed
<1>5. ASSUME NEW p \in Sales
      PROVE  RowOK(p)'
  <2>1. CASE p = o
    BY <1>1, <1>2, <1>3, <1>4, <2>1 DEF RowOK, IsReversed, Reversed
  <2>2. CASE p # o
    <3>1. sale'[p] = sale[p] /\ back'[p] = back[p] /\ RowOK(p)
      BY <1>4, <2>2 DEF MoneyInv, IsReversed
    <3>2. Total(p)' = Total(p)
      BY <3>1 DEF Total
    <3>. QED
      BY <1>1, <3>1, <3>2 DEF RowOK
  <2>. QED
    BY <2>1, <2>2
<1>6. ASSUME NEW s \in Sessions, s = session
      PROVE  ExpectedCash(s)' = ExpectedCash(s) - cash /\ ExpectedCash(s) \in Int
  <2>1. /\ sale[o].pay \notin Reversed /\ sale'[o].pay \in Reversed
        /\ sale'[o].refundedIn = s /\ sale'[o].refundCash = cash
        /\ sale'[o].till = sale[o].till /\ sale'[o].cash = sale[o].cash
        /\ \A p \in Sales \ {o} : sale'[p] = sale[p]
    BY <1>6 DEF IsReversed, Reversed
  <2>. QED
    BY <1>3, <2>1, CountShrinks DEF MoneyInv
<1>7. /\ drawer' \in [Sessions -> Int]
      /\ \A s \in Sessions : drawer'[s] = IF s = session THEN drawer[s] - cash ELSE drawer[s]
  <2>1. drawer \in [Sessions -> Int] /\ drawer' = [drawer EXCEPT ![session] = @ - cash]
    BY <1>1 DEF IsReversed, DrawerOK
  <2>2. cash \in Int
    BY <1>3
  <2>3. /\ DOMAIN drawer' = Sessions
        /\ drawer' = [s \in Sessions |-> IF s = session THEN drawer[s] - cash ELSE drawer[s]]
    BY <2>1
  <2>4. \A s \in Sessions : drawer[s] \in Int /\ drawer[s] - cash \in Int
    BY <2>1, <2>2
  <2>. QED
    BY <2>3, <2>4
<1>8. \A s \in Sessions : open' /\ s = session' => drawer'[s] = ExpectedCash(s)'
  BY <1>1, <1>6, <1>7 DEF DrawerOK
<1>9. \A s \in Sessions : ~open \/ s # session => drawer'[s] = drawer[s]
  BY <1>1, <1>7 DEF DrawerOK
<1>10. session \in Int /\ \A s \in Sessions : s \in Int
  BY <1>1, PosAssumption DEF DrawerOK, Sessions
<1>11. CashUpExact'
  BY <1>1, <1>9, <1>10 DEF CashUpExact, DrawerOK
<1>12. \A s \in Sessions : s > session' => drawer'[s] = 0
  BY <1>1, <1>9, <1>10 DEF DrawerOK
<1>13. DrawerOK'
  BY <1>1, <1>7, <1>8, <1>11, <1>12 DEF DrawerOK
<1>14. cash = 0 => \A s \in Sessions : s = session => ExpectedCash(s)' = ExpectedCash(s)
  BY <1>6
<1>. QED
  BY <1>5, <1>13, <1>14

\* The lock on the order, and the till's where cash is handed out.
LEMMA ReversalPays ==
  ASSUME LinkInv, MoneyInv, DOMAIN back = Sales, NEW t \in Api, CommitReversal(t)
  PROVE  MoneyInv'
<1>1. Shape /\ Ends(t) /\ Reversing(t) /\ RequestOK(t) /\ txn[t].phase = "commit"
  BY DEF CommitReversal, LinkInv, MoneyInv, Reversing
<1>2. PICK o \in Sales :
        /\ o = txn[t].sale /\ sale[o].pay = "PAID"
        /\ txn[t].amount \in 0..Total(o) /\ txn[t].cash \in 0..sale[o].cash
  BY <1>1 DEF RequestOK, ReversalOK
<1>. DEFINE amount == txn[t].amount
            cash == txn[t].cash
<1>3. /\ sale' = [sale EXCEPT ![o].pay = StatusAfter(t, o), ![o].refundCash = cash,
                    ![o].refundedIn = session, ![o].flag = FlagAfter(o, amount - cash)]
      /\ drawer' = [drawer EXCEPT ![session] = @ - cash]
      /\ back' = [back EXCEPT ![o] = @ + amount]
      /\ UNCHANGED <<session, open, expected>>
  BY <1>2 DEF CommitReversal
<1>4. amount \in 0..Total(o) /\ cash \in 0..sale[o].cash
  BY <1>2
<1>5. HasCash(o) => HoldsTill(t)
  BY <1>1, <1>2 DEF HoldsTill, Reversing
<1>. HIDE DEF amount, cash
<1>6. \A f \in {"pay", "refundCash", "refundedIn", "flag", "cash", "card", "links", "till"} :
        f \in DOMAIN sale[o]
  <2>1. DOMAIN sale[o] = DOMAIN Unsold
    BY <1>1 DEF Shape, SaleShape
  <2>. QED
    BY <2>1 DEF Unsold
<1>7. /\ sale'[o].pay = StatusAfter(t, o) /\ sale'[o].refundCash = cash
      /\ sale'[o].refundedIn = session
      /\ sale'[o].cash = sale[o].cash /\ sale'[o].card = sale[o].card
      /\ sale'[o].links = sale[o].links /\ sale'[o].till = sale[o].till
      /\ \A p \in Sales \ {o} : sale'[p] = sale[p]
  <2>. DEFINE a == StatusAfter(t, o)
              b == FlagAfter(o, amount - cash)
  <2>. HIDE DEF a, b
  <2>1. sale' = [sale EXCEPT ![o].pay = a, ![o].refundCash = cash,
                   ![o].refundedIn = session, ![o].flag = b]
    BY <1>3 DEF a, b
  <2>2. DOMAIN sale = Sales
    BY <1>1 DEF Shape
  <2>3. sale'[o].pay = a
    BY <1>6, <2>1, <2>2, Zenon
  <2>. QED
    BY <1>6, <2>1, <2>2, <2>3 DEF a
<1>8. StatusAfter(t, o) \in Reversed
  BY DEF StatusAfter, Reversed
<1>9. IsReversed(o, amount, cash)
  BY <1>2, <1>3, <1>4, <1>7, <1>8 DEF IsReversed
<1>10. sale[o].cash \in Nat
  BY DEF MoneyInv, RowOK
<1>11. cash # 0 => HasCash(o)
  BY <1>4, <1>10 DEF HasCash
<1>12. cash # 0 => HoldsTill(t) /\ open
  BY <1>1, <1>5, <1>11 DEF RequestOK
<1>13. /\ \A p \in Sales : RowOK(p)'
       /\ DrawerOK'
       /\ cash = 0 => \A s \in Sessions : s = session => ExpectedCash(s)' = ExpectedCash(s)
  BY <1>9, <1>12, ReversalCounts
<1>14. txn'[t] = Idle /\ \A u \in Api \ {t} : txn'[u] = txn[u]
  BY <1>1, EndsSlot
<1>15. ASSUME NEW u \in Api \ {t}
       PROVE  Unmoved(u)
  <2>1. RequestOK(u) /\ Alone(t, u)
    BY DEF MoneyInv
  <2>2. HoldsTill(u) => open'
    BY <1>3, <2>1 DEF RequestOK
  <2>3. Reversing(u) => sale'[txn[u].sale] = sale[txn[u].sale]
    BY <1>1, <1>2, <1>7, <2>1 DEF Alone, RequestOK, ReversalOK
  <2>4. txn[u].op = "close_till" => HoldsTill(u)
    BY <2>1 DEF RequestOK, HoldsTill, TillOps
  <2>5. txn[u].op = "close_till" => cash = 0
    BY <1>12, <2>1, <2>4 DEF Alone
  <2>. QED
    BY <1>13, <1>14, <2>2, <2>3, <2>5 DEF Unmoved
<1>16. RequestOK(t)' /\ ~HoldsTill(t)' /\ ~Reversing(t)'
  BY <1>14, OverOK
<1>17. session' = session
  BY <1>3
<1>. QED
  BY <1>13, <1>15, <1>16, <1>17, OneMoves

\* The generic refund looks at the order's lock alone: it moves no cash.
LEMMA GenericRefundPays ==
  ASSUME LinkInv, MoneyInv, DOMAIN back = Sales, NEW o \in Sales, NEW amount,
         refund_order_payment(o, amount)
  PROVE  MoneyInv'
<1>. DEFINE status == IF amount = Total(o) THEN "REFUNDED" ELSE "PARTIALLY_REFUNDED"
<1>1. /\ Shape /\ OrderFree(o) /\ sale[o].pay = "PAID" /\ amount \in 1..Total(o)
      /\ sale' = [sale EXCEPT ![o].refundedIn = session, ![o].pay = status]
      /\ back' = [back EXCEPT ![o] = @ + amount]
      /\ UNCHANGED <<session, open, expected, drawer, txn>>
  BY DEF refund_order_payment, till, LinkInv
<1>2. status \in Reversed
  BY DEF Reversed
<1>. HIDE DEF status
<1>3. \A f \in {"pay", "refundCash", "refundedIn", "cash", "card", "links", "till"} :
        f \in DOMAIN sale[o]
  <2>1. DOMAIN sale[o] = DOMAIN Unsold
    BY <1>1 DEF Shape, SaleShape
  <2>. QED
    BY <2>1 DEF Unsold
<1>4. RowOK(o) /\ DrawerOK
  BY DEF MoneyInv
<1>5. /\ sale'[o].pay = status /\ sale'[o].refundCash = 0
      /\ sale'[o].refundedIn = session
      /\ sale'[o].cash = sale[o].cash /\ sale'[o].card = sale[o].card
      /\ sale'[o].links = sale[o].links /\ sale'[o].till = sale[o].till
      /\ \A p \in Sales \ {o} : sale'[p] = sale[p]
  BY <1>1, <1>3, <1>4 DEF Shape, RowOK
<1>6. drawer' = [drawer EXCEPT ![session] = @ - 0]
  <2>1. drawer \in [Sessions -> Int]
    BY <1>4 DEF DrawerOK
  <2>2. CASE session \in Sessions
    <3>1. drawer[session] - 0 = drawer[session]
      BY <2>1, <2>2
    <3>. QED
      BY <1>1, <2>1, <3>1
  <2>3. CASE session \notin Sessions
    BY <1>1, <2>1, <2>3
  <2>. QED
    BY <2>2, <2>3
<1>7. amount \in 0..Total(o) /\ 0 \in 0..sale[o].cash
  BY <1>1, <1>4 DEF RowOK
<1>8. IsReversed(o, amount, 0)
  BY <1>1, <1>2, <1>5, <1>6, <1>7 DEF IsReversed
<1>9. /\ \A p \in Sales : RowOK(p)'
      /\ DrawerOK'
      /\ \A s \in Sessions : s = session => ExpectedCash(s)' = ExpectedCash(s)
  BY <1>8, ReversalCounts
<1>10. ASSUME NEW u \in Api
       PROVE  Unmoved(u)
  <2>1. RequestOK(u)
    BY DEF MoneyInv
  <2>2. Reversing(u) => sale'[txn[u].sale] = sale[txn[u].sale]
    BY <1>1, <1>5, <2>1 DEF OrderFree, Reversing, RequestOK, ReversalOK
  <2>. QED
    BY <1>1, <1>9, <2>1, <2>2 DEF Unmoved, RequestOK
<1>. QED
  BY <1>1, <1>9, <1>10, NoneMoves

\* The provider's refund is a word about the links, not about money.
LEMMA RefundConfirmed ==
  ASSUME LinkInv, MoneyInv, NEW o \in Sales, confirm_pos_order_provider_refund(o)
  PROVE  MoneyInv'
<1>1. /\ Shape /\ OrderFree(o) /\ sale' = [sale EXCEPT ![o].flag = "CONFIRMED"]
      /\ UNCHANGED <<session, open, expected, drawer, back, txn>>
  BY DEF confirm_pos_order_provider_refund, till, LinkInv
<1>2. \A f \in {"pay", "refundCash", "refundedIn", "cash", "card", "links", "till"} :
        f \in DOMAIN sale[o]
  <2>1. DOMAIN sale[o] = DOMAIN Unsold
    BY <1>1 DEF Shape, SaleShape
  <2>. QED
    BY <2>1 DEF Unsold
<1>3. \A p \in Sales :
        /\ sale'[p].pay = sale[p].pay /\ sale'[p].refundCash = sale[p].refundCash
        /\ sale'[p].refundedIn = sale[p].refundedIn
        /\ sale'[p].cash = sale[p].cash /\ sale'[p].card = sale[p].card
        /\ sale'[p].links = sale[p].links /\ sale'[p].till = sale[p].till
  BY <1>1, <1>2 DEF Shape
<1>4. \A s : ExpectedCash(s)' = ExpectedCash(s)
  BY <1>3, CountStays DEF Counted
<1>5. \A p \in Sales : Total(p)' = Total(p)
  BY <1>3 DEF Total
<1>6. \A p \in Sales : RowOK(p)'
  BY <1>1, <1>3, <1>5 DEF RowOK, MoneyInv
<1>7. DrawerOK'
  BY <1>1, <1>4 DEF DrawerOK, CashUpExact, MoneyInv
<1>8. ASSUME NEW u \in Api
      PROVE  Unmoved(u)
  <2>1. RequestOK(u)
    BY DEF MoneyInv
  <2>2. Reversing(u) => sale'[txn[u].sale] = sale[txn[u].sale]
    BY <1>1, <2>1 DEF OrderFree, Reversing, RequestOK, ReversalOK, Shape
  <2>. QED
    BY <1>1, <1>4, <2>1, <2>2 DEF Unmoved, RequestOK
<1>. QED
  BY <1>1, <1>6, <1>7, <1>8, NoneMoves


LEMMA MoneyInit == Init => MoneyInv /\ DOMAIN back = Sales
<1>. SUFFICES ASSUME Init
              PROVE  MoneyInv /\ DOMAIN back = Sales
  OBVIOUS
<1>1. \A o \in Sales : sale[o] = Unsold /\ back[o] = 0
  BY DEF Init
<1>2. session = 0 /\ open = FALSE /\ \A t \in Api : txn[t] = Idle
  BY DEF Init
<1>3. \A o \in Sales : RowOK(o)
  <2>. SUFFICES ASSUME NEW o \in Sales
                PROVE  RowOK(o)
    OBVIOUS
  <2>1. /\ sale[o].cash = 0 /\ sale[o].card = 0 /\ sale[o].till = 0
        /\ sale[o].refundCash = 0 /\ sale[o].refundedIn = 0
    BY <1>1 DEF Unsold
  <2>2. Total(o) \in Nat
    BY <2>1, LinkUnitsNat DEF Total
  <2>. QED
    BY <1>1, <1>2, <2>1, <2>2 DEF RowOK
<1>4. DrawerOK
  <2>1. \A s \in Sessions : s \in Int /\ ~(s < 0) /\ s # 0
    BY DEF Sessions
  <2>2. drawer \in [Sessions -> Int] /\ \A s \in Sessions : drawer[s] = 0 /\ expected[s] = 0
    BY DEF Init
  <2>3. DOMAIN expected = Sessions
    BY DEF Init
  <2>4. CashUpExact
    BY <1>2, <2>1, <2>2 DEF CashUpExact
  <2>5. session \in 0..MaxSessions
    BY <1>2, PosAssumption
  <2>. QED
    BY <1>2, <2>2, <2>3, <2>4, <2>5 DEF DrawerOK
<1>5. \A t \in Api : RequestOK(t) /\ ~HoldsTill(t) /\ ~Reversing(t)
  <2>1. Idle.op = "idle" /\ Idle.phase = "commit" /\ Idle.pays.cash = 0 /\ Idle.pays.card = 0
    BY DEF Idle, Nothing
  <2>. QED
    BY <1>2, <2>1 DEF RequestOK, HoldsTill, Reversing, TillOps
<1>6. \A t, u \in Api : Alone(t, u)
  BY <1>5 DEF Alone
<1>7. DOMAIN back = Sales
  BY DEF Init
<1>. QED
  BY <1>3, <1>4, <1>5, <1>6, <1>7 DEF MoneyInv

\* Rows of back are written, never made.
LEMMA BackStays ==
  ASSUME DOMAIN back = Sales, [Next]_vars
  PROVE  DOMAIN back' = Sales
<1>1. CASE \/ \E o \in Sales : \E amount \in 1..Total(o) : refund_order_payment(o, amount)
           \/ \E t \in Api : CommitReversal(t)
  BY <1>1 DEF refund_order_payment, CommitReversal
<1>2. CASE back' = back
  BY <1>2
<1>3. CASE UNCHANGED vars
  BY <1>2, <1>3 DEF vars
<1>4. CASE Immediate
  BY <1>1, <1>2, <1>4 DEF Immediate, open_till, confirm_pos_order_provider_refund,
     LinkUnavailable, mark_intent_paid, cancel_pos_payment_intent,
     resend_pos_payment_intent, IntentBecomes
<1>5. CASE Environment
  BY <1>2, <1>5 DEF Environment, CustomerPays, GrowsStale
<1>6. ASSUME NEW t \in Api, Requests(t)
      PROVE  DOMAIN back' = Sales
  BY <1>2, <1>6 DEF Requests, create_pos_order, close_till, refund_pos_order,
     void_pos_order, BeginReversal, update_payment_status, create_pos_payment_intent,
     get_pos_payment_intent
<1>7. ASSUME NEW t \in Api, Step(t)
      PROVE  DOMAIN back' = Sales
  BY <1>1, <1>2, <1>7 DEF Step, TakeTill, LockLinks, ReplayWinner, LinksCollide,
     CommitCheckout, CommitClose, CommitPatch, CommitLink, CommitPoll, IntentBecomes
<1>8. ASSUME NEW t \in Api, Crash(t)
      PROVE  DOMAIN back' = Sales
  BY <1>2, <1>8 DEF Crash
<1>. QED
  BY <1>3, <1>4, <1>5, <1>6, <1>7, <1>8 DEF Next

LEMMA MoneyNext ==
  ASSUME NoPatch, LinkInv, MoneyInv, DOMAIN back = Sales, [Next]_vars
  PROVE  MoneyInv'
<1>1. Shape
  BY DEF LinkInv
<1>2. CASE UNCHANGED vars
  BY <1>2, QuietStays DEF vars, Quiet
<1>3. CASE Immediate
  <2>1. ASSUME NEW i \in Intents,
               \/ LinkUnavailable(i) \/ mark_intent_paid(i)
               \/ cancel_pos_payment_intent(i) \/ resend_pos_payment_intent(i)
        PROVE  MoneyInv'
    BY <2>1, QuietStays DEF LinkUnavailable, mark_intent_paid, cancel_pos_payment_intent,
       resend_pos_payment_intent, IntentBecomes, Quiet, till
  <2>. QED
    BY <1>3, <2>1, TillOpens, RefundConfirmed, GenericRefundPays DEF Immediate
<1>4. CASE Environment
  BY <1>4, QuietStays DEF Environment, CustomerPays, GrowsStale, Quiet, till
<1>5. ASSUME NEW t \in Api, Requests(t)
      PROVE  MoneyInv'
  <2>1. ~\E o \in Sales, new \in {"UNPAID", "PAID"} : update_payment_status(t, o, new)
    BY DEF NoPatch, update_payment_status, Begins
  <2>. QED
    BY <1>5, <2>1, MoneyAside, CashUpCounts, ReversalAsks DEF Requests
<1>6. ASSUME NEW t \in Api, Step(t)
      PROVE  MoneyInv'
  <2>1. ~CommitPatch(t)
    BY <1>1 DEF CommitPatch, NoPatch, Shape, SlotShape
  <2>. QED
    BY <1>6, <2>1, TillIsTaken, LinksUnderTill, EndsAside, CheckoutPays, CashUpWrites,
       ReversalPays DEF Step
<1>7. ASSUME NEW t \in Api, Crash(t)
      PROVE  MoneyInv'
  BY <1>7, EndsAside
<1>. QED
  BY <1>2, <1>3, <1>4, <1>5, <1>6, <1>7 DEF Next

\* The invariant of every reachable state without the payment PATCH: who has the
\* till and the order, and that the open drawer is what a cash-up would count.
THEOREM MoneyInvariant ==
  ASSUME NoPatch
  PROVE  Spec => []MoneyInv
<1>1. LinkInv /\ (MoneyInv /\ DOMAIN back = Sales) /\ [Next]_vars
      => (MoneyInv /\ DOMAIN back = Sales)'
  BY MoneyNext, BackStays
<1>. QED
  BY <1>1, MoneyInit, LinksInvariant, PTL DEF Spec

\* A closed session's cash-up is the cash that moved through its drawer, for any
\* number of sessions, sales, tills and racing refunds (close_till,
\* _get_open_till, _require_open_till_for_cash_reversal).
THEOREM CashUpsAreExact ==
  ASSUME NoPatch
  PROVE  Spec => []CashUpExact
<1>1. MoneyInv => CashUpExact
  BY DEF MoneyInv, DrawerOK
<1>. QED
  BY <1>1, MoneyInvariant, PTL

\* No sale gives back more than it took, over both refund endpoints and the void
\* (_load_pos_order_for_reversal, refund_order_payment).
THEOREM RefundsStayWithinTheTotal ==
  ASSUME NoPatch
  PROVE  Spec => []RefundWithinTotal
<1>1. MoneyInv => RefundWithinTotal
  <2>. SUFFICES ASSUME MoneyInv, NEW o \in Sales
                PROVE  back[o] <= Total(o)
    BY DEF RefundWithinTotal
  <2>1. sale[o].cash \in Nat /\ sale[o].card \in Nat /\ back[o] \in 0..Total(o)
    BY DEF MoneyInv, RowOK
  <2>2. Total(o) \in Nat
    BY <2>1, LinkUnitsNat DEF Total
  <2>. QED
    BY <2>1, <2>2
<1>. QED
  BY <1>1, MoneyInvariant, PTL
=============================================================================
