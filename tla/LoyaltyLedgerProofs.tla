------------------------- MODULE LoyaltyLedgerProofs -------------------------
(***************************************************************************)
(* The loyalty ledger for any number of requests, wallets and sales.       *)
(*                                                                         *)
(* Every step of every handler leaves the wallets alone or appends one     *)
(* Proper entry to one of them (StepWrites).  The four theorems follow     *)
(* from what one such entry does to the ledger.                            *)
(***************************************************************************)
EXTENDS LoyaltyLedger, TLAPS

\* Whatever was sold has an owner, and only what was sold is being paid for.
OwnersKnown ==
  /\ \A o \in Orders : pay[o] # "NONE" => owner[o] \in Customers
  /\ \A r \in Requests : req[r].op \in {"pay", "award"} => pay[req[r].on] # "NONE"

\* A redemption never adds points, and only what was redeemed is given back.
RewardsAreSpent ==
  \A c \in Customers : \A n \in 1 .. Len(log[c]), o \in Sales :
    /\ log[c][n].key = RedeemKey(o) => log[c][n].delta <= 0
    /\ log[c][n].key = ReversalKey(o) =>
         \E m \in 1 .. Len(log[c]) : log[c][m].key = RedeemKey(o)

\* One entry was appended to one wallet.
Wrote(c, delta, key) ==
  /\ balance' \in [Customers -> Nat] /\ log' \in [Customers -> Seq(Entry)]
  /\ balance'[c] = balance[c] + delta
  /\ balance' = [balance EXCEPT ![c] = balance'[c]]
  /\ Len(log'[c]) = Len(log[c]) + 1
  /\ \A n \in 1 .. Len(log[c]) : log'[c][n] = log[c][n]
  /\ log'[c][Len(log[c]) + 1] = [delta |-> delta, after |-> balance[c] + delta, key |-> key]
  /\ \A d \in Customers : d # c => log'[d] = log[d] /\ balance'[d] = balance[d]

\* What a handler may write: a fresh key, a debit for a reward not yet given
\* back, and the points of the redemption it returns.
Proper(c, delta, key) ==
  /\ ~Taken(key)
  /\ \A o \in Sales : key = RedeemKey(o) => delta <= 0 /\ ~Taken(ReversalKey(o))
  /\ \A o \in Sales : key = ReversalKey(o) =>
       \E e \in Entries(c) : e.key = RedeemKey(o) /\ delta = -e.delta

IInv == TypeOK /\ OwnersKnown /\ RewardsAreSpent /\ BalanceExplained /\ RedeemedAndReturnedOnce

-----------------------------------------------------------------------------
(* The initial state, and one write.                                        *)

LEMMA InitIInv == Init => IInv
<1> SUFFICES ASSUME Init PROVE IInv
  OBVIOUS
<1>1. TypeOK
  BY DEF Init, TypeOK, Statuses, Read
<1>2. \A c \in Customers : Len(log[c]) = 0
  BY DEF Init
<1>3. OwnersKnown
  BY DEF Init, OwnersKnown, Idle
<1>4. RewardsAreSpent /\ RedeemedAndReturnedOnce
  BY <1>2 DEF RewardsAreSpent, RedeemedAndReturnedOnce
<1>5. BalanceExplained
  BY <1>2 DEF Init, BalanceExplained, Before
<1> QED
  BY <1>1, <1>3, <1>4, <1>5 DEF IInv

\* Write appends one entry and moves the balance by it.
LEMMA WriteIsEntry ==
  ASSUME TypeOK, NEW c \in Customers, NEW delta \in Int, NEW key \in EntryKeys,
         balance[c] + delta \in Nat, Write(c, balance[c], delta, key)
  PROVE  Wrote(c, delta, key)
<1> DEFINE e == [delta |-> delta, after |-> balance[c] + delta, key |-> key]
<1>1. e \in Entry
  BY DEF Entry
<1>2. balance' = [balance EXCEPT ![c] = balance[c] + delta]
  BY DEF Write
<1>3. log' = [log EXCEPT ![c] = Append(log[c], e)]
  BY DEF Write
<1>4. log[c] \in Seq(Entry) /\ DOMAIN log = Customers /\ DOMAIN balance = Customers
  BY DEF TypeOK
<1>5. log'[c] = Append(log[c], e)
  BY <1>3, <1>4
<1>6. /\ Append(log[c], e) \in Seq(Entry)
      /\ Len(Append(log[c], e)) = Len(log[c]) + 1
      /\ \A n \in 1 .. Len(log[c]) : Append(log[c], e)[n] = log[c][n]
      /\ Append(log[c], e)[Len(log[c]) + 1] = e
  BY <1>1, <1>4
<1>7. balance' \in [Customers -> Nat]
  BY <1>2 DEF TypeOK
<1>8. log' \in [Customers -> Seq(Entry)]
  BY <1>3, <1>6 DEF TypeOK
<1>9. balance'[c] = balance[c] + delta
  BY <1>2, <1>4
<1>10. \A d \in Customers : d # c => log'[d] = log[d] /\ balance'[d] = balance[d]
  BY <1>2, <1>3, <1>4
<1>11. balance' = [balance EXCEPT ![c] = balance'[c]]
  BY <1>2, <1>9
<1> QED
  BY <1>5, <1>6, <1>7, <1>8, <1>9, <1>10, <1>11 DEF Wrote

-----------------------------------------------------------------------------
(* Every step is one proper write or none.                                  *)

\* What a slot has read, by the handler in it.
LEMMA ReadShapes ==
  ASSUME TypeOK, NEW r \in Requests
  PROVE  /\ Serving(r, "lookup") => req[r].on \in Customers
         /\ Serving(r, "checkout") =>
              /\ req[r].on \in Sales /\ req[r].who \in Customers
              /\ req[r].cost \in Nat /\ req[r].redeems \in BOOLEAN
         /\ Serving(r, "redeem") => req[r].who \in Customers /\ req[r].cost \in Nat
         /\ Serving(r, "adjust") => req[r].on \in Keys /\ req[r].who \in Customers
         /\ Serving(r, "pay") \/ Serving(r, "award") => req[r].on \in Orders
<1>1. req[r] \in Read
  BY DEF TypeOK
<1> QED
  BY <1>1 DEF Read, Serving, Idle

\* The keys of the ledger are told apart by their first word.
LEMMA KeysDiffer ==
  /\ NoKey \in EntryKeys
  /\ \A o \in Sales : RedeemKey(o) \in EntryKeys /\ ReversalKey(o) \in EntryKeys
  /\ \A k \in Keys : AdjustKey(k) \in EntryKeys
  /\ \A o \in Sales : NoKey # RedeemKey(o) /\ NoKey # ReversalKey(o)
  /\ \A o, p \in Sales : RedeemKey(o) # ReversalKey(p)
  /\ \A o, p \in Sales : (RedeemKey(o) = RedeemKey(p) => o = p)
                         /\ (ReversalKey(o) = ReversalKey(p) => o = p)
  /\ \A o \in Sales, k \in Keys : AdjustKey(k) # RedeemKey(o) /\ AdjustKey(k) # ReversalKey(o)
BY LoyaltyAssumption DEF EntryKeys, RedeemKey, ReversalKey, AdjustKey

\* An entry without a key is always proper.
LEMMA NoKeyIsProper ==
  ASSUME NEW c, NEW delta PROVE Proper(c, delta, NoKey)
BY KeysDiffer DEF Proper, Taken

\* What a void or a full refund gives back.
LEMMA ReverseWrites ==
  ASSUME IInv, NEW o \in Sales, Reverse(o), ~Untouched
  PROVE  \E c \in Customers, delta \in Int, key \in EntryKeys :
           Wrote(c, delta, key) /\ Proper(c, delta, key)
<1> DEFINE c == owner[o]
           spent == {e \in Entries(c) : e.key = RedeemKey(o)}
<1>1. pay[o] = "PAID" /\ o \in Orders
  BY DEF Reverse, Orders
<1>2. c \in Customers
  BY <1>1 DEF IInv, OwnersKnown
<1>3. PICK e \in spent : Write(c, balance[c], PointsBack(e), ReversalKey(o))
  BY DEF Reverse
<1>4. ~Taken(ReversalKey(o))
  BY DEF Reverse
<1>5. PICK n \in 1 .. Len(log[c]) : e = log[c][n]
  BY <1>3 DEF Entries
<1>6. log[c] \in Seq(Entry) /\ balance[c] \in Nat
  BY <1>2 DEF IInv, TypeOK
<1>7. e \in Entry
  BY <1>5, <1>6
<1>8. e.delta \in Int /\ e.delta <= 0
  BY <1>2, <1>3, <1>5, <1>7 DEF IInv, RewardsAreSpent, Entry
<1>9. -e.delta \in Int /\ balance[c] + (-e.delta) \in Nat
  BY <1>6, <1>8
<1>10. Wrote(c, -e.delta, ReversalKey(o))
  BY <1>2, <1>3, <1>9, KeysDiffer, WriteIsEntry DEF IInv, PointsBack
<1>11. Proper(c, -e.delta, ReversalKey(o))
  BY <1>3, <1>4, KeysDiffer DEF Proper
<1> QED
  BY <1>2, <1>9, <1>10, <1>11, KeysDiffer

\* The redemption of a till sale.
LEMMA CheckoutWrites ==
  ASSUME IInv, NEW r \in Requests, CheckoutCommits(r), ~Untouched
  PROVE  \E c \in Customers, delta \in Int, key \in EntryKeys :
           Wrote(c, delta, key) /\ Proper(c, delta, key)
<1> DEFINE o == req[r].on
           c == req[r].who
           points == req[r].cost
<1>1. o \in Sales /\ c \in Customers /\ points \in Nat
  BY ReadShapes DEF CheckoutCommits, IInv
<1>2. /\ Covers(balance[c], points)
      /\ ~Taken(RedeemKey(o))
      /\ Write(c, balance[c], -points, RedeemKey(o))
  BY DEF CheckoutCommits, LockedBalance
<1>3. balance[c] \in Nat
  BY <1>1 DEF IInv, TypeOK
<1>4. balance[c] + (-points) \in Nat /\ -points \in Int /\ -points <= 0
  BY <1>1, <1>2, <1>3 DEF Covers
<1>5. ~Taken(ReversalKey(o))
  <2> SUFFICES ASSUME Taken(ReversalKey(o)) PROVE FALSE
    OBVIOUS
  <2>1. PICK d \in Customers : \E n \in 1 .. Len(log[d]) : log[d][n].key = ReversalKey(o)
    BY DEF Taken, Entries
  <2>2. PICK m \in 1 .. Len(log[d]) : log[d][m].key = RedeemKey(o)
    BY <1>1, <2>1 DEF IInv, RewardsAreSpent
  <2>3. log[d][m] \in Entries(d)
    BY DEF Entries
  <2> QED
    BY <1>1, <1>2, <2>2, <2>3, KeysDiffer DEF Taken
<1>6. Wrote(c, -points, RedeemKey(o))
  BY <1>1, <1>2, <1>4, KeysDiffer, WriteIsEntry DEF IInv
<1>7. Proper(c, -points, RedeemKey(o))
  BY <1>1, <1>2, <1>4, <1>5, KeysDiffer DEF Proper
<1> QED
  BY <1>1, <1>4, <1>6, <1>7, KeysDiffer

\* A reward handed over without a sale.
LEMMA RedeemWrites ==
  ASSUME IInv, NEW r \in Requests, RedeemCommits(r), ~Untouched
  PROVE  \E c \in Customers, delta \in Int, key \in EntryKeys :
           Wrote(c, delta, key) /\ Proper(c, delta, key)
<1> DEFINE c == req[r].who
           points == req[r].cost
<1>1. c \in Customers /\ points \in Nat
  BY ReadShapes DEF RedeemCommits, IInv
<1>2. Covers(balance[c], points) /\ Write(c, balance[c], -points, NoKey)
  BY DEF RedeemCommits, LockedBalance
<1>3. balance[c] \in Nat
  BY <1>1 DEF IInv, TypeOK
<1>4. balance[c] + (-points) \in Nat /\ -points \in Int
  BY <1>1, <1>2, <1>3 DEF Covers
<1>5. Wrote(c, -points, NoKey)
  BY <1>1, <1>2, <1>4, KeysDiffer, WriteIsEntry DEF IInv
<1> QED
  BY <1>1, <1>4, <1>5, KeysDiffer, NoKeyIsProper

\* A manager's correction.
LEMMA AdjustWrites ==
  ASSUME IInv, NEW r \in Requests, AdjustCommits(r), ~Untouched
  PROVE  \E c \in Customers, delta \in Int, key \in EntryKeys :
           Wrote(c, delta, key) /\ Proper(c, delta, key)
<1> DEFINE c == req[r].who
           key == AdjustKey(req[r].on)
<1>1. c \in Customers /\ req[r].on \in Keys
  BY ReadShapes DEF AdjustCommits, IInv
<1>2. PICK delta \in Deltas :
        KeyFree(key) /\ Allows(balance[c], delta) /\ Write(c, balance[c], delta, key)
  BY DEF AdjustCommits, LockedBalance
<1>3. delta \in Int /\ balance[c] \in Nat
  BY <1>1, LoyaltyAssumption DEF IInv, TypeOK
<1>4. balance[c] + delta \in Nat
  BY <1>2, <1>3 DEF Allows
<1>5. Wrote(c, delta, key)
  BY <1>1, <1>2, <1>3, <1>4, KeysDiffer, WriteIsEntry DEF IInv
<1>6. Proper(c, delta, key)
  BY <1>1, <1>2, KeysDiffer DEF Proper, KeyFree
<1> QED
  BY <1>1, <1>3, <1>5, <1>6, KeysDiffer

\* What a paid order earns.
LEMMA AwardWrites ==
  ASSUME IInv, NEW r \in Requests, Award(r)
  PROVE  \E c \in Customers, delta \in Int, key \in EntryKeys :
           Wrote(c, delta, key) /\ Proper(c, delta, key)
<1> DEFINE c == owner[req[r].on]
<1>1. req[r].on \in Orders /\ req[r].op = "award"
  BY ReadShapes DEF Award, IInv, Serving
<1>2. c \in Customers
  BY <1>1 DEF IInv, OwnersKnown
<1>3. PICK points \in Earns : Write(c, balance[c], points, NoKey)
  BY DEF Award
<1>4. points \in Int /\ balance[c] + points \in Nat
  BY <1>2, LoyaltyAssumption DEF IInv, TypeOK
<1>5. Wrote(c, points, NoKey)
  BY <1>2, <1>3, <1>4, KeysDiffer, WriteIsEntry DEF IInv
<1> QED
  BY <1>2, <1>4, <1>5, KeysDiffer, NoKeyIsProper

\* Every step of every handler: one proper entry, or no change at all.
LEMMA StepWrites ==
  ASSUME IInv, [Next]_vars
  PROVE  \/ Untouched
         \/ \E c \in Customers, delta \in Int, key \in EntryKeys :
              Wrote(c, delta, key) /\ Proper(c, delta, key)
<1>1. CASE \E o \in Sales : Reverse(o)
  BY <1>1, ReverseWrites
<1>2. CASE \E r \in Requests : CheckoutCommits(r)
  BY <1>2, CheckoutWrites
<1>3. CASE \E r \in Requests : RedeemCommits(r)
  BY <1>3, RedeemWrites
<1>4. CASE \E r \in Requests : AdjustCommits(r)
  BY <1>4, AdjustWrites
<1>5. CASE \E r \in Requests : Award(r)
  BY <1>5, AwardWrites
<1>6. CASE \/ EditReward \/ UNCHANGED vars
           \/ \E o \in Sales : ReverseKeepingPoints(o)
           \/ \E o \in Remote : Unpay(o) \/ \E c \in Customers : PlaceRemote(o, c)
  BY <1>6 DEF EditReward, vars, ReverseKeepingPoints, Unpay, PlaceRemote, Untouched
<1>7. CASE \E r \in Requests :
             \/ \E c \in Customers : LookupReads(r, c) \/ RedeemReads(r, c)
             \/ \E o \in Sales, c \in Customers, redeems \in BOOLEAN :
                  CheckoutReads(r, o, c, redeems)
             \/ \E k \in Keys, c \in Customers : AdjustReads(r, k, c)
             \/ \E o \in Remote : PayReads(r, o)
  BY <1>7 DEF LookupReads, RedeemReads, CheckoutReads, AdjustReads, PayReads, Untouched
<1>8. CASE \E r \in Requests : \/ LookupCommits(r) \/ CheckoutRefused(r) \/ PayCommits(r)
                               \/ AwardSkipped(r)
  BY <1>8 DEF LookupCommits, CheckoutRefused, PayCommits, AwardSkipped, Untouched
<1> QED
  BY <1>1, <1>2, <1>3, <1>4, <1>5, <1>6, <1>7, <1>8 DEF Next

-----------------------------------------------------------------------------
(* The wallets, orders and slots keep their types.                          *)

\* The handlers change what they read, and whose order it is, within the types.
LEMMA StepSlots ==
  ASSUME TypeOK, OwnersKnown, Next
  PROVE  /\ opened' \subseteq Customers /\ cost' \in Costs
         /\ pay' \in [Orders -> Statuses]
         /\ owner' \in [Orders -> Customers \cup {NoOne}]
         /\ req' \in [Requests -> Read]
         /\ OwnersKnown'
<1> DEFINE Slots == /\ opened' \subseteq Customers /\ cost' \in Costs
                    /\ pay' \in [Orders -> Statuses]
                    /\ owner' \in [Orders -> Customers \cup {NoOne}]
                    /\ req' \in [Requests -> Read]
<1> USE LoyaltyAssumption
<1>1. CASE EditReward
  BY <1>1 DEF EditReward, TypeOK, OwnersKnown
<1>2. CASE \E o \in Sales : Reverse(o) \/ ReverseKeepingPoints(o)
  <2>1. PICK o \in Sales : Reverse(o) \/ ReverseKeepingPoints(o)
    BY <1>2
  <2>2. /\ pay' = [pay EXCEPT ![o] = "REVERSED"] /\ pay[o] = "PAID"
        /\ UNCHANGED <<opened, cost, owner, req>> /\ o \in Orders
    BY <2>1 DEF Reverse, ReverseKeepingPoints, Orders
  <2> QED
    BY <2>2 DEF TypeOK, OwnersKnown, Statuses
<1>3. CASE \E o \in Remote : Unpay(o)
  BY <1>3 DEF Unpay, TypeOK, OwnersKnown, Statuses, Orders
<1>4. CASE \E o \in Remote, c \in Customers : PlaceRemote(o, c)
  <2>1. PICK o \in Remote, c \in Customers : PlaceRemote(o, c)
    BY <1>4
  <2>2. /\ o \in Orders /\ pay[o] = "NONE"
        /\ pay' = [pay EXCEPT ![o] = "UNPAID"] /\ owner' = [owner EXCEPT ![o] = c]
        /\ UNCHANGED <<opened, cost, req>>
    BY <2>1 DEF PlaceRemote, Orders
  <2> QED
    BY <2>2 DEF TypeOK, OwnersKnown, Statuses
<1>5. ASSUME NEW r \in Requests, NEW read \in Read, req' = [req EXCEPT ![r] = read],
             UNCHANGED <<opened, cost, pay, owner>>,
             read.op \in {"pay", "award"} => pay[read.on] # "NONE"
      PROVE  Slots /\ OwnersKnown'
  BY <1>5 DEF TypeOK, OwnersKnown
<1>6. ASSUME NEW r \in Requests, NEW c \in Customers, LookupReads(r, c) \/ RedeemReads(r, c)
      PROVE  Slots /\ OwnersKnown'
  <2>1. balance[c] \in Nat /\ cost \in Nat
    BY DEF TypeOK
  <2>2. /\ [op |-> "lookup", on |-> c] \in Read
        /\ [op |-> "redeem", who |-> c, seen |-> balance[c], cost |-> cost] \in Read
    BY <2>1 DEF Read
  <2>3. CASE LookupReads(r, c)
    BY <1>5, <2>2, <2>3 DEF LookupReads, Begin
  <2>4. CASE RedeemReads(r, c)
    BY <1>5, <2>2, <2>4 DEF RedeemReads, Begin
  <2> QED
    BY <1>6, <2>3, <2>4
<1>7. ASSUME NEW r \in Requests, NEW o \in Sales, NEW c \in Customers,
             NEW redeems \in BOOLEAN, CheckoutReads(r, o, c, redeems)
      PROVE  Slots /\ OwnersKnown'
  <2>1. balance[c] \in Nat /\ cost \in Nat
    BY DEF TypeOK
  <2>2. [op |-> "checkout", on |-> o, who |-> c, seen |-> balance[c],
         cost |-> cost, redeems |-> redeems] \in Read
    BY <2>1 DEF Read
  <2> QED
    BY <1>5, <1>7, <2>2 DEF CheckoutReads, Begin
<1>8. ASSUME NEW r \in Requests, NEW k \in Keys, NEW c \in Customers, AdjustReads(r, k, c)
      PROVE  Slots /\ OwnersKnown'
  <2>1. [op |-> "adjust", on |-> k, who |-> c, seen |-> balance[c]] \in Read
    BY DEF Read, TypeOK
  <2> QED
    BY <1>5, <1>8, <2>1 DEF AdjustReads, Begin
<1>9. ASSUME NEW r \in Requests, NEW o \in Remote, PayReads(r, o)
      PROVE  Slots /\ OwnersKnown'
  <2>1. [op |-> "pay", on |-> o] \in Read
    BY DEF Read, Orders
  <2> QED
    BY <1>5, <1>9, <2>1 DEF PayReads, Begin
<1>10. Idle \in Read /\ Idle.op \notin {"pay", "award"}
  BY DEF Read, Idle
<1>11. ASSUME NEW r \in Requests, LookupCommits(r)
       PROVE  Slots /\ OwnersKnown'
  <2>1. opened' \subseteq Customers
    BY <1>11, ReadShapes DEF LookupCommits, TypeOK
  <2> QED
    BY <1>10, <1>11, <2>1 DEF LookupCommits, End, Then, TypeOK, OwnersKnown
<1>12. ASSUME NEW r \in Requests, \/ CheckoutRefused(r) \/ RedeemCommits(r)
                                  \/ AdjustCommits(r) \/ Award(r) \/ AwardSkipped(r)
       PROVE  Slots /\ OwnersKnown'
  <2>1. req' = [req EXCEPT ![r] = Idle] /\ UNCHANGED <<opened, cost, pay, owner>>
    BY <1>12 DEF CheckoutRefused, RedeemCommits, AdjustCommits, Award, AwardSkipped, End, Then
  <2> QED
    BY <1>5, <1>10, <2>1
<1>13. ASSUME NEW r \in Requests, CheckoutCommits(r)
       PROVE  Slots /\ OwnersKnown'
  <2> DEFINE o == req[r].on
  <2>1. o \in Sales /\ req[r].who \in Customers /\ o \in Orders
    BY <1>13, ReadShapes DEF CheckoutCommits, Orders
  <2>2. [op |-> "award", on |-> o] \in Read
    BY <2>1 DEF Read
  <2>3. /\ pay' = [pay EXCEPT ![o] = "PAID"] /\ owner' = [owner EXCEPT ![o] = req[r].who]
        /\ req' = [req EXCEPT ![r] = [op |-> "award", on |-> o]]
        /\ UNCHANGED <<opened, cost>>
    BY <1>13 DEF CheckoutCommits, Then
  <2>4. Slots
    BY <2>1, <2>2, <2>3 DEF TypeOK, Statuses
  <2>5. OwnersKnown'
    BY <2>1, <2>3, ReadShapes DEF OwnersKnown, TypeOK, Serving
  <2> QED
    BY <2>4, <2>5
<1>14. ASSUME NEW r \in Requests, PayCommits(r)
       PROVE  Slots /\ OwnersKnown'
  <2> DEFINE o == req[r].on
  <2>1. o \in Orders /\ pay[o] # "NONE"
    BY <1>14, ReadShapes DEF PayCommits, OwnersKnown, Serving
  <2>2. [op |-> "award", on |-> o] \in Read
    BY <2>1 DEF Read
  <2>3. /\ pay' = [pay EXCEPT ![o] = "PAID"]
        /\ req' = [req EXCEPT ![r] = [op |-> "award", on |-> o]]
        /\ UNCHANGED <<opened, cost, owner>>
    BY <1>14 DEF PayCommits, Then
  <2>4. Slots
    BY <2>1, <2>2, <2>3 DEF TypeOK, Statuses
  <2>5. OwnersKnown'
    BY <2>1, <2>3, ReadShapes DEF OwnersKnown, TypeOK, Serving
  <2> QED
    BY <2>4, <2>5
<1> QED
  BY <1>1, <1>2, <1>3, <1>4, <1>6, <1>7, <1>8, <1>9, <1>11, <1>12, <1>13, <1>14 DEF Next

-----------------------------------------------------------------------------
(* What a proper entry keeps.                                               *)

LEMMA WroteKeepsBalance ==
  ASSUME TypeOK, BalanceExplained, NEW c \in Customers, NEW delta \in Int,
         NEW key \in EntryKeys, Wrote(c, delta, key)
  PROVE  BalanceExplained'
<1> SUFFICES ASSUME NEW d \in Customers
             PROVE  /\ \A n \in 1 .. Len(log'[d]) :
                         log'[d][n].after = (IF n = 1 THEN 0 ELSE log'[d][n - 1].after)
                                              + log'[d][n].delta
                    /\ balance'[d] = (IF Len(log'[d]) + 1 = 1 THEN 0
                                      ELSE log'[d][Len(log'[d])].after)
  BY DEF BalanceExplained, Before
<1>1. Len(log[d]) \in Nat /\ Len(log[c]) \in Nat
  BY DEF TypeOK
<1>2. /\ \A n \in 1 .. Len(log[d]) :
           log[d][n].after = (IF n = 1 THEN 0 ELSE log[d][n - 1].after) + log[d][n].delta
      /\ balance[d] = (IF Len(log[d]) + 1 = 1 THEN 0 ELSE log[d][Len(log[d])].after)
  BY <1>1 DEF BalanceExplained, Before
<1>3. CASE d # c
  BY <1>2, <1>3 DEF Wrote
<1>4. CASE d = c
  <2>1. /\ Len(log'[d]) = Len(log[d]) + 1
        /\ \A n \in 1 .. Len(log[d]) : log'[d][n] = log[d][n]
        /\ log'[d][Len(log[d]) + 1].after = balance[d] + delta
        /\ log'[d][Len(log[d]) + 1].delta = delta
        /\ balance'[d] = balance[d] + delta
    BY <1>4 DEF Wrote
  <2>2. ASSUME NEW n \in 1 .. Len(log'[d])
        PROVE  log'[d][n].after = (IF n = 1 THEN 0 ELSE log'[d][n - 1].after) + log'[d][n].delta
    <3>1. CASE n \in 1 .. Len(log[d])
      <4>1. log'[d][n] = log[d][n] /\ (n # 1 => log'[d][n - 1] = log[d][n - 1])
        <5>1. n # 1 => n - 1 \in 1 .. Len(log[d])
          BY <1>1, <3>1
        <5>2. log'[d][n] = log[d][n]
          BY <2>1, <3>1, Zenon
        <5>3. ASSUME n # 1
              PROVE  log'[d][n - 1] = log[d][n - 1]
          BY <2>1, <5>1, <5>3, Zenon
        <5> QED
          BY <5>2, <5>3
      <4> QED
        BY <1>2, <3>1, <4>1
    <3>2. CASE n = Len(log[d]) + 1
      <4>1. n # 1 => log'[d][n - 1] = log[d][Len(log[d])]
        BY <1>1, <2>1, <3>2
      <4> QED
        BY <1>1, <1>2, <2>1, <3>2, <4>1
    <3> QED
      BY <1>1, <2>1, <3>1, <3>2
  <2> QED
    BY <1>1, <2>1, <2>2
<1> QED
  BY <1>3, <1>4

\* Where an entry of the next ledger comes from.
LEMMA EntryOrigin ==
  ASSUME TypeOK, NEW c \in Customers, NEW delta, NEW key, Wrote(c, delta, key),
         NEW d \in Customers, NEW n \in 1 .. Len(log'[d])
  PROVE  \/ n \in 1 .. Len(log[d]) /\ log'[d][n] = log[d][n] /\ log[d][n] \in Entries(d)
         \/ /\ d = c /\ n = Len(log[c]) + 1
            /\ log'[d][n].key = key /\ log'[d][n].delta = delta
<1>1. Len(log[d]) \in Nat
  BY DEF TypeOK
<1> QED
  BY <1>1 DEF Wrote, Entries

LEMMA WroteKeepsRewards ==
  ASSUME TypeOK, RewardsAreSpent, NEW c \in Customers, NEW delta \in Int,
         NEW key \in EntryKeys, Wrote(c, delta, key), Proper(c, delta, key)
  PROVE  RewardsAreSpent'
<1> SUFFICES ASSUME NEW d \in Customers, NEW n \in 1 .. Len(log'[d]), NEW o \in Sales
             PROVE  /\ log'[d][n].key = RedeemKey(o) => log'[d][n].delta <= 0
                    /\ log'[d][n].key = ReversalKey(o) =>
                         \E m \in 1 .. Len(log'[d]) : log'[d][m].key = RedeemKey(o)
  BY DEF RewardsAreSpent, RedeemKey, ReversalKey
<1>1. /\ 1 .. Len(log[d]) \subseteq 1 .. Len(log'[d])
      /\ \A m \in 1 .. Len(log[d]) : log'[d][m] = log[d][m]
  <2>1. Len(log[d]) \in Nat
    BY DEF TypeOK
  <2>2. CASE d = c
    <3>1. Len(log'[d]) = Len(log[d]) + 1
      BY <2>2, Zenon DEF Wrote
    <3>2. \A m \in 1 .. Len(log[d]) : log'[d][m] = log[d][m]
      BY <2>2, Zenon DEF Wrote
    <3>3. 1 .. Len(log[d]) \subseteq 1 .. Len(log'[d])
      BY <2>1, <3>1
    <3> QED
      BY <3>2, <3>3
  <2>3. CASE d # c
    <3>1. log'[d] = log[d]
      BY <2>3, Zenon DEF Wrote
    <3> QED
      BY <3>1
  <2> QED
    BY <2>2, <2>3
<1>2. CASE n \in 1 .. Len(log[d]) /\ log'[d][n] = log[d][n]
  BY <1>1, <1>2 DEF RewardsAreSpent
<1>3. CASE d = c /\ log'[d][n].key = key /\ log'[d][n].delta = delta
  <2>1. key = ReversalKey(o) => \E e \in Entries(c) : e.key = RedeemKey(o)
    BY DEF Proper
  <2>2. key = ReversalKey(o) => \E m \in 1 .. Len(log[c]) : log[c][m].key = RedeemKey(o)
    BY <2>1 DEF Entries
  <2> QED
    BY <1>1, <1>3, <2>2 DEF Proper
<1> QED
  BY <1>2, <1>3, EntryOrigin

LEMMA WroteKeepsOnce ==
  ASSUME TypeOK, RewardsAreSpent, RedeemedAndReturnedOnce,
         NEW c \in Customers, NEW delta \in Int,
         NEW key \in EntryKeys, Wrote(c, delta, key), Proper(c, delta, key)
  PROVE  RedeemedAndReturnedOnce'
<1> SUFFICES ASSUME NEW a \in Customers, NEW b \in Customers,
                    NEW m \in 1 .. Len(log'[a]), NEW n \in 1 .. Len(log'[b])
             PROVE  /\ log'[a][m].key = log'[b][n].key /\ log'[a][m].key # NoKey
                         => a = b /\ m = n
                    /\ \A o \in Sales :
                         log'[a][m].key = RedeemKey(o) /\ log'[b][n].key = ReversalKey(o) =>
                           a = b /\ log'[b][n].delta = -log'[a][m].delta
  BY DEF RedeemedAndReturnedOnce, RedeemKey, ReversalKey
<1> DEFINE Kept(d, k) == /\ k \in 1 .. Len(log[d]) /\ log'[d][k] = log[d][k]
                         /\ log[d][k] \in Entries(d)
           Newest(d, k) == /\ d = c /\ k = Len(log[c]) + 1
                           /\ log'[d][k].key = key /\ log'[d][k].delta = delta
<1>1. (Kept(a, m) \/ Newest(a, m)) /\ (Kept(b, n) \/ Newest(b, n))
  <2>1. ASSUME NEW d \in Customers, NEW k \in 1 .. Len(log'[d])
        PROVE  Kept(d, k) \/ Newest(d, k)
    <3>1. \/ k \in 1 .. Len(log[d]) /\ log'[d][k] = log[d][k] /\ log[d][k] \in Entries(d)
          \/ /\ d = c /\ k = Len(log[c]) + 1
             /\ log'[d][k].key = key /\ log'[d][k].delta = delta
      BY EntryOrigin, SMTT(60)
    <3> QED
      BY <3>1
  <2> QED
    BY <2>1
<1>2. CASE Kept(a, m) /\ Kept(b, n)
  BY <1>2 DEF RedeemedAndReturnedOnce
<1>3. CASE Newest(a, m) /\ Newest(b, n)
  BY <1>3, KeysDiffer
<1>4. CASE Kept(a, m) /\ Newest(b, n)
  <2>1. log'[a][m].key = key => key = NoKey
    BY <1>4 DEF Proper, Taken
  <2>2. ASSUME NEW o \in Sales, log'[a][m].key = RedeemKey(o), key = ReversalKey(o)
        PROVE  a = b /\ log'[b][n].delta = -log'[a][m].delta
    <3>1. PICK e \in Entries(c) : e.key = RedeemKey(o) /\ delta = -e.delta
      BY <2>2 DEF Proper
    <3>2. PICK k \in 1 .. Len(log[c]) : e = log[c][k]
      BY <3>1 DEF Entries
    <3>3. a = c /\ m = k
      BY <1>4, <2>2, <3>1, <3>2, KeysDiffer DEF RedeemedAndReturnedOnce
    <3> QED
      BY <1>4, <3>1, <3>2, <3>3
  <2> QED
    BY <1>4, <2>1, <2>2
<1>5. CASE Newest(a, m) /\ Kept(b, n)
  <2>1. log'[b][n].key = key => key = NoKey
    BY <1>5 DEF Proper, Taken
  <2>2. \A o \in Sales : ~(key = RedeemKey(o) /\ log'[b][n].key = ReversalKey(o))
    BY <1>5, KeysDiffer DEF Proper, Taken
  <2> QED
    BY <1>5, <2>1, <2>2
<1> QED
  BY <1>1, <1>2, <1>3, <1>4, <1>5

\* A step that writes nothing leaves the ledger's own invariants alone.
LEMMA UntouchedKeeps ==
  ASSUME BalanceExplained, RewardsAreSpent, RedeemedAndReturnedOnce, Untouched
  PROVE  BalanceExplained' /\ RewardsAreSpent' /\ RedeemedAndReturnedOnce'
<1>1. BalanceExplained'
  BY DEF Untouched, BalanceExplained, Before
<1>2. RewardsAreSpent'
  BY DEF Untouched, RewardsAreSpent, RedeemKey, ReversalKey
<1>3. RedeemedAndReturnedOnce'
  BY DEF Untouched, RedeemedAndReturnedOnce, RedeemKey, ReversalKey
<1> QED
  BY <1>1, <1>2, <1>3

\* Every step of every handler keeps the inductive invariant.
LEMMA NextIInv == IInv /\ [Next]_vars => IInv'
<1> SUFFICES ASSUME IInv, [Next]_vars PROVE IInv'
  OBVIOUS
<1> USE DEF IInv
<1>1. /\ opened' \subseteq Customers /\ cost' \in Costs
      /\ pay' \in [Orders -> Statuses]
      /\ owner' \in [Orders -> Customers \cup {NoOne}]
      /\ req' \in [Requests -> Read]
      /\ OwnersKnown'
  <2>1. CASE Next
    BY <2>1, StepSlots
  <2>2. CASE UNCHANGED vars
    BY <2>2 DEF vars, TypeOK, OwnersKnown
  <2> QED
    BY <2>1, <2>2
<1>2. CASE Untouched
  <2>1. TypeOK'
    BY <1>1, <1>2 DEF Untouched, TypeOK
  <2> QED
    BY <1>1, <1>2, <2>1, UntouchedKeeps
<1>3. ASSUME NEW c \in Customers, NEW delta \in Int, NEW key \in EntryKeys,
             Wrote(c, delta, key), Proper(c, delta, key)
      PROVE  IInv'
  <2>1. TypeOK'
    BY <1>1, <1>3 DEF Wrote, TypeOK
  <2> QED
    BY <1>1, <1>3, <2>1, WroteKeepsBalance, WroteKeepsRewards, WroteKeepsOnce
<1> QED
  BY <1>2, <1>3, StepWrites

LEMMA SpecIInv == Spec => []IInv
BY InitIInv, NextIInv, PTL DEF Spec

-----------------------------------------------------------------------------
(* The theorems.                                                            *)

\* No sequence of lookups, checkouts, redemptions, returns, corrections and
\* awards drives a balance below zero or a row out of its type.
THEOREM TypeCorrect == Spec => []TypeOK
BY SpecIInv, PTL DEF IInv

\* However many handlers race for a wallet, its balance is what its ledger says:
\* the row's lock and the fresh read under it lose no entry.
THEOREM BalanceIsExplained == Spec => []BalanceExplained
BY SpecIInv, PTL DEF IInv

\* However often a checkout is retried or a sale voided and refunded, its reward
\* is charged at most once, returned at most once, and at the points charged.
THEOREM RewardsOnce == Spec => []RedeemedAndReturnedOnce
BY SpecIInv, PTL DEF IInv

\* The handlers implement the abstract account: one credit or one covered debit
\* of one wallet at a time.
THEOREM WalletsImplementAccounts == Spec => WalletsAreAccounts
<1>1. Init => Account!Init
  BY DEF Init, Account!Init
<1>2. IInv /\ [Next]_vars => [Account!Next]_balance
  <2> SUFFICES ASSUME IInv, [Next]_vars PROVE Account!Next \/ UNCHANGED balance
    OBVIOUS
  <2>1. CASE Untouched
    BY <2>1 DEF Untouched
  <2>2. ASSUME NEW c \in Customers, NEW delta \in Int, NEW key \in EntryKeys,
               Wrote(c, delta, key)
        PROVE  Account!Next
    <3>1. balance[c] \in Nat /\ balance'[c] \in Nat /\ Account!OnlyMoves(c)
      BY <2>2 DEF Wrote, IInv, TypeOK, Account!OnlyMoves
    <3>2. balance'[c] >= balance[c] \/ balance'[c] \in 0 .. balance[c]
      BY <3>1
    <3> QED
      BY <3>1, <3>2 DEF Account!Next, Account!Credit, Account!Debit
  <2> QED
    BY <2>1, <2>2, StepWrites
<1> QED
  BY <1>1, <1>2, SpecIInv, PTL DEF Spec, WalletsAreAccounts, Account!Spec
=============================================================================
