---------------------------- MODULE PointsAccount ----------------------------
(***************************************************************************)
(* What a loyalty wallet promises: its balance moves by one credit or one  *)
(* debit at a time, a debit never takes more than is there, and two        *)
(* wallets never move in one step.                                         *)
(***************************************************************************)
EXTENDS Naturals

CONSTANT Customers

VARIABLE balance

Init == balance = [c \in Customers |-> 0]

\* No other wallet moves.
OnlyMoves(c) == balance' = [balance EXCEPT ![c] = balance'[c]]

Credit(c) == OnlyMoves(c) /\ balance'[c] \in Nat /\ balance'[c] >= balance[c]

Debit(c) == OnlyMoves(c) /\ balance'[c] \in 0 .. balance[c]

Next == \E c \in Customers : Credit(c) \/ Debit(c)

Spec == Init /\ [][Next]_balance
=============================================================================
