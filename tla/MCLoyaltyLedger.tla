--------------------------- MODULE MCLoyaltyLedger ---------------------------
EXTENDS LoyaltyLedger, TLC

CONSTANTS r1, r2

MCDeltas == {-1, 2}

Symmetry == Permutations(Requests) \cup Permutations(Customers)
=============================================================================
