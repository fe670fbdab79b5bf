---------------------------- MODULE MCStockLedger ----------------------------
EXTENDS StockLedger, TLC

CONSTANTS r1, r2, c1, c2

\* One dish: half the flour line needs an option, and its cheese can be removed.
FlourLines == {[item |-> "flour", milli |-> 1, option |-> Always, ref |-> Always],
               [item |-> "flour", milli |-> 2, option |-> "large", ref |-> "plain"]}

MCRecipes == {[yields |-> 2, lines |-> FlourLines],
              [yields |-> 1, lines |-> FlourLines]}

MCBaskets == {[portions |-> 1, chosen |-> {"large"}, removed |-> {}],
              [portions |-> 1, chosen |-> {"large"}, removed |-> {"plain"}]}

Symmetry == Permutations(Requests) \cup Permutations(Counts)
=============================================================================
