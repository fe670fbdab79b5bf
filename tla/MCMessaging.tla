----------------------------- MODULE MCMessaging -----------------------------
EXTENDS Messaging, TLC

CONSTANTS hi, order, ours, theirs

\* Two messages of one customer, to a shop with a connection of its own.
MCShop == hi :> ours @@ order :> ours

\* Two customers of two shops, one with a connection of its own.
MCShops == hi :> ours @@ order :> theirs

Symmetry == Permutations(Workers)
=============================================================================
