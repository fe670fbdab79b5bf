------------------------- MODULE MCWhatsAppConnect -------------------------
EXTENDS WhatsAppConnect, TLC

CONSTANTS cafe, grill, mine, shared, given, firm, other

\* The two share one account with one number; each has a number or an account of its own.
MCCanSee == cafe :> {mine, shared, firm} @@ grill :> {shared, firm, other}

Symmetry == Permutations(Requests)
=============================================================================
