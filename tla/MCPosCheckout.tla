---- MODULE MCPosCheckout ----
(* Small instances of PosCheckout for TLC. *)
EXTENDS PosCheckout, TLC

Pays(cash, card, times) == [cash |-> cash, card |-> card, links |-> [i \in Intents |-> times]]

\* Cash alone, and cash with every link.
CashAndLink == {Pays(1, 0, 0), Pays(1, 0, 1)}

\* Cash with one link, and every link together.
CashOneLinkOrAll ==
  {[Pays(1, 0, 0) EXCEPT !.links[CHOOSE i \in Intents : TRUE] = 1], Pays(0, 0, 1)}

Symmetry == Permutations(Api) \cup Permutations(Sales)
====
