-------------------------- MODULE MCOrderLifecycle --------------------------
(* OrderLifecycle on small instances: model values for orders and slots.     *)
EXTENDS OrderLifecycle, TLC

Symmetry == Permutations(Orders) \cup Permutations(Api)
=============================================================================
