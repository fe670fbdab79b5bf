----------------------------- MODULE MCDialogue -----------------------------
(* A small instance of Dialogue: a dish with a required option and a family *)
(* of one variant.                                                          *)
EXTENDS Dialogue

MCDishes == {"burger", "hot burger"}
MCAnswered == [d \in {"burger"} |-> "hot burger"]
MCVariants == {"jose"}
=============================================================================
