----------------------------- MODULE MCSession ------------------------------
(* Instances of SessionRows for TLC. *)
EXTENDS SessionRows

SlotSymmetry == Permutations(Slot)
=============================================================================
