----------------------------- MODULE MCTimeline -----------------------------
(* Instances of Timeline for TLC. *)
EXTENDS Timeline

(* The database holds the oldest n tweets at launch. *)
ThreeLoaded == {{t \in Tweet : t <= 3}}
FourLoaded == {{t \in Tweet : t <= 4}}
Empty == {{}}

SlotSymmetry == Permutations(Slot)
=============================================================================
