--------------------------- MODULE MCRecordsPage ----------------------------
(* Instances of RecordsPage for TLC: model values and their symmetry.      *)
EXTENDS RecordsPage, TLC

Symmetry == Permutations(Course) \cup Permutations(Number) \cup Permutations(Slot)
=============================================================================
