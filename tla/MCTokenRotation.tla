-------------------------- MODULE MCTokenRotation ---------------------------
(* Instances of TokenRotation for TLC: model values and their symmetry.    *)
EXTENDS TokenRotation, TLC

Symmetry == Permutations(Instance) \cup Permutations(Session)
=============================================================================
