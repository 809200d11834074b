----------------------------- MODULE MCService ------------------------------
(* Instances of Service for TLC: model values and their symmetry.          *)
EXTENDS Service, TLC

Symmetry == Permutations(Request) \cup Permutations(Migrator)
=============================================================================
