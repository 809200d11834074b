---------------------------- MODULE MCAdminPage -----------------------------
(* Instances of AdminPage for TLC: model values and their symmetry.        *)
EXTENDS AdminPage, TLC

Symmetry == Permutations(Session) \cup Permutations(Slot)
=============================================================================
