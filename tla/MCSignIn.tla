------------------------------ MODULE MCSignIn ------------------------------
(* Instances of SignIn for TLC: model values and their symmetry.           *)
EXTENDS SignIn, TLC

Symmetry ==
    Permutations(Identity) \cup Permutations(Callback)
        \cup Permutations(Command) \cup Permutations(Post)
=============================================================================
