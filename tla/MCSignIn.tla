------------------------------ MODULE MCSignIn ------------------------------
(* Two users are interchangeable. *)
EXTENDS SignIn, TLC

CONSTANTS ann, bob

Users == {ann, bob}
Symmetry == Permutations(Users)
=============================================================================
