--------------------------- MODULE MCGameSession ---------------------------
(* GameSession for TLC; see the .cfg files. *)
EXTENDS GameSession, TLC

Symmetry == Permutations(Players)
=============================================================================
