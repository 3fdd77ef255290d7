----------------------------- MODULE MCGameTurn -----------------------------
(* GameTurn for TLC; see the .cfg files. *)
EXTENDS GameTurn
=============================================================================
