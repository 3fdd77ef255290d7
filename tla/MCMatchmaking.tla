--------------------------- MODULE MCMatchmaking ---------------------------
(* Three players, the third rated too high for a match at once. *)
EXTENDS Matchmaking

CONSTANTS ann, bob, cay

ratings == [p \in Players |-> IF p = cay THEN 3 ELSE 1]
=============================================================================
