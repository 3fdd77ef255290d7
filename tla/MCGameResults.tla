----------------------------- MODULE MCGameResults -----------------------------
(* Two games of the same players; nobody is connected to the second one, so *)
(* that only the reaper brings its result.                                  *)
EXTENDS GameResults

CONSTANTS g1, g2, s1, s2

MCGames == {g1, g2}
MCStreams == {s1, s2}
MCGameOf == [s \in MCStreams |-> g1]
MCSeated == [g \in MCGames |-> <<1, 2>>]
================================================================================
