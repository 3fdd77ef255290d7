------------------------------ MODULE MCCombat ------------------------------
(* Two creatures of P against two of Q.  a1 strikes twice and tramples, a2 *)
(* has vigilance, b1 has deathtouch and lifelink, b2 strikes first and is  *)
(* protected from a2.                                                      *)
EXTENDS Combat

CONSTANTS P, Q, a1, a2, b1, b2

MCSeats == <<P, Q>>
MCController == a1 :> P @@ a2 :> P @@ b1 :> Q @@ b2 :> Q
MCPower == a1 :> 2 @@ a2 :> 1 @@ b1 :> 1 @@ b2 :> 1
MCToughness == a1 :> 2 @@ a2 :> 1 @@ b1 :> 1 @@ b2 :> 2
MCPrinted == a1 :> {"Double Strike", "Trample"} @@ a2 :> {"Vigilance"}
             @@ b1 :> {"Deathtouch", "Lifelink"} @@ b2 :> {"First Strike"}
MCProtected == {<<a2, b2>>}
=============================================================================
