---------------------------- MODULE MCClientView ----------------------------
(* A land and a creature in hand, a card to be drawn, a land in the          *)
(* opponent's library and a token to come.                                   *)
EXTENDS ClientView

Owners == [creature |-> "me", land |-> "me", next |-> "me",
           foe |-> "opponent", token |-> "opponent"]
Kinds == [creature |-> "creature", land |-> "land", next |-> "instant",
          foe |-> "land", token |-> "token"]
Hand == {"creature", "land"}
Lives == [p \in {"me", "opponent"} |-> 2]
=============================================================================
