--------------------------------- MODULE MCMana ---------------------------------
(* Four cards with the costs the code treats specially, three lands and a    *)
(* creature that makes mana.                                                *)
EXTENDS Mana

CONSTANTS swap, grave, kick, tale, plains, island, swamp, elf

MCCards == {swap, grave, kick, tale}
MCLandCards == {plains, island, swamp}
MCFielded == {elf}
MCProduces == plains :> "W" @@ island :> "U" @@ swamp :> "B" @@ elf :> "G"

Cost(w, u, gen) == [NoCost EXCEPT !.col["W"] = w, !.col["U"] = u, !.gen = gen]
Plain == [cost |-> NoCost, kicker |-> None, flashback |-> None, adventure |-> None,
          instant |-> FALSE, creature |-> FALSE, convoke |-> FALSE, delve |-> FALSE]

MCAbility == elf :> Cost(0, 0, 1)
MCDye == elf :> {"G", "W"} @@ swap :> {"W"} @@ grave :> {"U"} @@ kick :> {} @@ tale :> {"U"}

\* An instant of two hybrid symbols; a creature with Delve and Convoke; a sorcery
\* with X, kicker and flashback; an instant with an adventure.
MCFace ==
  swap :> [Plain EXCEPT !.instant = TRUE,
                        !.cost = [NoCost EXCEPT !.hyb = <<<<"W", "U">>, <<"W", "B">>>>]]
  @@ grave :> [Plain EXCEPT !.cost = Cost(1, 0, 2), !.creature = TRUE,
                            !.convoke = TRUE, !.delve = TRUE]
  @@ kick :> [Plain EXCEPT !.cost = [Cost(0, 0, 0) EXCEPT !.x = 1, !.hyb = <<<<"C", "U">>>>],
                           !.kicker = Cost(1, 0, 0), !.flashback = Cost(0, 0, 1)]
  @@ tale :> [Plain EXCEPT !.cost = Cost(0, 1, 1), !.instant = TRUE, !.adventure = Cost(0, 0, 1)]
================================================================================
