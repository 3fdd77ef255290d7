------------------------------ MODULE MCBoard ------------------------------
EXTENDS Board
CONSTANTS A, B, bear, veil, ring, bolt, t1

MCOwner == bear :> A @@ bolt :> A @@ veil :> B @@ ring :> B
MCKind == bear :> "creature" @@ veil :> "aura" @@ ring :> "equipment" @@ bolt :> "sorcery"
MCLegend == bear :> None @@ veil :> "L" @@ ring :> "L" @@ bolt :> None
MCTriggers == bear :> {"dies", "enters", "another_dies"} @@ veil :> {} @@ ring :> {"ability"}
                @@ bolt :> {}
=============================================================================
