---------------------------- MODULE PriorityRule ----------------------------
(***************************************************************************)
(* What a priority round promises, without the counter and the index that  *)
(* PrioritySystem keeps: an entry leaves the stack only after every player *)
(* has passed since priority was last reset, or when the player to act has *)
(* lost the game.                                                          *)
(***************************************************************************)
EXTENDS Naturals, Sequences

CONSTANT Players

VARIABLES stack,     \* entries waiting to resolve, bottom first
          passed,    \* players who passed since priority was last reset
          forfeit    \* the player to act has lost the game

Init == stack = <<>> /\ passed = {} /\ forfeit = FALSE

\* Nothing leaves the stack.
Kept == /\ Len(stack') >= Len(stack)
        /\ SubSeq(stack', 1, Len(stack)) = stack

\* The player to act passes; triggers may go on the stack.
Pass == /\ \E p \in Players \ passed : passed' = passed \cup {p}
        /\ Kept

\* A spell is cast, or a new round begins.
Reset == passed' = {} /\ Kept

\* Anything else that happens during a round.
Quiet == passed' = passed /\ Kept

\* The top entry resolves, perhaps with the last pass, and may counter others.
Resolve == /\ \/ \E p \in Players : passed \cup {p} = Players
              \/ forfeit
           /\ passed' = {}

Next == Pass \/ Reset \/ Quiet \/ Resolve

Spec == Init /\ [][Next]_<<stack, passed, forfeit>>
=============================================================================
