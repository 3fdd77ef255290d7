------------------------------ MODULE GameTurn ------------------------------
(***************************************************************************)
(* One running game as its game thread sees it: the turn and phase loop    *)
(* (Game::game_loop, Game::run_phase, Game::run_cleanup_phase), the        *)
(* priority round (Game::run_priority_round over PrioritySystem) and the   *)
(* stack (TheStack).                                                       *)
(*                                                                         *)
(* Players are the positions of PrioritySystem::player_order_, which       *)
(* Game::setup_game fills in the order of players_; a stack entry is       *)
(* reduced to its controller.  What a card does is abstract: an effect may *)
(* put triggers on the stack and may leave work for the state-based        *)
(* actions, recorded in unchecked.  Prompts, queues, connections and the   *)
(* clock are the business of module GameSession; here they only show as    *)
(* the ways in which a holder's turn to act can end.                       *)
(***************************************************************************)
EXTENDS Integers, Sequences, FiniteSets

CONSTANTS N,          \* players in the game (Game::max_players is 2)
          MaxStack    \* bound of the model: longest stack explored

ASSUME NAssumption == N \in Nat /\ N >= 2
ASSUME MaxStackAssumption == MaxStack \in Nat

Players == 0 .. N - 1

\* enum class Phase, by number.
Untap == 0
Draw == 2
Main1 == 3
DeclareAttackers == 5
DeclareBlockers == 6
FirstStrikeDamage == 7
CombatDamage == 8
Main2 == 10
EndStep == 11
Cleanup == 12
phase_count == 13

VARIABLES
  pc,                   \* where the game thread is
  running,              \* running_
  alive,                \* players with has_lost_ = false
  active,               \* player_index % players_.size()
  phase,                \* TurnMachine::phase_
  land,                 \* lands_played_ of the active player reached its limit
  current_index,        \* PrioritySystem::current_index_
  consecutive_passes,   \* PrioritySystem::consecutive_passes_
  stack,                \* TheStack::entries_, bottom first
  unchecked             \* what happened since state-based actions last ran

prioVars == <<current_index, consecutive_passes>>
vars == <<pc, running, alive, active, phase, land, prioVars, stack, unchecked>>

-----------------------------------------------------------------------------
(* PrioritySystem *)

Holder == current_index

\* Faulty variant: one pass too few.
AllPassedEarly == consecutive_passes >= N - 1

AllPassed == consecutive_passes >= N

begin_round(p) == /\ current_index' = p
                  /\ consecutive_passes' = 0

\* Faulty variant: the index does not wrap around.
pass_unwrapped == /\ consecutive_passes' = consecutive_passes + 1
                  /\ current_index' = IF consecutive_passes + 1 >= N
                                      THEN current_index
                                      ELSE current_index + 1

pass == /\ consecutive_passes' = consecutive_passes + 1
        /\ current_index' = IF consecutive_passes + 1 >= N
                            THEN current_index
                            ELSE (current_index + 1) % N

\* Faulty variant: the passes made before the spell still count.
interrupt_missing == UNCHANGED prioVars

interrupt == /\ consecutive_passes' = 0
             /\ UNCHANGED current_index

(* TurnMachine *)

is_main_phase == phase \in {Main1, Main2}

phase_needs_priority == phase \notin {Untap, Cleanup}

(* WinConditionChecker::check: nobody, or a single player, is left. *)
GameWon(al) == \A p, q \in al : p = q

-----------------------------------------------------------------------------
(* What effects may do.  Triggers of the active player go on the stack     *)
(* first, so those of the others end above them (fire_triggers).           *)

TriggerBatches == {<<>>} \cup {<<p>> : p \in Players}
                         \cup {<<active, q>> : q \in Players \ {active}}

Fits(s) == Len(s) <= MaxStack

PushTriggers(s) == {t \in {s \o b : b \in TriggerBatches} : Fits(t)}

(* StateBasedActionChecker::check_and_apply until nothing applies: players *)
(* may lose, and creatures may die and fire triggers.                      *)
StateChecks(al, s, u) ==
  [alive : {al \ lost : lost \in IF "player" \in u THEN SUBSET al ELSE {{}}},
   stack : IF "creature" \in u THEN PushTriggers(s) ELSE {s}]

Everything == {"player", "creature"}

(* A resolving entry may counter one below it (counter_spell), and its     *)
(* effect may fire triggers.                                               *)
Pop(s) == SubSeq(s, 1, Len(s) - 1)

Without(s, i) == SubSeq(s, 1, i - 1) \o SubSeq(s, i + 1, Len(s))

Countered(s) == {s} \cup {Without(s, i) : i \in 1 .. Len(s)}

Resolutions(al, s) ==
  UNION {StateChecks(al, t, Everything) :
           t \in UNION {PushTriggers(c) : c \in Countered(Pop(s))}}

-----------------------------------------------------------------------------
Init ==
  /\ pc = "turn"
  /\ running = TRUE
  /\ alive = Players
  /\ active = 0
  /\ phase = Untap
  /\ land = FALSE
  /\ current_index = 0
  /\ consecutive_passes = 0
  /\ stack = <<>>
  /\ unchecked \in {{}, {"player"}}   \* the first hand may exhaust a library

(* The head of game_loop's while: TurnMachine::new_turn, reset_for_turn. *)
StartTurn ==
  /\ pc = "turn"
  /\ running
  /\ phase' = Untap
  /\ land' = FALSE
  /\ pc' = "phase"
  /\ UNCHANGED <<running, alive, active, prioVars, stack, unchecked>>

(* The prompts of the combat phases.  A player who is disconnected and does *)
(* not come back in time loses (wait_for_connected_player), and so does one *)
(* for whom Game::stop interrupts the wait.                                 *)
asks_attacker == phase \in {DeclareAttackers, FirstStrikeDamage, CombatDamage}

Absentees ==
  {{}} \cup (IF asks_attacker THEN {{active}} ELSE {})
       \cup (IF phase = DeclareBlockers
              THEN {{p} : p \in Players}
                   \cup {{p, active} : p \in {q \in Players : ~GameWon(alive \ {q})}}
              ELSE {})

RunningWithout(gone) ==
  IF gone = {} THEN {running} ELSE {FALSE, running /\ ~GameWon(alive \ gone)}

(* What run_phase does before its priority round, gone having failed to     *)
(* answer.                                                                  *)
PhaseWork(gone) ==
  /\ running' \in RunningWithout(gone)
  /\ \/ /\ phase \in {Untap, DeclareBlockers}
        /\ alive' = alive \ gone
        /\ UNCHANGED <<stack, unchecked>>
     \/ /\ phase \in {FirstStrikeDamage, CombatDamage}
        /\ \E t \in PushTriggers(stack) :
              \E c \in StateChecks(alive \ gone, t, Everything) :
                 alive' = c.alive /\ stack' = c.stack
        /\ unchecked' = {}
     \/ /\ phase \notin {Untap, DeclareBlockers, FirstStrikeDamage, CombatDamage}
        /\ alive' = alive \ gone
        /\ stack' \in IF gone = {} THEN PushTriggers(stack) ELSE {stack}
        /\ unchecked' = IF phase = EndStep THEN Everything
                        ELSE IF phase = Draw THEN unchecked \cup {"player"}
                        ELSE unchecked

EnterPhase ==
  /\ pc = "phase"
  /\ running
  /\ phase # Cleanup
  /\ \E gone \in Absentees : PhaseWork(gone)
  /\ IF phase_needs_priority
       THEN pc' = "inner" /\ begin_round(active)
       ELSE pc' = "end" /\ UNCHANGED prioVars
  /\ UNCHANGED <<active, phase, land>>

\* Faulty variant: cleanup without its repeated priority round.
CleanupStepOnce ==
  /\ pc = "phase" /\ running /\ phase = Cleanup
  /\ \E c \in StateChecks(alive, stack, Everything) :
        /\ alive' = c.alive
        /\ stack' = c.stack
  /\ unchecked' = {}
  /\ pc' = "end"
  /\ UNCHANGED <<running, active, phase, land, prioVars>>

(* One turn of run_cleanup_phase's loop; a non-empty stack asks for a      *)
(* priority round and another turn.                                        *)
CleanupStep ==
  /\ \/ pc = "phase" /\ running /\ phase = Cleanup
     \/ pc = "cleanup"
  /\ \E c \in StateChecks(alive, stack, Everything) :
        /\ alive' = c.alive
        /\ stack' = c.stack
  /\ unchecked' = {}
  /\ IF stack' # <<>>
       THEN pc' = "inner" /\ begin_round(active)
       ELSE pc' = "end" /\ UNCHANGED prioVars
  /\ UNCHANGED <<running, active, phase, land>>

-----------------------------------------------------------------------------
(* run_priority_round: the inner loop, one action per way its body ends *)

\* Faulty variant: the inner loop does not test running_.
HolderMayActStopped == pc = "inner" /\ ~AllPassed

HolderMayAct == pc = "inner" /\ running /\ ~AllPassed

(* UntilEndOfTurn, or NoActions with nothing to do: pass and continue, with *)
(* no state-based actions and no resolution in between.                     *)
AutoPass ==
  /\ HolderMayAct
  /\ pass
  /\ UNCHANGED <<pc, running, alive, active, phase, land, stack, unchecked>>

(* check_state_based_actions after the holder's action, from stack s. *)
CheckAfter(s) ==
  /\ \E c \in StateChecks(alive, s, unchecked) :
        /\ alive' = c.alive
        /\ stack' = c.stack
  /\ unchecked' = {}

(* resolve_top, resolve_stack_entry, state-based actions, begin_round.      *)
ResolveTop(al, s) ==
  /\ \E r \in Resolutions(al, s) :
        /\ alive' = r.alive
        /\ stack' = r.stack
  /\ unchecked' = {}
  /\ begin_round(active)

(* No answer in time, "pass" or "shutdown": a pass, then the state check,   *)
(* and after the last pass the top of a non-empty stack resolves.           *)
PassPriority ==
  /\ HolderMayAct
  /\ UNCHANGED <<pc, running, active, phase, land>>
  /\ \E c \in StateChecks(alive, stack, unchecked) :
       \/ /\ consecutive_passes + 1 >= N
          /\ c.stack # <<>>
          /\ ResolveTop(c.alive, c.stack)
       \/ /\ consecutive_passes + 1 < N \/ c.stack = <<>>
          /\ pass
          /\ alive' = c.alive
          /\ stack' = c.stack
          /\ unchecked' = {}

(* play_card, its flashback and adventure forms, and abilities that use the *)
(* stack: push, interrupt.                                                  *)
CastSpell ==
  /\ HolderMayAct
  /\ Fits(Append(stack, Holder))
  /\ interrupt
  /\ CheckAfter(Append(stack, Holder))
  /\ UNCHANGED <<pc, running, active, phase, land>>

(* play_land does not interrupt; its landfall triggers go on the stack.     *)
PlayLand ==
  /\ HolderMayAct
  /\ Holder = active
  /\ is_main_phase
  /\ stack = <<>>
  /\ ~land
  /\ land' = TRUE
  /\ \E t \in PushTriggers(stack) : CheckAfter(t)
  /\ UNCHANGED <<pc, running, active, phase, prioVars>>

(* Mana abilities (they add mana), undo, sideboard_swap, set_auto_pass,     *)
(* draw offers and answers, and every action process_action rejects: the    *)
(* holder keeps priority.  Accepting a draw ends the game.                  *)
OtherAction ==
  /\ HolderMayAct
  /\ running' \in {TRUE, FALSE}
  /\ CheckAfter(stack)
  /\ UNCHANGED <<pc, active, phase, land, prioVars>>

(* The holder's confirmed or forced concession, followed like any action by *)
(* the state check.                                                         *)
HolderConcedes ==
  /\ HolderMayAct
  /\ running' = (running /\ ~GameWon(alive \ {Holder}))
  /\ \E c \in StateChecks(alive \ {Holder}, stack, unchecked) :
        /\ alive' = c.alive
        /\ stack' = c.stack
  /\ unchecked' = {}
  /\ UNCHANGED <<pc, active, phase, land, prioVars>>

(* A confirmation found while polling the queues: no state check follows.   *)
PolledConcession ==
  /\ HolderMayAct
  /\ \E p \in Players :
        /\ alive' = alive \ {p}
        /\ running' = ~GameWon(alive \ {p})
  /\ UNCHANGED <<pc, active, phase, land, prioVars, stack, unchecked>>

(* wait_for_connected_player returns false, or the holder's clock ran out:  *)
(* the holder loses the game if it had not yet, and the inner loop breaks.  *)
(* A holder who had lost before is not checked for a win again.             *)
HolderGone ==
  /\ HolderMayAct
  /\ alive' = alive \ {Holder}
  /\ running' \in {FALSE, (Holder \in alive => ~GameWon(alive \ {Holder}))}
  /\ pc' = "outer"
  /\ UNCHANGED <<active, phase, land, prioVars, stack, unchecked>>

RoundOver ==
  /\ pc = "inner"
  /\ ~running \/ AllPassed
  /\ pc' = "outer"
  /\ UNCHANGED <<running, alive, active, phase, land, prioVars, stack, unchecked>>

(* The block after the inner loop. *)
EndRound ==
  /\ pc = "outer"
  /\ ~running \/ stack = <<>>
  /\ pc' = IF phase = Cleanup THEN "cleanup" ELSE "end"
  /\ UNCHANGED <<running, alive, active, phase, land, prioVars, stack, unchecked>>

ResolveOuter ==
  /\ pc = "outer"
  /\ running
  /\ stack # <<>>
  /\ ResolveTop(alive, stack)
  /\ pc' = "inner"
  /\ UNCHANGED <<running, active, phase, land>>

-----------------------------------------------------------------------------
(* The state check that ends run_phase, game_loop's win check, next phase. *)
EndPhase ==
  /\ pc = "end"
  /\ CheckAfter(stack)
  /\ IF GameWon(alive')
       THEN /\ running' = FALSE
            /\ pc' = "over"
            /\ UNCHANGED <<phase, active>>
       ELSE /\ UNCHANGED running
            /\ IF phase + 1 < phase_count
                 THEN phase' = phase + 1 /\ pc' = "phase" /\ UNCHANGED active
                 ELSE /\ active' = (active + 1) % N
                      /\ pc' = "turn"
                      /\ UNCHANGED phase
  /\ UNCHANGED <<land, prioVars>>

(* Both loops of game_loop test running_ before each turn of theirs. *)
LeaveLoop ==
  /\ pc \in {"turn", "phase"}
  /\ ~running
  /\ pc' = "over"
  /\ UNCHANGED <<running, alive, active, phase, land, prioVars, stack, unchecked>>

(* Another thread's Game::stop, or a draw agreed on while polling.          *)
StopGame ==
  /\ running
  /\ running' = FALSE
  /\ UNCHANGED <<pc, alive, active, phase, land, prioVars, stack, unchecked>>

PriorityStep ==
  \/ AutoPass \/ PassPriority \/ CastSpell \/ PlayLand \/ OtherAction
  \/ HolderConcedes \/ PolledConcession \/ HolderGone
  \/ RoundOver \/ EndRound \/ ResolveOuter

ThreadStep ==
  StartTurn \/ EnterPhase \/ CleanupStep \/ PriorityStep \/ EndPhase \/ LeaveLoop

(* The game thread has returned from game_loop. *)
ThreadDone == pc = "over" /\ UNCHANGED vars

Next == ThreadStep \/ StopGame \/ ThreadDone

(* The game thread is always scheduled: each of its waits has a timeout. *)
Spec == Init /\ [][Next]_vars /\ WF_vars(ThreadStep)

-----------------------------------------------------------------------------
TypeOK ==
  /\ pc \in {"turn", "phase", "cleanup", "inner", "outer", "end", "over"}
  /\ running \in BOOLEAN
  /\ alive \in SUBSET Players
  /\ active \in Players
  /\ phase \in 0 .. phase_count - 1
  /\ land \in BOOLEAN
  /\ current_index \in Players
  /\ consecutive_passes \in 0 .. N
  /\ stack \in Seq(Players)
  /\ unchecked \in SUBSET Everything

(* No spell or trigger survives the phase it was put on the stack in: a     *)
(* running game enters a turn, and every phase but cleanup, with an empty   *)
(* stack (what triggers at the very end of the end step is left to the      *)
(* priority round inside run_cleanup_phase).                                *)
NothingLeftOnStack ==
  running => /\ pc = "turn" => stack = <<>>
             /\ pc = "phase" /\ phase # Cleanup => stack = <<>>

(* While the stack is empty priority goes round from the active player: the *)
(* holder is as many seats from him as there were passes.                   *)
HolderInTurnOrder ==
  pc = "inner" /\ stack = <<>> /\ ~AllPassed =>
    Holder = (active + consecutive_passes) % N

(* A game decided by the end of a phase gets no further phase or turn.      *)
DecidedGameStops == pc \in {"turn", "phase"} => ~GameWon(alive)

(* Whatever goes on the stack during a round can be responded to by every   *)
(* player: no pass made before it counts towards its resolution.  (In the   *)
(* end step the state check that follows the first pass is the first since  *)
(* the delayed triggers ran, and may put triggers on the stack after it.)   *)
EveryoneMayRespond ==
  [][pc = "inner" /\ phase # EndStep /\ Len(stack') > Len(stack)
       => consecutive_passes' = 0]_vars

(* Phases and turns begin with everything settled that came before them.    *)
PhasesBeginSettled == NothingLeftOnStack /\ DecidedGameStops

(* Priority goes round in turn order, and round again for what is new.      *)
PriorityGoesRound == []HolderInTurnOrder /\ EveryoneMayRespond

(* The inductive invariant behind these: creatures that may be due to die   *)
(* are only ever left over in the end step, a running game ends its phases  *)
(* with an empty stack, and leaves the inner loop when all have passed or   *)
(* the holder is out of the game.                                           *)
LateChecks ==
  "creature" \in unchecked => phase = EndStep /\ pc \in {"inner", "outer", "end"}

EmptyAtEnd == running /\ pc = "end" => stack = <<>>

OuterReason == running /\ pc = "outer" => AllPassed \/ Holder \notin alive

IInv == /\ TypeOK
        /\ OuterReason
        /\ LateChecks
        /\ EmptyAtEnd
        /\ NothingLeftOnStack
        /\ HolderInTurnOrder
        /\ DecidedGameStops

(* Who has passed since priority was last reset: the seats before the       *)
(* holder's, as many as there were passes.                                  *)
Seat(k) == IF k <= current_index THEN current_index - k
                                 ELSE current_index + N - k

Passed == IF AllPassed THEN Players
                       ELSE {Seat(k) : k \in 1 .. consecutive_passes}

(* The counter and the index of PrioritySystem implement the rule that only *)
(* a full round of passes resolves an entry.                                *)
Rule == INSTANCE PriorityRule WITH passed <- Passed,
                                   forfeit <- Holder \notin alive

RuleSpec == Rule!Spec

(* Once running_ is false the game thread returns, so that Game::stop can   *)
(* join it, unless this finds the cleanup phase with a non-empty stack:     *)
(* there run_cleanup_phase repeats for a priority round that returns at     *)
(* once.                                                                    *)
CleanupSpin == phase = Cleanup /\ stack # <<>>

StoppedGameEnds == ~running ~> (pc = "over" \/ CleanupSpin)

=============================================================================
