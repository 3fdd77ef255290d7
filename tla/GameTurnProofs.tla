--------------------------- MODULE GameTurnProofs ---------------------------
(***************************************************************************)
(* Proofs about GameTurn for every number of players and every stack: type *)
(* correctness, the invariants and the action property that its runs       *)
(* check, and that it implements PriorityRule.                             *)
(***************************************************************************)
EXTENDS GameTurn, TLAPS, SequenceTheorems

-----------------------------------------------------------------------------
(* Operators of the model *)

LEMMA NextSeat ==
  ASSUME NEW i \in Players
  PROVE  (i + 1) % N = IF i + 1 = N THEN 0 ELSE i + 1
BY NAssumption, SMT DEF Players

LEMMA ShortSequences ==
  ASSUME NEW S, NEW p \in S, NEW q \in S
  PROVE  <<p>> \in Seq(S) /\ <<p, q>> \in Seq(S)
OBVIOUS

LEMMA BatchesAreSequences ==
  ASSUME active \in Players
  PROVE  \A b \in TriggerBatches : b \in Seq(Players)
<1>1. SUFFICES ASSUME NEW b \in TriggerBatches
               PROVE  b \in Seq(Players)
  OBVIOUS
<1>2. CASE b = <<>>
  BY <1>2, EmptySeq
<1>3. CASE \E p \in Players : b = <<p>>
  BY <1>3, ShortSequences
<1>4. CASE \E q \in Players : b = <<active, q>>
  BY <1>4, ShortSequences
<1>. QED
  BY <1>1, <1>2, <1>3, <1>4 DEF TriggerBatches

(* t is s with nothing removed and perhaps entries on top. *)
OnTop(s, t) == Len(t) >= Len(s) /\ SubSeq(t, 1, Len(s)) = s

(* Putting triggers on the stack keeps what is on it. *)
LEMMA PushKeeps ==
  ASSUME active \in Players, NEW s \in Seq(Players), NEW t \in PushTriggers(s)
  PROVE  t \in Seq(Players) /\ OnTop(s, t)
<1>. USE DEF OnTop
<1>1. PICK b \in TriggerBatches : t = s \o b
  BY DEF PushTriggers
<1>2. b \in Seq(Players)
  BY <1>1, BatchesAreSequences
<1>3. t \in Seq(Players) /\ Len(t) >= Len(s)
  BY <1>1, <1>2, ConcatProperties, LenProperties
<1>4. CASE s = <<>>
  BY <1>1, <1>2, <1>3, <1>4, SubSeqEmpty
<1>5. CASE s # <<>>
  <2>1. Len(s) \in 1 .. Len(s)
    BY <1>5, EmptySeq, LenProperties
  <2>. QED
    BY <1>1, <1>2, <1>3, <2>1, SubSeqOfConcat1, SubSeqFull
<1>. QED
  BY <1>3, <1>4, <1>5

LEMMA OnTopReflexive ==
  ASSUME NEW S, NEW s \in Seq(S)
  PROVE  OnTop(s, s)
BY SubSeqFull, LenProperties DEF OnTop

LEMMA OnTopTransitive ==
  ASSUME NEW S, NEW r \in Seq(S), NEW s \in Seq(S), NEW t \in Seq(S),
         OnTop(r, s), OnTop(s, t)
  PROVE  OnTop(r, t)
<1>. USE DEF OnTop
<1>1. \A i \in 1 .. Len(s) : s[i] = t[i]
  <2>1. \A i \in 1 .. Len(s) : SubSeq(t, 1, Len(s))[i] = t[i]
    BY SubSeqProperties, LenProperties
  <2>. QED
    BY <2>1
<1>2. \A i \in 1 .. Len(r) : r[i] = s[i]
  <2>1. \A i \in 1 .. Len(r) : SubSeq(s, 1, Len(r))[i] = s[i]
    BY SubSeqProperties, LenProperties
  <2>. QED
    BY <2>1
<1>3. /\ SubSeq(t, 1, Len(r)) \in Seq(S)
      /\ Len(SubSeq(t, 1, Len(r))) = Len(r)
      /\ \A i \in 1 .. Len(r) : SubSeq(t, 1, Len(r))[i] = t[i]
  BY SubSeqProperties, LenProperties
<1>4. SubSeq(t, 1, Len(r)) = r
  BY <1>1, <1>2, <1>3, SeqEqual, LenProperties
<1>. QED
  BY <1>4, LenProperties

LEMMA StateChecksType ==
  ASSUME active \in Players, NEW al \in SUBSET Players, NEW s \in Seq(Players),
         NEW u, NEW c \in StateChecks(al, s, u)
  PROVE  /\ c.alive \in SUBSET Players
         /\ c.alive \subseteq al
         /\ c.stack \in Seq(Players)
         /\ OnTop(s, c.stack)
<1>1. /\ c.alive \in {al \ lost : lost \in IF "player" \in u THEN SUBSET al ELSE {{}}}
      /\ c.stack \in IF "creature" \in u THEN PushTriggers(s) ELSE {s}
  BY DEF StateChecks
<1>2. c.alive \subseteq al
  BY <1>1
<1>3. CASE "creature" \in u
  BY <1>1, <1>2, <1>3, PushKeeps
<1>4. CASE "creature" \notin u
  BY <1>1, <1>2, <1>4, OnTopReflexive
<1>. QED
  BY <1>3, <1>4

LEMMA StateChecksQuiet ==
  ASSUME NEW al, NEW s, NEW u, "creature" \notin u, NEW c \in StateChecks(al, s, u)
  PROVE  c.stack = s
BY DEF StateChecks

LEMMA PopType ==
  ASSUME NEW s \in Seq(Players), s # <<>>
  PROVE  Pop(s) \in Seq(Players)
BY SubSeqProperties, EmptySeq DEF Pop

LEMMA CounteredType ==
  ASSUME NEW s \in Seq(Players), NEW t \in Countered(s)
  PROVE  t \in Seq(Players)
<1>1. CASE t = s
  BY <1>1
<1>2. ASSUME NEW i \in 1 .. Len(s), t = Without(s, i)
      PROVE  t \in Seq(Players)
  <2>1. /\ SubSeq(s, 1, i - 1) \in Seq(Players)
        /\ SubSeq(s, i + 1, Len(s)) \in Seq(Players)
    BY SubSeqProperties, LenProperties
  <2>. QED
    BY <1>2, <2>1, ConcatProperties DEF Without
<1>. QED
  BY <1>1, <1>2 DEF Countered

LEMMA ResolutionsType ==
  ASSUME active \in Players, NEW al \in SUBSET Players,
         NEW s \in Seq(Players), s # <<>>, NEW r \in Resolutions(al, s)
  PROVE  /\ r.alive \in SUBSET Players
         /\ r.stack \in Seq(Players)
<1>1. PICK c \in Countered(Pop(s)) :
         \E t \in PushTriggers(c) : r \in StateChecks(al, t, Everything)
  BY DEF Resolutions
<1>. PICK t \in PushTriggers(c) : r \in StateChecks(al, t, Everything)
  BY <1>1
<1>2. t \in Seq(Players)
  BY <1>1, PopType, CounteredType, PushKeeps
<1>. QED
  BY <1>1, <1>2, StateChecksType
(* What the pieces that actions share do to the state. *)
LEMMA PassType ==
  ASSUME TypeOK, ~AllPassed, pass
  PROVE  current_index' \in Players /\ consecutive_passes' \in 0 .. N
<1>1. (current_index + 1) % N \in Players
  BY NAssumption, NextSeat DEF TypeOK, Players
<1>. QED
  BY <1>1, NAssumption DEF TypeOK, pass, AllPassed

LEMMA CheckAfterType ==
  ASSUME TypeOK, NEW s \in Seq(Players), CheckAfter(s)
  PROVE  /\ alive' \in SUBSET Players
         /\ alive' \subseteq alive
         /\ stack' \in Seq(Players)
         /\ OnTop(s, stack')
         /\ "creature" \notin unchecked => stack' = s
         /\ unchecked' = {}
<1>1. active \in Players /\ alive \in SUBSET Players
  BY DEF TypeOK
<1>2. PICK c \in StateChecks(alive, s, unchecked) :
         alive' = c.alive /\ stack' = c.stack
  BY DEF CheckAfter
<1>3. unchecked' = {}
  BY DEF CheckAfter
<1>. QED
  BY <1>1, <1>2, <1>3, StateChecksType, StateChecksQuiet

LEMMA ResolveTopType ==
  ASSUME TypeOK, NEW al \in SUBSET Players, NEW s \in Seq(Players), s # <<>>,
         ResolveTop(al, s)
  PROVE  /\ alive' \in SUBSET Players
         /\ stack' \in Seq(Players)
         /\ unchecked' = {}
         /\ current_index' = active
         /\ consecutive_passes' = 0
BY ResolutionsType DEF ResolveTop, TypeOK, begin_round

LEMMA PhaseWorkType ==
  ASSUME TypeOK, NEW gone, PhaseWork(gone)
  PROVE  /\ running' \in BOOLEAN
         /\ alive' \in SUBSET Players
         /\ stack' \in Seq(Players)
         /\ OnTop(stack, stack')
         /\ unchecked' \in SUBSET Everything
         /\ phase = Untap => stack' = stack
         /\ "creature" \in unchecked' => "creature" \in unchecked \/ phase = EndStep
<1>1. /\ active \in Players
      /\ alive \in SUBSET Players
      /\ alive \ gone \in SUBSET Players
      /\ stack \in Seq(Players)
      /\ unchecked \in SUBSET Everything
  BY DEF TypeOK
<1>2. running' \in BOOLEAN
  BY DEF PhaseWork, RunningWithout, TypeOK
<1>3. CASE alive' = alive \ gone /\ UNCHANGED <<stack, unchecked>>
  BY <1>1, <1>2, <1>3, OnTopReflexive
<1>4. ASSUME phase \in {FirstStrikeDamage, CombatDamage},
             NEW t \in PushTriggers(stack), NEW c \in StateChecks(alive \ gone, t, Everything),
             alive' = c.alive, stack' = c.stack, unchecked' = {}
      PROVE  /\ alive' \in SUBSET Players
             /\ stack' \in Seq(Players)
             /\ OnTop(stack, stack')
             /\ phase # Untap
  <2>1. t \in Seq(Players) /\ OnTop(stack, t)
    BY <1>1, PushKeeps
  <2>2. /\ c.alive \in SUBSET Players
        /\ c.stack \in Seq(Players)
        /\ OnTop(t, c.stack)
    BY <1>1, <2>1, StateChecksType
  <2>3. OnTop(stack, c.stack)
    BY <1>1, <2>1, <2>2, OnTopTransitive
  <2>. QED
    BY <1>4, <2>2, <2>3 DEF Untap, FirstStrikeDamage, CombatDamage
<1>5. CASE /\ phase \notin {Untap, DeclareBlockers, FirstStrikeDamage, CombatDamage}
           /\ alive' = alive \ gone
           /\ stack' \in IF gone = {} THEN PushTriggers(stack) ELSE {stack}
           /\ unchecked' = IF phase = EndStep THEN Everything
                           ELSE IF phase = Draw THEN unchecked \cup {"player"}
                           ELSE unchecked
  <2>1. /\ stack' \in Seq(Players)
        /\ OnTop(stack, stack')
    BY <1>1, <1>5, PushKeeps, OnTopReflexive
  <2>2. unchecked' \in SUBSET Everything
    BY <1>1, <1>5 DEF Everything
  <2>3. "creature" \in unchecked' => "creature" \in unchecked \/ phase = EndStep
    BY <1>5
  <2>. QED
    BY <1>1, <1>2, <1>5, <2>1, <2>2, <2>3
<1>. QED
  BY <1>2, <1>3, <1>4, <1>5 DEF PhaseWork
-----------------------------------------------------------------------------
(* Type correctness *)

LEMMA InRange ==
  /\ 0 \in Players
  /\ 0 \in 0 .. N
  /\ Untap \in 0 .. phase_count - 1
  /\ \A p \in 0 .. phase_count - 1 :
        p + 1 < phase_count => p + 1 \in 0 .. phase_count - 1
BY NAssumption DEF Players, Untap, phase_count

LEMMA TypeInit == Init => TypeOK
BY InRange, EmptySeq, Zenon DEF Init, TypeOK, Everything

LEMMA TypePriorityStep ==
  ASSUME TypeOK, PriorityStep
  PROVE  TypeOK'
<1>. USE DEF TypeOK
<1>1. CASE AutoPass
  BY <1>1, PassType DEF AutoPass, HolderMayAct
<1>2. CASE PassPriority
  <2>1. PICK c \in StateChecks(alive, stack, unchecked) :
           \/ c.stack # <<>> /\ ResolveTop(c.alive, c.stack)
           \/ pass /\ alive' = c.alive /\ stack' = c.stack /\ unchecked' = {}
    BY <1>2 DEF PassPriority
  <2>2. c.alive \in SUBSET Players /\ c.stack \in Seq(Players)
    BY StateChecksType
  <2>3. CASE c.stack # <<>> /\ ResolveTop(c.alive, c.stack)
    <3>1. /\ alive' \in SUBSET Players
          /\ stack' \in Seq(Players)
          /\ unchecked' = {}
          /\ current_index' = active
          /\ consecutive_passes' = 0
      BY <2>2, <2>3, ResolveTopType
    <3>. QED
      BY <1>2, <3>1, InRange, Zenon DEF PassPriority
  <2>4. CASE pass /\ alive' = c.alive /\ stack' = c.stack /\ unchecked' = {}
    BY <1>2, <2>2, <2>4, PassType DEF PassPriority, HolderMayAct
  <2>. QED
    BY <2>1, <2>3, <2>4
<1>3. CASE CastSpell
  <2>1. Append(stack, Holder) \in Seq(Players)
    BY AppendProperties DEF Holder
  <2>2. alive' \in SUBSET Players /\ stack' \in Seq(Players) /\ unchecked' = {}
    BY <1>3, <2>1, CheckAfterType DEF CastSpell
  <2>. QED
    BY <1>3, <2>2, InRange, Zenon DEF CastSpell, interrupt
<1>4. CASE PlayLand
  <2>1. PICK t \in PushTriggers(stack) : CheckAfter(t)
    BY <1>4 DEF PlayLand
  <2>. QED
    BY <1>4, <2>1, PushKeeps, CheckAfterType DEF PlayLand, prioVars
<1>5. CASE OtherAction
  BY <1>5, CheckAfterType DEF OtherAction, prioVars
<1>6. CASE HolderConcedes
  <2>1. PICK c \in StateChecks(alive \ {Holder}, stack, unchecked) :
           alive' = c.alive /\ stack' = c.stack
    BY <1>6 DEF HolderConcedes
  <2>2. alive' \in SUBSET Players /\ stack' \in Seq(Players)
    BY <2>1, StateChecksType
  <2>. QED
    BY <1>6, <2>2 DEF HolderConcedes, prioVars
<1>7. CASE PolledConcession
  BY <1>7 DEF PolledConcession, prioVars, GameWon
<1>8. CASE HolderGone
  BY <1>8 DEF HolderGone, prioVars, GameWon
<1>9. CASE RoundOver
  BY <1>9 DEF RoundOver, prioVars
<1>10. CASE EndRound
  BY <1>10 DEF EndRound, prioVars
<1>11. CASE ResolveOuter
  <2>1. /\ alive' \in SUBSET Players
        /\ stack' \in Seq(Players)
        /\ unchecked' = {}
        /\ current_index' = active
        /\ consecutive_passes' = 0
    BY <1>11, ResolveTopType DEF ResolveOuter
  <2>. QED
    BY <1>11, <2>1, InRange, Zenon DEF ResolveOuter
<1>. QED
  BY <1>1, <1>2, <1>3, <1>4, <1>5, <1>6, <1>7, <1>8, <1>9, <1>10, <1>11 DEF PriorityStep

LEMMA TypeNext ==
  ASSUME TypeOK, [Next]_vars
  PROVE  TypeOK'
<1>. USE DEF TypeOK
<1>1. CASE StartTurn
  BY <1>1, InRange, Zenon DEF StartTurn, prioVars
<1>2. CASE EnterPhase
  <2>1. /\ running' \in BOOLEAN
        /\ alive' \in SUBSET Players
        /\ stack' \in Seq(Players)
        /\ unchecked' \in SUBSET Everything
    BY <1>2, PhaseWorkType DEF EnterPhase
  <2>. QED
    BY <1>2, <2>1, NAssumption DEF EnterPhase, begin_round, prioVars
<1>3. CASE CleanupStep
  <2>1. PICK c \in StateChecks(alive, stack, Everything) :
           alive' = c.alive /\ stack' = c.stack
    BY <1>3 DEF CleanupStep
  <2>2. alive' \in SUBSET Players /\ stack' \in Seq(Players)
    BY <2>1, StateChecksType
  <2>. QED
    BY <1>3, <2>2, NAssumption DEF CleanupStep, begin_round, prioVars
<1>4. CASE PriorityStep
  BY <1>4, TypePriorityStep
<1>5. CASE EndPhase
  <2>1. (active + 1) % N \in Players
    BY NextSeat, NAssumption DEF Players
  <2>2. alive' \in SUBSET Players /\ stack' \in Seq(Players) /\ unchecked' = {}
    BY <1>5, CheckAfterType DEF EndPhase
  <2>3. phase' \in 0 .. phase_count - 1
    BY <1>5, InRange DEF EndPhase, phase_count
  <2>4. active' \in Players
    BY <1>5, <2>1 DEF EndPhase
  <2>5. pc' \in {"over", "phase", "turn"} /\ running' \in BOOLEAN
    BY <1>5, Zenon DEF EndPhase
  <2>. QED
    BY <1>5, <2>2, <2>3, <2>4, <2>5, Zenon DEF EndPhase, prioVars
<1>6. CASE LeaveLoop
  BY <1>6 DEF LeaveLoop, prioVars
<1>7. CASE StopGame
  BY <1>7 DEF StopGame, prioVars
<1>8. CASE UNCHANGED vars
  BY <1>8 DEF vars, prioVars
<1>. QED
  BY <1>1, <1>2, <1>3, <1>4, <1>5, <1>6, <1>7, <1>8 DEF Next, ThreadStep, ThreadDone

(* Every variable keeps its type: the priority index always denotes a       *)
(* player of player_order_, and the count of passes never exceeds their     *)
(* number (PrioritySystem::pass).                                           *)
THEOREM TypeCorrect == Spec => []TypeOK
<1>1. Init => TypeOK
  BY TypeInit
<1>2. TypeOK /\ [Next]_vars => TypeOK'
  BY TypeNext
<1>. QED
  BY <1>1, <1>2, PTL DEF Spec
-----------------------------------------------------------------------------
(* The invariants, one lemma for each conjunct of IInv *)

LEMMA OnTopOfSome ==
  ASSUME NEW S, NEW s \in Seq(S), NEW t \in Seq(S), OnTop(s, t), t = <<>>
  PROVE  s = <<>>
BY EmptySeq, LenProperties DEF OnTop

LEMMA SeatsFrom ==
  ASSUME NEW a \in Players, NEW k \in 0 .. N, k < N
  PROVE  /\ (a + 0) % N = a
         /\ (a + k) % N = IF a + k < N THEN a + k ELSE a + k - N
         /\ k + 1 < N => (((a + k) % N) + 1) % N = (a + (k + 1)) % N
<1>1. (a + 0) % N = a
  BY NAssumption DEF Players
<1>2. \A j \in 0 .. N : j < N =>
         (a + j) % N = IF a + j < N THEN a + j ELSE a + j - N
  BY NAssumption DEF Players
<1>3. ASSUME k + 1 < N
      PROVE  (((a + k) % N) + 1) % N = (a + (k + 1)) % N
  <2>1. (a + k) % N \in Players
    BY <1>2, NAssumption DEF Players
  <2>2. (((a + k) % N) + 1) % N = IF ((a + k) % N) + 1 = N THEN 0 ELSE ((a + k) % N) + 1
    BY <2>1, NextSeat
  <2>. QED
    BY <1>2, <1>3, <2>2, NAssumption DEF Players
<1>. QED
  BY <1>1, <1>2, <1>3

LEMMA LateChecksNext ==
  ASSUME IInv, [Next]_vars
  PROVE  LateChecks'
<1>. USE DEF LateChecks
<1>0. TypeOK /\ LateChecks
  BY DEF IInv
<1>1. CASE StartTurn
  BY <1>0, <1>1 DEF StartTurn
<1>2. CASE EnterPhase
  <2>1. "creature" \in unchecked' => phase = EndStep
    BY <1>0, <1>2, PhaseWorkType DEF EnterPhase
  <2>2. phase = EndStep => pc' = "inner" /\ phase' = EndStep
    BY <1>2 DEF EnterPhase, phase_needs_priority, EndStep, Untap, Cleanup
  <2>. QED
    BY <2>1, <2>2
<1>3. CASE CleanupStep
  BY <1>3 DEF CleanupStep
<1>4. CASE AutoPass
  BY <1>0, <1>4 DEF AutoPass
<1>5. CASE PassPriority
  <2>1. unchecked' = {}
    BY <1>5 DEF PassPriority, ResolveTop
  <2>. QED
    BY <2>1
<1>6. CASE CastSpell \/ PlayLand \/ OtherAction \/ HolderConcedes \/ ResolveOuter \/ EndPhase
  <2>1. unchecked' = {}
    BY <1>6 DEF CastSpell, PlayLand, OtherAction, HolderConcedes, ResolveOuter, ResolveTop,
                EndPhase, CheckAfter
  <2>. QED
    BY <2>1
<1>7. CASE PolledConcession
  BY <1>0, <1>7 DEF PolledConcession
<1>8. CASE HolderGone
  BY <1>0, <1>8 DEF HolderGone, HolderMayAct
<1>9. CASE RoundOver
  BY <1>0, <1>9 DEF RoundOver
<1>10. CASE EndRound
  BY <1>0, <1>10 DEF EndRound, EndStep, Cleanup
<1>11. CASE LeaveLoop
  BY <1>0, <1>11 DEF LeaveLoop
<1>12. CASE StopGame
  BY <1>0, <1>12 DEF StopGame
<1>13. CASE UNCHANGED vars
  BY <1>0, <1>13 DEF vars
<1>. QED
  BY <1>1, <1>2, <1>3, <1>4, <1>5, <1>6, <1>7, <1>8, <1>9, <1>10, <1>11, <1>12, <1>13
  DEF Next, ThreadStep, PriorityStep, ThreadDone

LEMMA EmptyNext ==
  ASSUME IInv, [Next]_vars
  PROVE  EmptyAtEnd' /\ NothingLeftOnStack'
<1>. USE DEF EmptyAtEnd, NothingLeftOnStack
<1>0. TypeOK /\ LateChecks /\ EmptyAtEnd /\ NothingLeftOnStack
  BY DEF IInv
<1>1. CASE StartTurn
  BY <1>0, <1>1 DEF StartTurn, Untap, Cleanup
<1>2. CASE EnterPhase
  <2>1. CASE phase = Untap
    <3>1. stack' = stack
      BY <1>0, <1>2, <2>1, PhaseWorkType DEF EnterPhase
    <3>. QED
      BY <1>0, <1>2, <2>1, <3>1 DEF EnterPhase, phase_needs_priority, Untap, Cleanup
  <2>2. CASE phase # Untap
    BY <1>2, <2>2 DEF EnterPhase, phase_needs_priority
  <2>. QED
    BY <2>1, <2>2
<1>3. CASE CleanupStep
  BY <1>3 DEF CleanupStep
<1>4. CASE /\ pc' \in {"inner", "outer", "over"}
  BY <1>4
<1>5. CASE EndRound
  BY <1>5 DEF EndRound
<1>6. CASE EndPhase
  <2>1. CASE phase + 1 < phase_count
    <3>1. (phase' = phase + 1 /\ running' = running /\ pc' = "phase") \/ pc' = "over"
      BY <1>6, <2>1 DEF EndPhase
    <3>2. CASE phase = EndStep
      BY <3>1, <3>2 DEF EndStep, Cleanup
    <3>3. CASE phase # EndStep
      <4>1. stack' = stack
        BY <1>0, <1>6, <3>3, CheckAfterType DEF EndPhase, LateChecks, TypeOK
      <4>. QED
        BY <1>0, <1>6, <3>1, <4>1 DEF EndPhase
    <3>. QED
      BY <3>2, <3>3
  <2>2. CASE ~(phase + 1 < phase_count)
    <3>1. phase # EndStep
      BY <2>2 DEF phase_count, EndStep
    <3>2. stack' = stack
      BY <1>0, <1>6, <3>1, CheckAfterType DEF EndPhase, LateChecks, TypeOK
    <3>3. (running' = running /\ pc' = "turn") \/ pc' = "over"
      BY <1>6, <2>2 DEF EndPhase
    <3>. QED
      BY <1>0, <1>6, <3>2, <3>3 DEF EndPhase
  <2>. QED
    BY <2>1, <2>2
<1>7. CASE StopGame
  BY <1>7 DEF StopGame
<1>8. CASE UNCHANGED vars
  BY <1>0, <1>8 DEF vars
<1>9. ASSUME PriorityStep
      PROVE  pc' \in {"inner", "outer"} \/ EndRound
  BY <1>9 DEF PriorityStep, AutoPass, PassPriority, CastSpell, PlayLand, OtherAction,
              HolderConcedes, PolledConcession, HolderGone, RoundOver, ResolveOuter,
              HolderMayAct
<1>10. ASSUME LeaveLoop
       PROVE  pc' = "over"
  BY <1>10 DEF LeaveLoop
<1>. QED
  BY <1>1, <1>2, <1>3, <1>4, <1>5, <1>6, <1>7, <1>8, <1>9, <1>10
  DEF Next, ThreadStep, ThreadDone

LEMMA DecidedNext ==
  ASSUME IInv, [Next]_vars
  PROVE  DecidedGameStops'
<1>. USE DEF DecidedGameStops
<1>0. TypeOK /\ DecidedGameStops
  BY DEF IInv
<1>1. CASE StartTurn
  BY <1>0, <1>1 DEF StartTurn, GameWon
<1>2. CASE pc' \notin {"turn", "phase"}
  BY <1>2
<1>3. CASE EndPhase
  BY <1>3 DEF EndPhase
<1>4. CASE StopGame
  BY <1>0, <1>4 DEF StopGame, HolderMayAct, GameWon
<1>5. CASE UNCHANGED vars
  BY <1>0, <1>5 DEF vars, GameWon
<1>6. ASSUME EnterPhase \/ CleanupStep \/ PriorityStep \/ LeaveLoop
      PROVE  pc' \notin {"turn", "phase"}
  BY <1>6
  DEF EnterPhase, CleanupStep, LeaveLoop, PriorityStep, AutoPass, PassPriority, CastSpell,
      PlayLand, OtherAction, HolderConcedes, PolledConcession, HolderGone, RoundOver,
      EndRound, ResolveOuter, HolderMayAct
<1>. QED
  BY <1>1, <1>2, <1>3, <1>4, <1>5, <1>6 DEF Next, ThreadStep, ThreadDone

LEMMA TurnOrderNext ==
  ASSUME IInv, [Next]_vars
  PROVE  HolderInTurnOrder'
<1>. USE DEF HolderInTurnOrder, Holder
<1>0. TypeOK /\ HolderInTurnOrder
  BY DEF IInv
<1>1. /\ active \in Players
      /\ stack \in Seq(Players)
      /\ consecutive_passes \in 0 .. N
      /\ (active + 0) % N = active
  BY <1>0, SeatsFrom, NAssumption DEF TypeOK
<1>2. ASSUME begin_round(active), active' = active
      PROVE  HolderInTurnOrder'
  BY <1>1, <1>2 DEF begin_round
<1>3. ASSUME UNCHANGED prioVars, active' = active, pc = "inner", stack' = <<>> => stack = <<>>
      PROVE  HolderInTurnOrder'
  BY <1>0, <1>3 DEF prioVars, AllPassed
<1>4. ASSUME pass, active' = active, pc = "inner", ~AllPassed, stack' = <<>> => stack = <<>>
      PROVE  HolderInTurnOrder'
  <2>1. CASE AllPassed' \/ stack' # <<>>
    BY <2>1
  <2>2. CASE ~AllPassed' /\ stack' = <<>>
    <3>1. consecutive_passes' = consecutive_passes + 1 /\ consecutive_passes + 1 < N
      BY <1>1, <1>4, <2>2, NAssumption DEF pass, AllPassed
    <3>2. current_index = (active + consecutive_passes) % N
      BY <1>0, <1>4, <2>2
    <3>3. current_index' = (current_index + 1) % N
      BY <1>1, <1>4, <3>1, NAssumption DEF pass
    <3>4. (((active + consecutive_passes) % N) + 1) % N = (active + (consecutive_passes + 1)) % N
      BY <1>1, <3>1, SeatsFrom, NAssumption
    <3>. QED
      BY <1>4, <3>1, <3>2, <3>3, <3>4
  <2>. QED
    BY <2>1, <2>2
<1>5. CASE EnterPhase \/ CleanupStep
  BY <1>2, <1>5 DEF EnterPhase, CleanupStep
<1>6. CASE AutoPass
  BY <1>4, <1>6 DEF AutoPass, HolderMayAct
<1>7. CASE PassPriority
  <2>1. PICK c \in StateChecks(alive, stack, unchecked) :
           \/ ResolveTop(c.alive, c.stack)
           \/ pass /\ stack' = c.stack
    BY <1>7 DEF PassPriority
  <2>2. c.stack \in Seq(Players) /\ OnTop(stack, c.stack)
    BY <1>0, StateChecksType DEF TypeOK
  <2>3. c.stack = <<>> => stack = <<>>
    BY <1>1, <2>2, OnTopOfSome
  <2>. QED
    BY <1>2, <1>4, <1>7, <2>1, <2>3 DEF PassPriority, ResolveTop, HolderMayAct
<1>8. CASE CastSpell
  <2>1. Append(stack, Holder) \in Seq(Players) /\ Append(stack, Holder) # <<>>
    BY <1>0, AppendProperties DEF TypeOK
  <2>2. stack' \in Seq(Players) /\ OnTop(Append(stack, Holder), stack')
    BY <1>0, <1>8, <2>1, CheckAfterType DEF CastSpell
  <2>3. stack' # <<>>
    BY <2>1, <2>2, OnTopOfSome
  <2>. QED
    BY <2>3
<1>9. CASE PlayLand
  BY <1>3, <1>9 DEF PlayLand, HolderMayAct
<1>10. CASE OtherAction
  <2>1. stack' \in Seq(Players) /\ OnTop(stack, stack')
    BY <1>0, <1>1, <1>10, CheckAfterType DEF OtherAction
  <2>. QED
    BY <1>1, <1>3, <1>10, <2>1, OnTopOfSome DEF OtherAction, HolderMayAct
<1>11. CASE HolderConcedes
  <2>1. PICK c \in StateChecks(alive \ {Holder}, stack, unchecked) : stack' = c.stack
    BY <1>11 DEF HolderConcedes
  <2>2. alive \ {Holder} \in SUBSET Players
    BY <1>0 DEF TypeOK
  <2>3. stack' \in Seq(Players) /\ OnTop(stack, stack')
    BY <1>1, <2>1, <2>2, StateChecksType
  <2>. QED
    BY <1>1, <1>3, <1>11, <2>3, OnTopOfSome DEF HolderConcedes, HolderMayAct
<1>12. CASE PolledConcession
  BY <1>3, <1>12 DEF PolledConcession, HolderMayAct
<1>13. CASE ResolveOuter
  BY <1>2, <1>13 DEF ResolveOuter, ResolveTop
<1>14. CASE StartTurn \/ HolderGone \/ RoundOver \/ EndRound \/ EndPhase \/ LeaveLoop
  <2>1. pc' # "inner"
    BY <1>14 DEF StartTurn, HolderGone, RoundOver, EndRound, EndPhase, LeaveLoop
  <2>. QED
    BY <2>1
<1>15. CASE StopGame
  BY <1>0, <1>15 DEF StopGame, prioVars, AllPassed
<1>16. CASE UNCHANGED vars
  BY <1>0, <1>16 DEF vars, prioVars, AllPassed
<1>. QED
  BY <1>5, <1>6, <1>7, <1>8, <1>9, <1>10, <1>11, <1>12, <1>13, <1>14, <1>15, <1>16
  DEF Next, ThreadStep, PriorityStep, ThreadDone
LEMMA OuterReasonNext ==
  ASSUME IInv, [Next]_vars
  PROVE  OuterReason'
<1>. USE DEF OuterReason, Holder, AllPassed
<1>0. OuterReason
  BY DEF IInv
<1>1. CASE HolderGone
  BY <1>1 DEF HolderGone, prioVars
<1>2. CASE RoundOver
  BY <1>2 DEF RoundOver, prioVars
<1>3. CASE StopGame
  BY <1>3 DEF StopGame
<1>4. CASE UNCHANGED vars
  BY <1>0, <1>4 DEF vars, prioVars
<1>5. CASE pc' # "outer"
  BY <1>5
<1>6. ASSUME StartTurn \/ EnterPhase \/ CleanupStep \/ EndPhase \/ LeaveLoop
      PROVE  pc' # "outer"
  BY <1>6 DEF StartTurn, EnterPhase, CleanupStep, EndPhase, LeaveLoop
<1>7. ASSUME PriorityStep
      PROVE  pc' # "outer" \/ HolderGone \/ RoundOver
  BY <1>7 DEF PriorityStep, AutoPass, PassPriority, CastSpell, PlayLand, OtherAction,
              HolderConcedes, PolledConcession, EndRound, ResolveOuter, HolderMayAct
<1>. QED
  BY <1>1, <1>2, <1>3, <1>4, <1>5, <1>6, <1>7 DEF Next, ThreadStep, ThreadDone

LEMMA InvInit == Init => IInv
<1>. SUFFICES ASSUME Init PROVE IInv
  OBVIOUS
<1>1. TypeOK
  BY TypeInit
<1>2. LateChecks /\ OuterReason /\ EmptyAtEnd /\ NothingLeftOnStack /\ HolderInTurnOrder
  BY DEF Init, LateChecks, OuterReason, EmptyAtEnd, NothingLeftOnStack, HolderInTurnOrder
<1>3. DecidedGameStops
  <2>1. 0 \in Players /\ 1 \in Players
    BY NAssumption DEF Players
  <2>. QED
    BY <2>1 DEF Init, DecidedGameStops, GameWon
<1>. QED
  BY <1>1, <1>2, <1>3 DEF IInv

LEMMA InvNext ==
  ASSUME IInv, [Next]_vars
  PROVE  IInv'
<1>1. TypeOK'
  BY TypeNext DEF IInv
<1>. QED
  BY <1>1, LateChecksNext, OuterReasonNext, EmptyNext, DecidedNext, TurnOrderNext DEF IInv

THEOREM InductiveInvariant == Spec => []IInv
<1>1. Init => IInv
  BY InvInit
<1>2. IInv /\ [Next]_vars => IInv'
  BY InvNext
<1>. QED
  BY <1>1, <1>2, PTL DEF Spec

(* No spell or trigger outlives the phase it was put on the stack in, for   *)
(* any number of players and any length of the stack (run_priority_round,   *)
(* run_cleanup_phase).                                                      *)
THEOREM StackIsEmptied == Spec => []NothingLeftOnStack
<1>1. IInv => NothingLeftOnStack
  BY DEF IInv
<1>. QED
  BY <1>1, InductiveInvariant, PTL

(* Once the win check at the end of a phase finds a decided game, no        *)
(* further phase or turn begins (game_loop).                                *)
THEOREM DecidedGamesStop == Spec => []DecidedGameStops
<1>1. IInv => DecidedGameStops
  BY DEF IInv
<1>. QED
  BY <1>1, InductiveInvariant, PTL

(* Phases and turns begin with an empty stack and an undecided game         *)
(* (game_loop, run_phase).                                                  *)
THEOREM PhasesAreSettled == Spec => []PhasesBeginSettled
BY StackIsEmptied, DecidedGamesStop, PTL DEF PhasesBeginSettled

(* While the stack is empty priority goes round from the active player, for *)
(* any number of players (PrioritySystem::begin_round, ::pass).             *)
THEOREM PriorityInTurnOrder == Spec => []HolderInTurnOrder
<1>1. IInv => HolderInTurnOrder
  BY DEF IInv
<1>. QED
  BY <1>1, InductiveInvariant, PTL

-----------------------------------------------------------------------------
(* What goes on the stack can be responded to *)

LEMMA ResponseStep ==
  ASSUME IInv, [Next]_vars, pc = "inner", phase # EndStep, Len(stack') > Len(stack)
  PROVE  consecutive_passes' = 0
<1>1. /\ TypeOK
      /\ "creature" \notin unchecked
      /\ HolderInTurnOrder
  BY DEF IInv, LateChecks
<1>2. stack \in Seq(Players) /\ stack' # stack
  BY <1>1, LenProperties DEF TypeOK
<1>3. ASSUME CheckAfter(stack)
      PROVE  FALSE
  BY <1>1, <1>2, <1>3, CheckAfterType
<1>4. CASE PassPriority
  <2>1. PICK c \in StateChecks(alive, stack, unchecked) :
           \/ ResolveTop(c.alive, c.stack)
           \/ stack' = c.stack
    BY <1>4 DEF PassPriority
  <2>2. c.stack = stack
    BY <1>1, StateChecksQuiet
  <2>. QED
    BY <1>2, <2>1, <2>2 DEF ResolveTop, begin_round
<1>5. CASE CastSpell
  BY <1>5 DEF CastSpell, interrupt
<1>6. CASE PlayLand
  <2>1. /\ Holder = (active + consecutive_passes) % N
        /\ Holder = active
        /\ consecutive_passes < N
        /\ consecutive_passes' = consecutive_passes
    BY <1>1, <1>6, NAssumption
    DEF PlayLand, HolderMayAct, HolderInTurnOrder, AllPassed, TypeOK, prioVars
  <2>2. active \in Players /\ consecutive_passes \in 0 .. N
    BY <1>1 DEF TypeOK
  <2>3. Holder = IF active + consecutive_passes < N
                 THEN active + consecutive_passes ELSE active + consecutive_passes - N
    BY <2>1, <2>2, SeatsFrom
  <2>. QED
    BY <2>1, <2>2, <2>3, NAssumption DEF Players
<1>7. CASE OtherAction
  BY <1>3, <1>7 DEF OtherAction
<1>8. CASE HolderConcedes
  BY <1>1, <1>2, <1>8, StateChecksQuiet DEF HolderConcedes
<1>9. CASE UNCHANGED stack
  BY <1>2, <1>9
<1>10. ASSUME AutoPass \/ PolledConcession \/ HolderGone \/ RoundOver \/ StopGame
              \/ UNCHANGED vars
       PROVE  UNCHANGED stack
  BY <1>10 DEF AutoPass, PolledConcession, HolderGone, RoundOver, StopGame, vars
<1>11. ASSUME StartTurn \/ EnterPhase \/ CleanupStep \/ EndRound \/ ResolveOuter \/ EndPhase
              \/ LeaveLoop
       PROVE  pc # "inner"
  BY <1>11 DEF StartTurn, EnterPhase, CleanupStep, EndRound, ResolveOuter, EndPhase, LeaveLoop
<1>. QED
  BY <1>4, <1>5, <1>6, <1>7, <1>8, <1>9, <1>10, <1>11
  DEF Next, ThreadStep, PriorityStep, ThreadDone

(* Outside the end step nothing is put on the stack after a pass that still *)
(* counts, for any number of players: not by a spell (PrioritySystem::      *)
(* interrupt), not by landfall, which does not interrupt, and not by the    *)
(* state-based actions that follow a pass.                                  *)
THEOREM EveryoneCanRespond == Spec => EveryoneMayRespond
<1>1. IInv /\ [Next]_vars
        => [pc = "inner" /\ phase # EndStep /\ Len(stack') > Len(stack)
              => consecutive_passes' = 0]_vars
  BY ResponseStep
<1>. QED
  BY <1>1, InductiveInvariant, PTL DEF Spec, EveryoneMayRespond

(* Both together are what the runs check: priority goes round in turn order *)
(* and reaches everyone again for what was put on the stack.                *)
THEOREM PriorityReachesAll == Spec => PriorityGoesRound
BY PriorityInTurnOrder, EveryoneCanRespond, PTL DEF PriorityGoesRound

-----------------------------------------------------------------------------
(* The counter and the index implement PriorityRule *)

SeatFrom(i, k) == IF k <= i THEN i - k ELSE i + N - k

PassedWith(i, n) == IF n >= N THEN Players ELSE {SeatFrom(i, k) : k \in 1 .. n}

LEMMA PassedIs ==
  /\ Passed = PassedWith(current_index, consecutive_passes)
  /\ Passed' = PassedWith(current_index', consecutive_passes')
BY DEF Passed, AllPassed, Seat, PassedWith, SeatFrom

LEMMA NoPasses ==
  ASSUME NEW i
  PROVE  PassedWith(i, 0) = {}
BY NAssumption DEF PassedWith

(* The seat to act is not among those that passed, and is the last one      *)
(* missing when the next pass completes the round.                          *)
LEMMA HolderHasNotPassed ==
  ASSUME NEW i \in Players, NEW n \in Nat, n < N
  PROVE  i \notin PassedWith(i, n)
<1>1. \A k \in 1 .. n : SeatFrom(i, k) # i
  BY NAssumption DEF SeatFrom, Players
<1>. QED
  BY <1>1, NAssumption DEF PassedWith

LEMMA LastSeat ==
  ASSUME NEW i \in Players, NEW n \in Nat, n < N, n + 1 >= N
  PROVE  PassedWith(i, n) \cup {i} = Players
<1>1. \A k \in 1 .. n : SeatFrom(i, k) \in Players
  BY NAssumption DEF SeatFrom, Players
<1>2. ASSUME NEW p \in Players, p # i
      PROVE  \E k \in 1 .. n : p = SeatFrom(i, k)
  <2>1. CASE p < i
    <3>1. i - p \in 1 .. n /\ p = SeatFrom(i, i - p)
      BY <2>1, NAssumption DEF SeatFrom, Players
    <3>. QED
      BY <3>1
  <2>2. CASE p > i
    <3>1. i + N - p \in 1 .. n /\ p = SeatFrom(i, i + N - p)
      BY <2>2, NAssumption DEF SeatFrom, Players
    <3>. QED
      BY <3>1
  <2>. QED
    BY <1>2, <2>1, <2>2, NAssumption DEF Players
<1>3. PassedWith(i, n) = {SeatFrom(i, k) : k \in 1 .. n}
  BY NAssumption DEF PassedWith
<1>. QED
  BY <1>1, <1>2, <1>3

LEMMA OneMoreSeat ==
  ASSUME NEW i \in Players, NEW n \in Nat, n + 1 < N
  PROVE  PassedWith((i + 1) % N, n + 1) = PassedWith(i, n) \cup {i}
<1>. DEFINE j == (i + 1) % N
<1>1. j = IF i + 1 = N THEN 0 ELSE i + 1
  BY NextSeat
<1>2. SeatFrom(j, 1) = i
  BY <1>1, NAssumption DEF SeatFrom, Players
<1>3. \A k \in 1 .. n : SeatFrom(j, k + 1) = SeatFrom(i, k)
  BY <1>1, NAssumption DEF SeatFrom, Players
<1>4. /\ PassedWith(i, n) = {SeatFrom(i, k) : k \in 1 .. n}
      /\ PassedWith(j, n + 1) = {SeatFrom(j, k) : k \in 1 .. n + 1}
  BY NAssumption DEF PassedWith
<1>. HIDE DEF j
<1>5. ASSUME NEW x
      PROVE  x \in {SeatFrom(j, k) : k \in 1 .. n + 1}
               <=> x \in {SeatFrom(i, k) : k \in 1 .. n} \cup {i}
  <2>1. ASSUME NEW k \in 1 .. n + 1, x = SeatFrom(j, k)
        PROVE  x \in {SeatFrom(i, m) : m \in 1 .. n} \cup {i}
    <3>1. CASE k = 1
      BY <1>2, <2>1, <3>1
    <3>2. CASE k # 1
      <4>1. k - 1 \in 1 .. n /\ (k - 1) + 1 = k
        BY <3>2
      <4>. QED
        BY <1>3, <2>1, <4>1
    <3>. QED
      BY <3>1, <3>2
  <2>2. ASSUME NEW k \in 1 .. n, x = SeatFrom(i, k)
        PROVE  x \in {SeatFrom(j, m) : m \in 1 .. n + 1}
    <3>1. k + 1 \in 1 .. n + 1 /\ x = SeatFrom(j, k + 1)
      BY <1>3, <2>2
    <3>. QED
      BY <3>1
  <2>3. i \in {SeatFrom(j, m) : m \in 1 .. n + 1}
    <3>1. 1 \in 1 .. n + 1
      OBVIOUS
    <3>. QED
      BY <1>2, <3>1
  <2>. QED
    BY <2>1, <2>2, <2>3
<1>. QED
  BY <1>4, <1>5 DEF j

(* What the steps of the thread are in PriorityRule's terms. *)
LEMMA RulePass ==
  ASSUME TypeOK, pass, ~AllPassed, OnTop(stack, stack')
  PROVE  Rule!Pass
<1>1. /\ current_index \in Players
      /\ consecutive_passes \in Nat
      /\ consecutive_passes < N
  BY NAssumption DEF TypeOK, AllPassed
<1>2. current_index \in Players \ Passed
  BY <1>1, PassedIs, HolderHasNotPassed
<1>3. Passed' = Passed \cup {current_index}
  <2>1. CASE consecutive_passes + 1 < N
    BY <1>1, <2>1, PassedIs, OneMoreSeat, NAssumption DEF pass
  <2>2. CASE consecutive_passes + 1 >= N
    <3>1. PassedWith(current_index', consecutive_passes') = Players
      BY <2>2 DEF pass, PassedWith
    <3>. QED
      BY <1>1, <2>2, <3>1, PassedIs, LastSeat
  <2>. QED
    BY <1>1, <2>1, <2>2, NAssumption
<1>. QED
  BY <1>2, <1>3 DEF Rule!Pass, Rule!Kept, OnTop

LEMMA RuleReset ==
  ASSUME consecutive_passes' = 0, OnTop(stack, stack')
  PROVE  Rule!Reset
BY PassedIs, NoPasses DEF Rule!Reset, Rule!Kept, OnTop

LEMMA RuleQuiet ==
  ASSUME UNCHANGED prioVars, OnTop(stack, stack')
  PROVE  Rule!Quiet
BY PassedIs DEF Rule!Quiet, Rule!Kept, OnTop, prioVars

LEMMA RuleStep ==
  ASSUME IInv, [Next]_vars
  PROVE  Rule!Next
<1>. USE DEF Rule!Next
<1>0. /\ TypeOK
      /\ active \in Players
      /\ stack \in Seq(Players)
      /\ alive \in SUBSET Players
      /\ current_index \in Players
      /\ OnTop(stack, stack)
  BY OnTopReflexive DEF IInv, TypeOK
<1>1. CASE UNCHANGED <<prioVars, stack>>
  BY <1>0, <1>1, RuleQuiet
<1>2. CASE EnterPhase
  <2>1. OnTop(stack, stack')
    BY <1>0, <1>2, PhaseWorkType DEF EnterPhase
  <2>2. consecutive_passes' = 0 \/ UNCHANGED prioVars
    BY <1>2 DEF EnterPhase, begin_round
  <2>. QED
    BY <2>1, <2>2, RuleReset, RuleQuiet
<1>3. CASE CleanupStep
  <2>1. PICK c \in StateChecks(alive, stack, Everything) : stack' = c.stack
    BY <1>3 DEF CleanupStep
  <2>2. OnTop(stack, stack')
    BY <1>0, <2>1, StateChecksType
  <2>3. consecutive_passes' = 0 \/ UNCHANGED prioVars
    BY <1>3 DEF CleanupStep, begin_round
  <2>. QED
    BY <2>2, <2>3, RuleReset, RuleQuiet
<1>4. CASE AutoPass
  BY <1>0, <1>4, RulePass DEF AutoPass, HolderMayAct
<1>5. CASE PassPriority
  <2>1. PICK c \in StateChecks(alive, stack, unchecked) :
           \/ consecutive_passes + 1 >= N /\ ResolveTop(c.alive, c.stack)
           \/ pass /\ stack' = c.stack
    BY <1>5 DEF PassPriority
  <2>2. OnTop(stack, c.stack)
    BY <1>0, StateChecksType
  <2>3. CASE consecutive_passes + 1 >= N /\ ResolveTop(c.alive, c.stack)
    <3>1. consecutive_passes \in Nat /\ consecutive_passes < N
      BY <1>0, <1>5, NAssumption DEF PassPriority, HolderMayAct, AllPassed, TypeOK
    <3>2. Passed \cup {current_index} = Players
      BY <1>0, <2>3, <3>1, PassedIs, LastSeat
    <3>3. Passed' = {}
      BY <2>3, PassedIs, NoPasses DEF ResolveTop, begin_round
    <3>. QED
      BY <1>0, <3>2, <3>3 DEF Rule!Resolve
  <2>4. CASE pass /\ stack' = c.stack
    BY <1>0, <1>5, <2>2, <2>4, RulePass DEF PassPriority, HolderMayAct
  <2>. QED
    BY <2>1, <2>3, <2>4
<1>6. CASE CastSpell
  <2>1. /\ Append(stack, Holder) \in Seq(Players)
        /\ OnTop(stack, Append(stack, Holder))
    <3>1. OnTop(stack, stack \o <<Holder>>)
      <4>1. <<Holder>> \in Seq(Players)
        BY <1>0 DEF Holder
      <4>2. CASE stack = <<>>
        BY <1>0, <4>1, <4>2, ConcatProperties, LenProperties, SubSeqEmpty DEF OnTop
      <4>3. CASE stack # <<>>
        <5>1. Len(stack) \in 1 .. Len(stack)
          BY <1>0, <4>3, EmptySeq, LenProperties
        <5>. QED
          BY <1>0, <4>1, <5>1, ConcatProperties, LenProperties, SubSeqOfConcat1, SubSeqFull
          DEF OnTop
      <4>. QED
        BY <4>2, <4>3
    <3>2. Append(stack, Holder) = stack \o <<Holder>>
      BY <1>0 DEF Holder
    <3>. QED
      BY <1>0, <3>1, <3>2, AppendProperties DEF Holder
  <2>2. stack' \in Seq(Players) /\ OnTop(Append(stack, Holder), stack')
    BY <1>0, <1>6, <2>1, CheckAfterType DEF CastSpell
  <2>3. OnTop(stack, stack')
    BY <1>0, <2>1, <2>2, OnTopTransitive
  <2>. QED
    BY <1>6, <2>3, RuleReset DEF CastSpell, interrupt
<1>7. CASE PlayLand
  <2>1. PICK t \in PushTriggers(stack) : CheckAfter(t)
    BY <1>7 DEF PlayLand
  <2>2. t \in Seq(Players) /\ OnTop(stack, t)
    BY <1>0, PushKeeps
  <2>3. stack' \in Seq(Players) /\ OnTop(t, stack')
    BY <1>0, <2>1, <2>2, CheckAfterType
  <2>4. OnTop(stack, stack')
    BY <1>0, <2>2, <2>3, OnTopTransitive
  <2>. QED
    BY <1>7, <2>4, RuleQuiet DEF PlayLand
<1>8. CASE OtherAction
  BY <1>0, <1>8, CheckAfterType, RuleQuiet DEF OtherAction
<1>9. CASE HolderConcedes
  <2>1. PICK c \in StateChecks(alive \ {Holder}, stack, unchecked) : stack' = c.stack
    BY <1>9 DEF HolderConcedes
  <2>2. alive \ {Holder} \in SUBSET Players
    BY <1>0
  <2>. QED
    BY <1>0, <1>9, <2>1, <2>2, StateChecksType, RuleQuiet DEF HolderConcedes
<1>10. CASE ResolveOuter
  <2>1. AllPassed \/ Holder \notin alive
    BY <1>10 DEF ResolveOuter, IInv, OuterReason
  <2>2. Passed' = {}
    BY <1>10, PassedIs, NoPasses DEF ResolveOuter, ResolveTop, begin_round
  <2>3. AllPassed => Passed \cup {current_index} = Players
    BY <1>0 DEF Passed
  <2>. QED
    BY <1>0, <2>1, <2>2, <2>3 DEF Rule!Resolve
<1>11. CASE EndPhase
  BY <1>0, <1>11, CheckAfterType, RuleQuiet DEF EndPhase
<1>12. ASSUME \/ StartTurn \/ PolledConcession \/ HolderGone \/ RoundOver \/ EndRound
              \/ LeaveLoop \/ StopGame \/ UNCHANGED vars
       PROVE  UNCHANGED <<prioVars, stack>>
  BY <1>12 DEF StartTurn, PolledConcession, HolderGone, RoundOver, EndRound, LeaveLoop,
               StopGame, vars
<1>. QED
  BY <1>1, <1>2, <1>3, <1>4, <1>5, <1>6, <1>7, <1>8, <1>9, <1>10, <1>11, <1>12
  DEF Next, ThreadStep, PriorityStep, ThreadDone

(* For any number of players, an entry leaves the stack only after every    *)
(* player passed since priority was last reset, or when the player to act   *)
(* is out of the game: begin_round, pass, interrupt and the two resolutions *)
(* of run_priority_round implement PriorityRule.                            *)
THEOREM ImplementsPriorityRule == Spec => RuleSpec
<1>1. Init => Rule!Init
  <2>1. SUFFICES ASSUME Init PROVE Rule!Init
    OBVIOUS
  <2>2. Passed = {}
    BY <2>1, PassedIs, NoPasses DEF Init
  <2>3. Holder \in alive
    BY <2>1, InRange DEF Init, Holder
  <2>. QED
    BY <2>1, <2>2, <2>3 DEF Init, Rule!Init
<1>2. IInv /\ [Next]_vars => [Rule!Next]_<<stack, Passed, Holder \notin alive>>
  BY RuleStep
<1>. QED
  BY <1>1, <1>2, InductiveInvariant, PTL DEF Spec, RuleSpec, Rule!Spec
=============================================================================
