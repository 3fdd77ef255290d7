------------------------------- MODULE Combat -------------------------------
(***************************************************************************)
(* One combat of a turn: the combat steps of Game::run_phase with          *)
(* CombatManager, GameContextImpl::deal_damage and the state-based         *)
(* actions about creatures and life.                                       *)
(*                                                                         *)
(* What makes combat hard is that it is spread over five phases and up to  *)
(* a dozen prompts, and that between the phases the priority round runs    *)
(* arbitrary effects: a creature may leave, come back under the same id,   *)
(* grow, shrink, or gain or lose a keyword after it was declared and       *)
(* before, or between, the two damage steps.  The declarations, the damage *)
(* order and the chosen damage assignments survive all that.               *)
(*                                                                         *)
(* Every permanent of the model is a creature.  Power, toughness and       *)
(* keywords are the data; colours appear only as the relations Protected   *)
(* and Shunned.                                                            *)
(***************************************************************************)
EXTENDS Integers, Sequences, FiniteSets, SequencesExt, FiniteSetsExt, Functions

CONSTANTS
  Seats,        \* the players in the order of players_
  Active,       \* the active player
  Creatures,
  Controller,   \* [Creatures -> players]
  Power, Toughness, Printed,   \* what is printed on the card
  Protected,    \* <<c, d>>: d has protection from the colour of c
  Shunned,      \* <<c, d>>: d is neither an artifact nor shares a colour with c
  Life,         \* life totals when combat begins
  Given,        \* keywords that effects grant
  MaxPairs,     \* bound of the model: pairs in an answered declaration
  MaxEffects    \* bound of the model: effects during the combat

Players == Range(Seats)

\* Player ids (user ids) and permanent ids (card instance ids) are drawn from
\* different counters; deal_damage relies on their being different.
ASSUME IdsDiffer == Players \cap Creatures = {}

\* Everybody has one seat, and the combat is about real cards.
ASSUME CombatAssumption ==
  /\ Seats \in Seq(Players) /\ IsInjective(Seats) /\ Active \in Players
  /\ IsFiniteSet(Creatures) /\ Controller \in [Creatures -> Players]
  /\ Power \in [Creatures -> Int] /\ Toughness \in [Creatures -> Int]
  /\ Life \in Int /\ MaxPairs \in Nat /\ MaxEffects \in Nat
  /\ "priority" \notin Players \cup Creatures

VARIABLES
  step,       \* the phase, with the ordering prompts of DeclareBlockers apart
  todo,       \* who or what is still to be prompted for; Waiting outside prompts
  alive,      \* players with has_lost_ = false
  life,
  board,      \* the creatures on the battlefield
  attackers,  \* CombatState::attackers
  blockers,   \* CombatState::blockers
  damage_order,
  custom_damage,
  dealt,      \* by damage step, what resolve_combat_damage returned
  before,     \* the battlefield when the first strike step began
  effects     \* effects so far

combat == <<attackers, blockers, damage_order, custom_damage>>
vars == <<step, todo, alive, life, board, combat, dealt, before, effects>>

DamageSteps == {"FirstStrikeDamage", "CombatDamage"}
Steps == {"BeginningOfCombat", "DeclareAttackers", "DeclareBlockers",
          "OrderBlockers", "EndOfCombat"} \cup DamageSteps

\* No prompt is pending: the priority round of the phase runs.
Waiting == <<"priority">>
InPriority == todo = Waiting
EmptyCombat == /\ attackers' = <<>>
               /\ blockers' = <<>>
               /\ damage_order' = <<>>
               /\ custom_damage' = <<>>

-----------------------------------------------------------------------------
(* Permanent *)

Fresh(c) == [power |-> Power[c], toughness |-> Toughness[c], damage |-> 0,
             doomed |-> FALSE, tapped |-> FALSE, sick |-> TRUE, granted |-> {}]

Has(c, keyword) == keyword \in Printed[c] \cup board[c].granted

OnBoard(c) == c \in DOMAIN board

With(f, x, y) == [z \in DOMAIN f \cup {x} |-> IF z = x THEN y ELSE f[z]]

FirstStriker(c) == Has(c, "First Strike") \/ Has(c, "Double Strike")

\* Whether c deals its damage in damage step s.
Strikes(c, s) == IF s = "FirstStrikeDamage"
                 THEN FirstStriker(c)
                 ELSE ~Has(c, "First Strike") \/ Has(c, "Double Strike")

\* The creatures that the state-based actions leave on battlefield b.
Survives(b, c) == /\ b[c].toughness > 0
                  /\ \/ "Indestructible" \in Printed[c] \cup b[c].granted
                     \/ b[c].damage < b[c].toughness /\ ~b[c].doomed

Survivors(b) == Restrict(b, {c \in DOMAIN b : Survives(b, c)})

-----------------------------------------------------------------------------
(* Declarations.  A player answers with pairs of ids; what does not fit is *)
(* skipped, and a declared creature taps unless it has vigilance.          *)

validate_attacker(c) == /\ ~board[c].tapped
                        /\ ~board[c].sick \/ Has(c, "Haste")
                        /\ ~Has(c, "Defender")
                        /\ ~Has(c, "Can't Attack")

MayAttack(c) == OnBoard(c) /\ Controller[c] = Active /\ validate_attacker(c)

validate_blocker(b, a) ==
  /\ OnBoard(a)
  /\ ~board[b].tapped
  /\ ~Has(b, "Can't Block")
  /\ Has(a, "Flying") => Has(b, "Flying") \/ Has(b, "Reach")
  /\ Has(a, "Intimidate") => <<a, b>> \notin Shunned
  /\ <<b, a>> \notin Protected

\* Faulty variant: that the blocked creature attacks is not checked.
MayBlockAnything(p, b, a) == /\ OnBoard(b) /\ Controller[b] = p
                             /\ validate_blocker(b, a)

MayBlock(p, b, a) == /\ OnBoard(b) /\ Controller[b] = p
                     /\ \E i \in DOMAIN attackers : attackers[i].attacker = a
                     /\ validate_blocker(b, a)

\* The elements of s at the positions in I, in their order.
AtPositions(s, I) ==
  LET kept[i \in 0 .. Len(s)] ==
        IF i = 0 THEN <<>>
        ELSE IF i \in I THEN Append(kept[i - 1], s[i]) ELSE kept[i - 1]
  IN  kept[Len(s)]

\* Faulty variant: a creature is checked against the prompt's list only.
AttackPositionsTwice(pairs) == {i \in DOMAIN pairs : MayAttack(pairs[i][1])}

\* A creature tapped by an earlier pair of the answer cannot attack again.
AttackPositions(pairs) ==
  {i \in DOMAIN pairs :
     /\ MayAttack(pairs[i][1])
     /\ \/ Has(pairs[i][1], "Vigilance")
        \/ \A j \in 1 .. i - 1 : pairs[j][1] # pairs[i][1]}

FirstOpponent == Seats[SelectInSeq(Seats, LAMBDA p : p # Active /\ p \in alive)]

Defender(p) == IF p \in alive \ {Active} THEN p ELSE FirstOpponent

Attackers(pairs) ==
  LET chosen == AtPositions(pairs, AttackPositions(pairs))
  IN  [i \in DOMAIN chosen |-> [attacker |-> chosen[i][1],
                                defender |-> Defender(chosen[i][2])]]

Tapped(cs) == [c \in DOMAIN board |->
                 [board[c] EXCEPT !.tapped =
                    @ \/ (c \in cs /\ ~Has(c, "Vigilance"))]]

\* used_blockers: the first pair that fits decides what a creature blocks.
BlockPositions(p, pairs) ==
  LET fits == {i \in DOMAIN pairs : MayBlock(p, pairs[i][1], pairs[i][2])}
  IN  {i \in fits : \A j \in fits : j < i => pairs[j][1] # pairs[i][1]}

Blocks(p, pairs) ==
  LET chosen == AtPositions(pairs, BlockPositions(p, pairs))
  IN  [i \in DOMAIN chosen |-> [blocker |-> chosen[i][1], attacker |-> chosen[i][2]]]

BlockersAmong(bs, a) ==
  LET mine == AtPositions(bs, {i \in DOMAIN bs : bs[i].attacker = a})
  IN  [i \in DOMAIN mine |-> mine[i].blocker]

\* set_blockers: the damage order starts as the order of declaration.
OrderFrom(bs) == [a \in {bs[i].attacker : i \in DOMAIN bs} |-> BlockersAmong(bs, a)]

is_blocked(a) == a \in DOMAIN damage_order

BlockersFor(a) == IF is_blocked(a) THEN damage_order[a] ELSE <<>>

-----------------------------------------------------------------------------
(* Damage.  What is dealt is a set of records; decl is the position of the *)
(* attacker's declaration, and 0 for a blocker.                            *)

Lethal(a, b) == IF Has(a, "Deathtouch") THEN 1
                ELSE Max({0, board[b].toughness - board[b].damage})

\* What is left of a's damage after the first j of its blockers.
Left(a, bs, j) ==
  LET left[k \in 0 .. j] ==
        IF k = 0 THEN board[a].power
        ELSE IF OnBoard(bs[k]) THEN Max({0, left[k - 1] - Lethal(a, bs[k])})
        ELSE left[k - 1]
  IN  left[j]

DefaultDamage(i, a, bs) ==
  {[decl |-> i, source |-> a, target |-> bs[j],
    amount |-> Min({Left(a, bs, j - 1), Lethal(a, bs[j])})] :
       j \in {k \in DOMAIN bs : OnBoard(bs[k]) /\ Left(a, bs, k - 1) > 0}}
  \cup
  {[decl |-> i, source |-> a, target |-> attackers[i].defender, amount |-> m] :
       m \in {Left(a, bs, Len(bs))} \cap {n \in 1 .. board[a].power : Has(a, "Trample")}}

CustomDamage(i, a, bs) ==
  {[decl |-> i, source |-> a, target |-> bs[j], amount |-> custom_damage[a].blockers[j]] :
       j \in {k \in DOMAIN bs \cap DOMAIN custom_damage[a].blockers :
                 custom_damage[a].blockers[k] > 0}}
  \cup
  {[decl |-> i, source |-> a, target |-> attackers[i].defender, amount |-> m] :
       m \in {custom_damage[a].player} \ {0}}

AttackerDamage(i) ==
  LET a == attackers[i].attacker
      bs == BlockersFor(a)
  IN  CASE bs = <<>> -> {[decl |-> i, source |-> a, target |-> attackers[i].defender,
                          amount |-> board[a].power]}
        [] bs # <<>> /\ a \in DOMAIN custom_damage -> CustomDamage(i, a, bs)
        [] OTHER -> DefaultDamage(i, a, bs)

BlockerDamage(b) == {[decl |-> 0, source |-> b.blocker, target |-> b.attacker,
                      amount |-> board[b.blocker].power]}

Fights(c, s) == OnBoard(c) /\ Strikes(c, s) /\ board[c].power > 0

resolve_combat_damage(s) ==
  (UNION {AttackerDamage(i) : i \in {k \in DOMAIN attackers : Fights(attackers[k].attacker, s)}})
  \cup
  (UNION {BlockerDamage(blockers[i]) : i \in {k \in DOMAIN blockers :
                                                Fights(blockers[k].blocker, s)}})

Amount(D) == SumFunction([d \in D |-> d.amount])

\* Where the damage arrives: on a creature that is still there and is not
\* protected from the source, or on a player.
Arrives(d) == \/ d.target \in Players
              \/ OnBoard(d.target) /\ <<d.source, d.target>> \notin Protected

\* deal_damage for every element of D.
Damaged(D) ==
  [c \in DOMAIN board |->
     LET hits == {d \in D : d.target = c /\ Arrives(d) /\ d.amount > 0}
     IN  [board[c] EXCEPT !.damage = @ + Amount(hits),
                          !.doomed = @ \/ \E d \in hits : Has(d.source, "Deathtouch")]]

LifeAfter(D) ==
  [p \in Players |->
     life[p] - Amount({d \in D : d.target = p})
             + Amount({d \in D : /\ Arrives(d)
                                 /\ Has(d.source, "Lifelink")
                                 /\ Controller[d.source] = p})]

-----------------------------------------------------------------------------
(* The phases *)

Init == /\ step = "BeginningOfCombat" /\ todo = Waiting
        /\ alive = Players /\ life = [p \in Players |-> Life]
        /\ \E cs \in SUBSET Creatures :
           \E sick \in SUBSET {c \in cs : Controller[c] = Active} :
              board = [c \in cs |-> [Fresh(c) EXCEPT !.sick = c \in sick]]
        /\ attackers = <<>> /\ blockers = <<>>
        /\ damage_order = <<>> /\ custom_damage = <<>>
        /\ dealt = [s \in DamageSteps |-> {}]
        /\ before = <<>> /\ effects = 0

\* A phase follows when the priority round of the one before is over and the
\* game is not decided.
Enter(old, new) == /\ step = old /\ InPriority
                   /\ Cardinality(alive) > 1
                   /\ step' = new

Pairs == BoundedSeq(Creatures \X Creatures, MaxPairs)

DeclareAttackers ==
  /\ Enter("BeginningOfCombat", "DeclareAttackers")
  /\ \E pairs \in BoundedSeq(Creatures \X Players, MaxPairs) :
        /\ attackers' = Attackers(pairs)
        /\ board' = Tapped({attackers'[i].attacker : i \in DOMAIN attackers'})
  /\ UNCHANGED <<todo, alive, life, blockers, damage_order, custom_damage,
                 dealt, before, effects>>

\* The active player is awaited in vain: wait_for_connected_player.
NoAttack ==
  /\ Enter("BeginningOfCombat", "DeclareAttackers")
  /\ \E c \in Creatures : MayAttack(c)
  /\ alive' = alive \ {Active}
  /\ UNCHANGED <<todo, life, board, combat, dealt, before, effects>>

BeginBlocks ==
  /\ Enter("DeclareAttackers", "DeclareBlockers")
  /\ todo' = IF attackers = <<>> THEN Waiting
             ELSE AtPositions(Seats, {i \in DOMAIN Seats : Seats[i] # Active})
  /\ UNCHANGED <<alive, life, board, combat, dealt, before, effects>>

Prompting(s) == step = s /\ todo # Waiting /\ todo # <<>>

AskedToBlock(p) == /\ p \in alive
                   /\ \E b \in DOMAIN board : Controller[b] = p /\ ~board[b].tapped

\* Blocks are added to those of earlier defenders.
SetBlockers(bs) == /\ blockers' = blockers \o bs
                   /\ damage_order' = OrderFrom(blockers')

DeclareBlockers ==
  /\ Prompting("DeclareBlockers")
  /\ todo' = Tail(todo)
  /\ \E pairs \in Pairs :
        LET bs == IF AskedToBlock(Head(todo)) THEN Blocks(Head(todo), pairs) ELSE <<>>
        IN  IF bs = <<>> THEN UNCHANGED <<blockers, damage_order>> ELSE SetBlockers(bs)
  /\ UNCHANGED <<step, alive, life, board, attackers, custom_damage, dealt, before, effects>>

\* The player prompted for is gone; the loop over the players, or over the
\* attackers to order, is left.
PromptedIsGone ==
  /\ \/ Prompting("DeclareBlockers") /\ AskedToBlock(Head(todo))
                                     /\ alive' = alive \ {Head(todo)}
     \/ Prompting("OrderBlockers") /\ alive' = alive \ {Active}
  /\ todo' = <<>>
  /\ UNCHANGED <<step, life, board, combat, dealt, before, effects>>

\* get_attackers_needing_blocker_order iterates over an unordered map.
BeginOrdering ==
  /\ step = "DeclareBlockers" /\ todo = <<>>
  /\ step' = "OrderBlockers"
  /\ todo' \in SetToSeqs({a \in DOMAIN damage_order : Len(damage_order[a]) >= 2})
  /\ UNCHANGED <<alive, life, board, combat, dealt, before, effects>>

SamePeople(s, t) == \E f \in Bijection(DOMAIN s, DOMAIN s) : t = [i \in DOMAIN s |-> s[f[i]]]

\* Anything but a permutation of the blockers leaves the order as it is.
AcceptsOrder(a, ids) == SamePeople(damage_order[a], ids)

OrderBlockers ==
  /\ Prompting("OrderBlockers")
  /\ todo' = Tail(todo)
  /\ \E ids \in TupleOf(DOMAIN board, Len(damage_order[Head(todo)])) :
        damage_order' = IF AcceptsOrder(Head(todo), ids)
                        THEN [damage_order EXCEPT ![Head(todo)] = ids]
                        ELSE damage_order
  /\ UNCHANGED <<step, alive, life, board, attackers, blockers, custom_damage,
                 dealt, before, effects>>

BlocksDone ==
  /\ step = "OrderBlockers" /\ todo = <<>>
  /\ step' = "DeclareBlockers" /\ todo' = Waiting
  /\ UNCHANGED <<alive, life, board, combat, dealt, before, effects>>

\* Faulty variant: the blockers are not looked at.
FirstStrikersAttack ==
  \E i \in DOMAIN attackers : OnBoard(attackers[i].attacker) /\ FirstStriker(attackers[i].attacker)

FirstStrikersFight ==
  \/ \E i \in DOMAIN attackers : OnBoard(attackers[i].attacker)
                                  /\ FirstStriker(attackers[i].attacker)
  \/ \E i \in DOMAIN blockers : OnBoard(blockers[i].blocker)
                                 /\ FirstStriker(blockers[i].blocker)

\* get_trample_attackers
Tramplers(s) ==
  LET as == [i \in DOMAIN attackers |-> attackers[i].attacker]
  IN  AtPositions(as, {i \in DOMAIN as : /\ OnBoard(as[i]) /\ Has(as[i], "Trample")
                                         /\ is_blocked(as[i]) /\ Strikes(as[i], s)})

BeginAssignments(s) == /\ custom_damage' = <<>>
                       /\ todo' = Tramplers(s)

BeginFirstStrike ==
  /\ Enter("DeclareBlockers", "FirstStrikeDamage")
  /\ before' = board
  /\ IF attackers # <<>> /\ FirstStrikersFight
     THEN BeginAssignments("FirstStrikeDamage")
     ELSE UNCHANGED <<todo, custom_damage>>
  /\ UNCHANGED <<alive, life, board, attackers, blockers, damage_order, dealt, effects>>

BeginDamage ==
  /\ Enter("FirstStrikeDamage", "CombatDamage")
  /\ IF attackers # <<>> THEN BeginAssignments("CombatDamage")
                         ELSE UNCHANGED <<todo, custom_damage>>
  /\ UNCHANGED <<alive, life, board, attackers, blockers, damage_order, dealt, before, effects>>

\* What prompt_trample_damage accepts: a part for each blocker, lethal where
\* the blocker is still there, and the rest for the player.
AcceptsParts(a, parts, rest) ==
  /\ board[a].power > 0
  /\ rest >= 0 /\ \A i \in DOMAIN parts : parts[i] >= 0
  /\ \A i \in DOMAIN parts :
        OnBoard(damage_order[a][i]) => parts[i] >= Lethal(a, damage_order[a][i])
  /\ rest + SumFunction(parts) = board[a].power

AssignDamage ==
  /\ Prompting("FirstStrikeDamage") \/ Prompting("CombatDamage")
  /\ todo' = Tail(todo)
  /\ LET a == Head(todo)
         amounts == 0 .. Max({0, board[a].power})
     IN  \E parts \in TupleOf(amounts, Len(damage_order[a])), rest \in amounts :
            custom_damage' =
              IF AcceptsParts(a, parts, rest)
              THEN With(custom_damage, a, [blockers |-> parts, player |-> rest])
              ELSE custom_damage
  /\ UNCHANGED <<step, alive, life, board, attackers, blockers, damage_order,
                 dealt, before, effects>>

\* The active player is awaited in vain; the damage is dealt all the same.
AssignerIsGone ==
  /\ Prompting("FirstStrikeDamage") \/ Prompting("CombatDamage")
  /\ board[Head(todo)].power > 0
  /\ todo' = Tail(todo)
  /\ alive' = alive \ {Active}
  /\ UNCHANGED <<step, life, board, combat, dealt, before, effects>>

DealDamage ==
  /\ step \in DamageSteps /\ todo = <<>>
  /\ LET D == resolve_combat_damage(step)
     IN  /\ dealt' = [dealt EXCEPT ![step] = D]
         /\ life' = LifeAfter(D)
         /\ board' = Survivors(Damaged(D))
  /\ alive' = {p \in alive : life'[p] > 0}
  /\ todo' = Waiting
  /\ UNCHANGED <<step, combat, before, effects>>

EndOfCombat ==
  /\ Enter("CombatDamage", "EndOfCombat")
  /\ EmptyCombat
  /\ UNCHANGED <<todo, alive, life, board, dealt, before, effects>>

-----------------------------------------------------------------------------
(* What the priority round of a phase may do to the battlefield. *)

Changed(c) ==
  {[board[c] EXCEPT !.power = @ + n, !.toughness = @ + n] : n \in {-1, 1}}
  \cup {[board[c] EXCEPT !.granted = @ \cup {k}] : k \in Given}
  \cup {[board[c] EXCEPT !.granted = @ \ {k}] : k \in Given}
  \cup {[board[c] EXCEPT !.tapped = ~@], [board[c] EXCEPT !.damage = @ + 1]}

\* An effect, and the state-based actions after it.
Effect ==
  /\ InPriority /\ step # "EndOfCombat" /\ effects < MaxEffects
  /\ Cardinality(alive) > 1
  /\ effects' = effects + 1
  /\ board' \in
       {Restrict(board, DOMAIN board \ {c}) : c \in DOMAIN board}
       \cup {With(board, c, Fresh(c)) : c \in Creatures \ DOMAIN board}
       \cup (UNION {{Survivors([board EXCEPT ![c] = new]) : new \in Changed(c)} :
                      c \in DOMAIN board})
  /\ UNCHANGED <<step, todo, alive, life, combat, dealt, before>>

\* Combat is over, or the game is.
Over == InPriority /\ (step = "EndOfCombat" \/ Cardinality(alive) <= 1)

Stop == Over /\ UNCHANGED vars

Next == \/ DeclareAttackers \/ NoAttack \/ BeginBlocks \/ DeclareBlockers
        \/ PromptedIsGone \/ BeginOrdering \/ OrderBlockers \/ BlocksDone
        \/ BeginFirstStrike \/ BeginDamage \/ AssignDamage \/ AssignerIsGone
        \/ DealDamage \/ EndOfCombat \/ Effect \/ Stop

Spec == Init /\ [][Next]_vars

-----------------------------------------------------------------------------
(* Properties *)

Perms == [power : Int, toughness : Int, damage : Nat, doomed : BOOLEAN,
          tapped : BOOLEAN, sick : BOOLEAN, granted : SUBSET Given]

\* TypeOK: the declarations name players and creatures, the damage order and
\* the assignments belong to declared attackers, and the battlefield holds
\* creatures with their own keywords.
TypeOK ==
  /\ step \in Steps
  /\ todo = Waiting \/ todo \in Seq(Creatures \cup Players)
  /\ alive \subseteq Players /\ life \in [Players -> Int]
  /\ DOMAIN board \subseteq Creatures
  /\ \A c \in DOMAIN board : board[c] \in Perms
  /\ attackers \in Seq([attacker : Creatures, defender : Players \ {Active}])
  /\ blockers \in Seq([blocker : Creatures, attacker : Creatures])
  /\ DOMAIN damage_order \cup DOMAIN custom_damage
       \subseteq {attackers[i].attacker : i \in DOMAIN attackers}
  /\ effects \in 0 .. MaxEffects

Resolves(s) == step = s /\ todo = <<>>

\* A creature without vigilance attacks once, however often the answer to the
\* prompt names it (Game::run_phase, DeclareAttackers: the check is made
\* again after each declaration has tapped its creature).
AttacksOnce ==
  [][\A i, j \in DOMAIN attackers' :
       LET a == attackers'[i].attacker
       IN  i # j /\ attackers'[j].attacker = a /\ attackers # attackers'
             => Has(a, "Vigilance")]_vars

\* The damage order always agrees with the blocks: it lists, for exactly the
\* attackers that were blocked, the creatures declared as their blockers in
\* some order, and no creature stands in it twice (set_blockers,
\* set_damage_order and the loops that check the answers).
OrderFitsBlocks ==
  /\ DOMAIN damage_order = {blockers[i].attacker : i \in DOMAIN blockers}
  /\ \A a \in DOMAIN damage_order : SamePeople(BlockersAmong(blockers, a), damage_order[a])
  /\ \A i, j \in DOMAIN blockers : blockers[i].blocker = blockers[j].blocker => i = j

\* An attacker that deals damage deals its power, no more, and all of it if
\* it is unblocked or tramples, whatever happened to it since the assignment
\* of an earlier step was chosen (resolve_combat_damage).
PowerIsSpent ==
  [][\A s \in DamageSteps : Resolves(s) =>
       \A i \in DOMAIN attackers :
         LET a == attackers[i].attacker
             mine == {d \in dealt'[s] : d.decl = i}
         IN  mine # {} =>
               /\ Amount(mine) <= board[a].power
               /\ ~is_blocked(a) \/ Has(a, "Trample") => Amount(mine) = board[a].power]_vars

\* A blocked attacker stays blocked: unless it tramples it deals no damage to
\* the player, even when all its blockers have left (resolve_combat_damage
\* looks at the damage order, not at the battlefield).
BlockedStaysBlocked ==
  [][\A s \in DamageSteps : Resolves(s) =>
       \A d \in dealt'[s] :
         d.decl > 0 /\ d.target \in Players /\ is_blocked(d.source) => Has(d.source, "Trample")]_vars

\* A trampling attacker damages the player only after assigning lethal damage
\* to every blocker that is still there, whether the assignment was chosen or
\* made by default (prompt_trample_damage, resolve_combat_damage).
LethalFirst ==
  [][\A s \in DamageSteps : Resolves(s) =>
       \A d \in dealt'[s] :
         d.decl > 0 /\ d.target \in Players =>
           \A b \in Range(BlockersFor(d.source)) \cap DOMAIN board :
             Amount({e \in dealt'[s] : e.decl = d.decl /\ e.target = b})
               >= Lethal(d.source, b)]_vars

\* A creature in combat that sees both damage steps with the same keywords
\* strikes in one of them, and in both exactly if it has double strike: the
\* decision to hold the first strike step and the two filters of
\* resolve_combat_damage fit together.  Blockers and unblocked attackers are
\* meant; a blocked one may have nobody left to strike.
EveryoneStrikes ==
  [][Resolves("CombatDamage") =>
       \A c \in DOMAIN board \cap DOMAIN before :
         LET strikes(s) == \E d \in dealt'[s] : d.source = c
             fighting == \/ \E i \in DOMAIN blockers : blockers[i].blocker = c
                         \/ /\ ~is_blocked(c)
                            /\ \E i \in DOMAIN attackers : attackers[i].attacker = c
         IN  /\ fighting /\ board[c].granted = before[c].granted
             /\ board[c].power > 0 /\ before[c].power > 0
             => /\ strikes("FirstStrikeDamage") \/ strikes("CombatDamage")
                /\ strikes("FirstStrikeDamage") /\ strikes("CombatDamage")
                     <=> Has(c, "Double Strike")]_vars

\* What is declared fits together, whatever the answers to the prompts were.
DeclarationsFit == []OrderFitsBlocks /\ AttacksOnce

\* The damage fits the declarations and the creatures that are left of them.
DamageFitsCombat ==
  PowerIsSpent /\ BlockedStaysBlocked /\ LethalFirst /\ EveryoneStrikes
=============================================================================
