-------------------------------- MODULE Board --------------------------------
(***************************************************************************)
(* The cards of a game and where they are: ZoneManager, what resolutions   *)
(* and card scripts do to it through GameContextImpl, triggers and delayed *)
(* triggers, and the state-based actions about permanents.                 *)
(*                                                                         *)
(* Everything happens on the game's thread, so there is no interleaving;   *)
(* what is hard is the nesting.  A resolution runs a script, a script      *)
(* kills a creature, its death fires delayed triggers that run scripts of  *)
(* their own, the state-based actions run the script of every creature     *)
(* they bury and then look at the board again.  The variable agenda is the *)
(* call stack of that thread: its head is what runs now, and players act   *)
(* only when it is empty.                                                  *)
(*                                                                         *)
(* A card is its instance id: it keeps it through every move, so what      *)
(* refers to a permanent by id (attachments, targets, delayed triggers)    *)
(* may find the card again as a new permanent.                             *)
(*                                                                         *)
(* Left out: mana and costs (a payment succeeds or fails), the order of    *)
(* cards in zones, lands, adventures, mulligans, triggers of phases and    *)
(* combat, what combat does (module Combat), the loss of players           *)
(* (GameTurn), and sizes of power and toughness: creatures are 1/1 and may *)
(* have one counter of each kind.  set_controller is never called, so a    *)
(* permanent's controller is its owner.                                    *)
(***************************************************************************)
EXTENDS Integers, FiniteSets, SequencesExt

CONSTANTS
  Players,
  Cards,          \* the cards of the decks and sideboards
  Tokens,         \* ids for tokens
  OwnerOf,        \* [Cards -> Players]
  Kind,           \* [Cards -> Kinds]
  InSideboard,    \* the cards that do not begin in a library
  LegendName,     \* [Cards -> names of legends, or None]
  Indestructible, \* cards with that keyword
  TriggersOf,     \* [Cards -> SUBSET Triggers]: the triggers with a script
  Delve,          \* cards with that keyword
  Flashback,      \* cards with a flashback cost
  Fast,           \* instants, and cards with Flash
  OpeningHand,    \* the cards in the players' hands at the start
  MaxCalls,       \* bound of the model: calls that all scripts make
  MaxStack,       \* bound of the model: entries on the stack before a cast
  MaxDelayed,     \* bound of delayed_triggers_ (1000 in the code)
  None

Ids == Cards \cup Tokens
Kinds == {"creature", "aura", "equipment", "sorcery"}
Triggers == {"enters", "another_enters", "dies", "another_dies", "ability"}
Places == {"Library", "Hand", "Graveyard", "Exile", "Sideboard"}

ASSUME BoardAssumption ==
  /\ Cards \cap Tokens = {} /\ None \notin Ids
  /\ OwnerOf \in [Cards -> Players] /\ Kind \in [Cards -> Kinds]
  /\ TriggersOf \in [Cards -> SUBSET Triggers]
  /\ InSideboard \subseteq Cards /\ OpeningHand \subseteq Cards \ InSideboard
  /\ IsFiniteSet(Ids)
  /\ MaxDelayed \in Nat /\ MaxCalls \in Nat

VARIABLES
  zm,       \* the ZoneManager, with the players' sideboards
  stack,    \* TheStack, the top last
  delayed,  \* delayed_triggers_
  agenda,   \* the calls the game's thread is in, the innermost first
  active,   \* the active player
  phase,    \* the steps of a turn that matter here
  calls,    \* the calls that scripts have made
  asked     \* FALSE from the delayed triggers of the end step until somebody acts

vars == <<zm, stack, delayed, agenda, active, phase, calls, asked>>

-----------------------------------------------------------------------------
(* ZoneManager.                                                             *)

\* A permanent that has just entered.
Fresh(p, token) ==
  [owner |-> p, token |-> token, damage |-> 0, plus |-> 0, minus |-> 0,
   attached |-> None, attachments |-> {}]

OnBattlefield(z) == DOMAIN z.board

\* add_to_graveyard, add_to_exile, draw_card's push: the list and the index.
Add(z, place, p, c) ==
  [z EXCEPT !.zones[place][p] = @ \cup {c}, !.index[c] = place]

\* get_hand(p).push_back(card), sideboard().push_back(card): the list alone.
PushBack(z, place, p, c) == [z EXCEPT !.zones[place][p] = @ \cup {c}]

\* Faulty variant: the card leaves the list but not the index.
RemoveFromList(z, place, p, c) == [z EXCEPT !.zones[place][p] = @ \ {c}]

\* remove_from_hand, remove_from_graveyard, remove_from_exile, remove_top.
RemoveFrom(z, place, p, c) ==
  [z EXCEPT !.zones[place][p] = @ \ {c}, !.index[c] = "Unknown"]

\* pop_back on the list, which leaves the index to what follows.
Pop(z, place, p, c) == [z EXCEPT !.zones[place][p] = @ \ {c}]

add_to_battlefield(z, c, p, token) ==
  [z EXCEPT !.board = [d \in DOMAIN @ \cup {c} |->
                         IF d \in DOMAIN @ THEN @[d] ELSE Fresh(p, token)],
            !.index[c] = "Battlefield"]

remove_from_battlefield(z, c) ==
  [z EXCEPT !.board = Restrict(@, DOMAIN @ \ {c}), !.index[c] = "Unknown"]

\* The owner find_card_owner knows, or else the player it concerns.
OwnerOr(c, p) == IF c \in Cards \ InSideboard THEN OwnerOf[c] ELSE p

\* destroy_permanent and sacrifice: to the graveyard, tokens included.
Bury(z, c) ==
  Add(remove_from_battlefield(z, c), "Graveyard", z.board[c].owner, c)

\* The state-based actions put the cards S into their owners' graveyards, and
\* tokens nowhere.
PutAway(z, S) ==
  LET buried == {c \in S : ~z.board[c].token} IN
  [zones |-> [z.zones EXCEPT !["Graveyard"] =
                [p \in Players |-> @[p] \cup {c \in buried : z.board[c].owner = p}]],
   index |-> [c \in Ids |-> CASE c \in buried -> "Graveyard"
                              [] c \in S \ buried -> "Unknown"
                              [] OTHER -> z.index[c]],
   board |-> Restrict(z.board, OnBattlefield(z) \ S)]

-----------------------------------------------------------------------------
(* What the cards say.                                                      *)

IsCreature(c) == IF c \in Tokens THEN TRUE ELSE Kind[c] = "creature"
IsLegend(c) == IF c \in Tokens THEN FALSE ELSE LegendName[c] # None
Has(c, trigger) == IF c \in Tokens THEN FALSE ELSE trigger \in TriggersOf[c]

effective_toughness(perm) == 1 + perm.plus - perm.minus

\* The creatures a pass of the state-based actions destroys.
Dying(z) ==
  {c \in OnBattlefield(z) :
     /\ IsCreature(c)
     /\ \/ effective_toughness(z.board[c]) <= 0
        \/ c \notin Indestructible /\ z.board[c].damage >= effective_toughness(z.board[c])}

Namesakes(z, c) ==
  {d \in OnBattlefield(z) : /\ IsLegend(d) /\ LegendName[d] = LegendName[c]
                            /\ z.board[d].owner = z.board[c].owner}

Legends(z) == {c \in OnBattlefield(z) : IsLegend(c)}

\* What the legend rule removes: of each group its controller keeps one.
LegendChoices(z) ==
  {out \in SUBSET Legends(z) : \A c \in Legends(z) :
     Cardinality(Namesakes(z, c) \ out) = 1}

\* Permanents attached to something that is gone.
Orphans(z) ==
  {c \in OnBattlefield(z) : /\ z.board[c].attached # None
                            /\ z.board[c].attached \notin OnBattlefield(z)}

IsEnchantment(c) == IF c \in Tokens THEN FALSE ELSE Kind[c] = "aura"

\* Equipment comes off, auras go to the graveyard.
PutOrphansAway(z) ==
  LET loose == {c \in Orphans(z) : ~IsEnchantment(c)} IN
  PutAway([z EXCEPT !.board = [c \in DOMAIN @ |->
             IF c \in loose THEN [@[c] EXCEPT !.attached = None] ELSE @[c]]],
          Orphans(z) \ loose)

\* A counter of each kind: they annihilate.
Cancelling(z) == {c \in OnBattlefield(z) : z.board[c].plus > 0 /\ z.board[c].minus > 0}

Annihilate(z) ==
  LET pairs(c) == IF z.board[c].plus < z.board[c].minus THEN z.board[c].plus
                  ELSE z.board[c].minus
  IN  [z EXCEPT !.board = [c \in DOMAIN @ |->
         IF c \in Cancelling(z)
         THEN [z.board[c] EXCEPT !.plus = @ - pairs(c), !.minus = @ - pairs(c)]
         ELSE z.board[c]]]

-----------------------------------------------------------------------------
(* The stack and the triggers.                                              *)

Spell(c, p, target, exiled) ==
  [spell |-> TRUE, card |-> c, owner |-> p, target |-> target, exiled |-> exiled]
Ability(c, p) ==
  [spell |-> FALSE, card |-> c, owner |-> p, target |-> None, exiled |-> FALSE]

\* The permanents of the players P with a script for the trigger.
Sources(z, trigger, P) ==
  {c \in OnBattlefield(z) : Has(c, trigger) /\ z.board[c].owner \in P}

Pushed(z, order) == [i \in DOMAIN order |-> Ability(order[i], z.board[order[i]].owner)]

\* The orders in which fire_triggers may push the triggers of one kind: the
\* active player's first, each player's in the order she chooses.
Batches(z, trigger) ==
  {Pushed(z, first \o second) :
     first \in SetToSeqs(Sources(z, trigger, {active})),
     second \in SetToSeqs(Sources(z, trigger, Players \ {active}))}

\* The calls that a task stands for.
Script(callback) == <<[task |-> "script", callback |-> callback]>>
Settle(c, p, place) == <<[task |-> "settle", card |-> c, owner |-> p, place |-> place]>>
Check == <<[task |-> "check"]>>
Deaths(dead) == <<[task |-> "deaths", dead |-> dead]>>
News(c) == <<[task |-> "news", card |-> c]>>

\* fire_delayed_triggers: which fire, and the callbacks they run.
Fires(d, event, source) == d.event = event /\ (d.source = None \/ d.source = source)

Remaining(event, source) ==
  LET kept[i \in 0 .. Len(delayed)] ==
        IF i = 0 THEN <<>>
        ELSE IF Fires(delayed[i], event, source) THEN kept[i - 1]
        ELSE Append(kept[i - 1], delayed[i])
  IN  kept[Len(delayed)]

Callbacks(event, source) ==
  [i \in 1 .. Len(delayed) - Len(Remaining(event, source)) |->
     [task |-> "script", callback |-> TRUE]]

-----------------------------------------------------------------------------
(* The beginning.                                                           *)

Init ==
  /\ zm = [zones |-> [place \in Places |-> [p \in Players |->
                       {c \in Cards : /\ OwnerOf[c] = p
                                      /\ place = CASE c \in InSideboard -> "Sideboard"
                                                   [] c \in OpeningHand -> "Hand"
                                                   [] OTHER -> "Library"}]],
           index |-> [c \in Ids |-> CASE c \in OpeningHand -> "Hand"
                                      [] c \in InSideboard \cup Tokens -> "Unknown"
                                      [] OTHER -> "Library"],
           board |-> <<>>]
  /\ stack = <<>> /\ delayed = <<>> /\ agenda = <<>>
  /\ active \in Players /\ phase = "main" /\ calls = 0 /\ asked = TRUE

-----------------------------------------------------------------------------
(* What players do, when nothing else runs.  Every action is followed by    *)
(* the state-based actions.                                                 *)

Idle == agenda = <<>>

SorcerySpeed(p) == p = active /\ phase = "main" /\ stack = <<>>

Acted == agenda' = Check /\ asked' = TRUE /\ UNCHANGED calls

\* The targets a client may send with a spell: any permanent.
Targets == OnBattlefield(zm) \cup {None}

\* What Delve takes from the graveyard into exile, also when the spell cannot
\* be paid for afterwards.
Delved(z, p, c) ==
  {[z EXCEPT !.zones["Graveyard"][p] = @ \ S, !.zones["Exile"][p] = @ \cup S,
             !.index = [d \in Ids |-> IF d \in S THEN "Exile" ELSE @[d]]] :
     S \in IF c \in Delve THEN SUBSET z.zones["Graveyard"][p] ELSE {{}}}

PlayCard(p, c) ==
  /\ Idle /\ Len(stack) < MaxStack
  /\ c \in zm.zones["Hand"][p]
  /\ c \in Fast \/ SorcerySpeed(p)
  /\ zm' \in Delved(RemoveFrom(zm, "Hand", p, c), p, c)
  /\ \E t \in Targets : stack' = Append(stack, Spell(c, p, t, FALSE))
  /\ Acted
  /\ UNCHANGED <<delayed, active, phase>>

\* At an illegal time, or not paid: back into the hand.  A failed swap with
\* the sideboard does the same.
PlayCardFails(p, c) ==
  /\ Idle
  /\ c \in zm.zones["Hand"][p]
  /\ \E z \in Delved(RemoveFrom(zm, "Hand", p, c), p, c) :
       zm' = PushBack(z, "Hand", p, c)
  /\ Acted
  /\ UNCHANGED <<stack, delayed, active, phase>>

\* The stack entry says that the card goes to exile; nothing checks when a
\* sorcery is cast this way.  When it cannot be paid for, nothing changes.
PlayFlashback(p, c) ==
  /\ Idle /\ Len(stack) < MaxStack
  /\ c \in zm.zones["Graveyard"][p] \cap Flashback
  /\ zm' = RemoveFrom(zm, "Graveyard", p, c)
  /\ \E t \in Targets : stack' = Append(stack, Spell(c, p, t, TRUE))
  /\ Acted
  /\ UNCHANGED <<delayed, active, phase>>

\* Targets of an ability only decide whether it fizzles, and then it does what
\* a script does that ends at once.
ActivateAbility(p, c) ==
  /\ Idle /\ Len(stack) < MaxStack
  /\ c \in OnBattlefield(zm) /\ zm.board[c].owner = p /\ Has(c, "ability")
  /\ stack' = Append(stack, Ability(c, p))
  /\ Acted
  /\ UNCHANGED <<zm, delayed, active, phase>>

\* A card of the hand for one of the sideboard, whenever the player likes.
SideboardSwap(p, out, in) ==
  /\ Idle
  /\ out \in zm.zones["Hand"][p] /\ in \in zm.zones["Sideboard"][p]
  /\ zm' = LET taken == Pop(RemoveFrom(zm, "Hand", p, out), "Sideboard", p, in)
           IN  PushBack(PushBack(taken, "Sideboard", p, out), "Hand", p, in)
  /\ Acted
  /\ UNCHANGED <<stack, delayed, active, phase>>

-----------------------------------------------------------------------------
(* Resolving the top of the stack.                                          *)

Top == stack[Len(stack)]
Rest == SubSeq(stack, 1, Len(stack) - 1)

TargetGone(entry) == entry.target # None /\ entry.target \notin OnBattlefield(zm)

\* Every target is gone: the card goes to the graveyard, flashback or not.
Fizzle ==
  /\ Idle /\ stack # <<>> /\ TargetGone(Top)
  /\ stack' = Rest
  /\ zm' = Add(zm, "Graveyard", Top.owner, Top.card)
  /\ Acted
  /\ UNCHANGED <<delayed, active, phase>>

\* The permanent e leaves what it was attached to, if that is still there, for t.
AttachedTo(board, e, t) ==
  [c \in DOMAIN board |->
     [board[c] EXCEPT
        !.attached = IF c = e THEN t ELSE @,
        !.attachments = CASE c = t -> @ \cup {e}
                          [] c # t /\ c = board[e].attached -> @ \ {e}
                          [] OTHER -> @]]

\* An enchantment with a target enters attached to it.
Entered(entry) ==
  LET z == add_to_battlefield(zm, entry.card, OwnerOr(entry.card, entry.owner), FALSE)
  IN  IF IsEnchantment(entry.card) /\ entry.target # None
      THEN [z EXCEPT !.board = AttachedTo(@, entry.card, entry.target)] ELSE z

\* A permanent enters; its own trigger goes on the stack, then the others'.
ResolvePermanent ==
  /\ Idle /\ stack # <<>> /\ Top.spell /\ ~TargetGone(Top)
  /\ IF Top.card \in Tokens THEN TRUE ELSE Kind[Top.card] # "sorcery"
  /\ zm' = Entered(Top)
  /\ LET own == IF Has(Top.card, "enters") THEN <<Ability(Top.card, Top.owner)>> ELSE <<>>
     IN  \E batch \in IF IsCreature(Top.card) THEN Batches(zm', "another_enters") ELSE {<<>>} :
           stack' = Rest \o own \o batch
  /\ Acted
  /\ UNCHANGED <<delayed, active, phase>>

\* A sorcery runs its script and is put away afterwards.
ResolveSorcery ==
  /\ Idle /\ stack # <<>> /\ Top.spell /\ ~TargetGone(Top)
  /\ Top.card \in Cards /\ Kind[Top.card] = "sorcery"
  /\ stack' = Rest
  /\ agenda' = Script(FALSE)
                 \o Settle(Top.card, Top.owner, IF Top.exiled THEN "Exile" ELSE "Graveyard")
                 \o Check
  /\ asked' = TRUE
  /\ UNCHANGED <<zm, delayed, active, phase, calls>>

ResolveAbility ==
  /\ Idle /\ stack # <<>> /\ ~Top.spell
  /\ stack' = Rest
  /\ agenda' = Script(FALSE) \o Check
  /\ asked' = TRUE
  /\ UNCHANGED <<zm, delayed, active, phase, calls>>

-----------------------------------------------------------------------------
(* The calls of a script.  A script may make any call the bindings offer,   *)
(* with any ids, as often as it likes: MaxCalls bounds the model.  scry and *)
(* search_library put back what they take; fight is damage twice.           *)

Now == Head(agenda)

Running(task) == IF Idle THEN FALSE ELSE Now.task = task

\* The script makes one more call, which leads to the tasks inner.
Calls(inner) ==
  /\ Running("script") /\ calls < MaxCalls
  /\ calls' = calls + 1
  /\ agenda' = inner \o agenda
  /\ UNCHANGED <<active, phase, asked>>

OnlyMoves == Calls(<<>>) /\ UNCHANGED <<stack, delayed>>

draw_cards(p) ==
  /\ OnlyMoves
  /\ \E c \in zm.zones["Library"][p] :
       zm' = Add(Pop(zm, "Library", p, c), "Hand", p, c)

discard_cards(p) ==
  /\ OnlyMoves
  /\ \E c \in zm.zones["Hand"][p] :
       zm' = Add(Pop(zm, "Hand", p, c), "Graveyard", p, c)

\* mill, and surveil for what it does not leave on top.
mill(p) ==
  /\ OnlyMoves
  /\ \E c \in zm.zones["Library"][p] :
       zm' = Add(RemoveFrom(zm, "Library", p, c), "Graveyard", p, c)

\* The permanent enters without any trigger.
search_library_to_battlefield(p) ==
  /\ OnlyMoves
  /\ \E c \in zm.zones["Library"][p] :
       zm' = add_to_battlefield(RemoveFrom(zm, "Library", p, c), c, p, FALSE)

return_from_graveyard(p) ==
  /\ OnlyMoves
  /\ \E c \in zm.zones["Graveyard"][p] :
       zm' = PushBack(RemoveFrom(zm, "Graveyard", p, c), "Hand", p, c)

\* From the battlefield, tokens too, from a graveyard or from exile, to the
\* owner's hand; the index is not told.
return_to_hand(c) ==
  /\ OnlyMoves
  /\ \/ /\ c \in OnBattlefield(zm)
        /\ zm' = PushBack(remove_from_battlefield(zm, c), "Hand", zm.board[c].owner, c)
     \/ \E p \in Players, place \in {"Graveyard", "Exile"} :
          /\ c \in zm.zones[place][p]
          /\ zm' = PushBack(RemoveFrom(zm, place, p, c), "Hand",
                            IF place = "Exile" THEN p ELSE OwnerOr(c, p), c)

exile_card(c) ==
  /\ OnlyMoves
  /\ \/ /\ c \in OnBattlefield(zm)
        /\ LET gone == remove_from_battlefield(zm, c)
           IN  zm' = IF zm.board[c].token THEN gone
                     ELSE Add(gone, "Exile", zm.board[c].owner, c)
     \/ \E p \in Players, place \in {"Graveyard", "Hand"} :
          /\ c \in zm.zones[place][p]
          /\ zm' = Add(RemoveFrom(zm, place, p, c), "Exile", OwnerOr(c, p), c)

\* destroy_permanent and sacrifice.  fire_death_triggers comes right after;
\* the trigger of the creature itself is not among them.  A callback that
\* kills would change the vector fire_delayed_triggers is iterating over,
\* which is undefined behaviour and not modelled.
Kill(c) ==
  /\ c \in OnBattlefield(zm) /\ ~Now.callback
  /\ zm' = Bury(zm, c)

destroy_permanent(c) ==
  /\ Calls(IF IsCreature(c) THEN News(c) ELSE <<>>)
  /\ c \notin Indestructible
  /\ Kill(c)
  /\ UNCHANGED <<stack, delayed>>

sacrifice(c) ==
  /\ Calls(IF IsCreature(c) THEN News(c) ELSE <<>>)
  /\ Kill(c)
  /\ UNCHANGED <<stack, delayed>>

\* One point of damage to a creature that has none.
deal_damage(c) ==
  /\ OnlyMoves
  /\ c \in OnBattlefield(zm) /\ IsCreature(c) /\ zm.board[c].damage = 0
  /\ zm' = [zm EXCEPT !.board[c].damage = 1]

\* add_counter and blight; at most one counter of each kind.
add_counter(c) ==
  /\ OnlyMoves
  /\ c \in OnBattlefield(zm) /\ IsCreature(c)
  /\ \/ zm.board[c].plus = 0 /\ zm' = [zm EXCEPT !.board[c].plus = 1]
     \/ zm.board[c].minus = 0 /\ zm' = [zm EXCEPT !.board[c].minus = 1]

\* A token under the active player's control.  Its id is a new one: no place
\* and no permanent mentions it.
Mentioned(t) ==
  \/ t \in OnBattlefield(zm)
  \/ \E place \in Places, p \in Players : t \in zm.zones[place][p]
  \/ \E c \in OnBattlefield(zm) : zm.board[c].attached = t \/ t \in zm.board[c].attachments
  \/ \E i \in DOMAIN stack : t \in {stack[i].card, stack[i].target}
  \/ \E i \in DOMAIN delayed : delayed[i].source = t
  \/ \E i \in DOMAIN agenda : /\ agenda[i].task \in {"deaths", "news"}
                              /\ IF agenda[i].task = "news" THEN agenda[i].card = t
                                 ELSE t \in Range(agenda[i].dead)

create_token(t) ==
  /\ OnlyMoves
  /\ ~Mentioned(t)
  /\ zm' = add_to_battlefield(zm, t, active, TRUE)

\* Equipment leaves what it was attached to.
attach(e, t) ==
  /\ OnlyMoves
  /\ {e, t} \subseteq OnBattlefield(zm)
  /\ e \in Cards /\ Kind[e] = "equipment" /\ IsCreature(t)
  /\ zm' = [zm EXCEPT !.board = AttachedTo(@, e, t)]

counter_spell(i) ==
  /\ Calls(<<>>)
  /\ i \in DOMAIN stack
  /\ stack' = RemoveAt(stack, i)
  /\ zm' = IF stack[i].spell THEN Add(zm, "Graveyard", stack[i].owner, stack[i].card) ELSE zm
  /\ UNCHANGED delayed

\* Faulty variant: one more than the limit.
register_one_more(source, event) ==
  /\ Calls(<<>>)
  /\ ~Now.callback
  /\ delayed' = IF Len(delayed) <= MaxDelayed
                THEN Append(delayed, [event |-> event, source |-> source])
                ELSE delayed
  /\ UNCHANGED <<zm, stack>>

\* A callback does not register another trigger (see Kill).
register_delayed_trigger(source, event) ==
  /\ Calls(<<>>)
  /\ ~Now.callback
  /\ delayed' = IF Len(delayed) < MaxDelayed
                THEN Append(delayed, [event |-> event, source |-> source])
                ELSE delayed
  /\ UNCHANGED <<zm, stack>>

ScriptEnds ==
  /\ Running("script")
  /\ agenda' = Tail(agenda)
  /\ UNCHANGED <<zm, stack, delayed, active, phase, calls, asked>>

\* After the script of a sorcery: its card is put away.
SettleSpell ==
  /\ Running("settle")
  /\ zm' = Add(zm, Now.place, Now.owner, Now.card)
  /\ agenda' = Tail(agenda)
  /\ UNCHANGED <<stack, delayed, active, phase, calls, asked>>

-----------------------------------------------------------------------------
(* check_state_based_actions: passes until one finds nothing to do.         *)

\* The creatures that must die leave together; the active player's first, in
\* the order of an unordered map otherwise.
StartPass ==
  /\ Running("check") /\ Dying(zm) # {}
  /\ zm' = PutAway(zm, Dying(zm))
  /\ LET Of(P) == {c \in Dying(zm) : zm.board[c].owner \in P}
     IN  \E first \in SetToSeqs(Of({active})), second \in SetToSeqs(Of(Players \ {active})) :
           agenda' = Deaths(first \o second) \o Tail(agenda)
  /\ UNCHANGED <<stack, delayed, active, phase, calls, asked>>

\* The script of its own on_death runs at once, not from the stack.
NextDeath ==
  /\ Running("deaths") /\ Now.dead # <<>>
  /\ LET c == Head(Now.dead)
     IN  agenda' = (IF Has(c, "dies") THEN Script(FALSE) ELSE <<>>) \o News(c)
                     \o Deaths(Tail(Now.dead)) \o Tail(agenda)
  /\ UNCHANGED <<zm, stack, delayed, active, phase, calls, asked>>

\* fire_triggers(OnAnotherCreatureDies) and fire_delayed_triggers("on_death").
TellOfDeath ==
  /\ Running("news")
  /\ \E batch \in Batches(zm, "another_dies") : stack' = stack \o batch
  /\ delayed' = Remaining("on_death", Now.card)
  /\ agenda' = Callbacks("on_death", Now.card) \o Tail(agenda)
  /\ UNCHANGED <<zm, active, phase, calls, asked>>

\* Faulty variant: check_and_apply is called once.
FinishOnlyPass(applied) ==
  /\ IF applied THEN Running("deaths") /\ Now.dead = <<>>
                ELSE Running("check") /\ Dying(zm) = {}
  /\ \E out \in LegendChoices(zm) :
       /\ zm' = Annihilate(PutOrphansAway(PutAway(zm, out)))
       /\ agenda' = Tail(agenda)
  /\ UNCHANGED <<stack, delayed, active, phase, calls, asked>>

\* The rest of a pass: legends, what has come loose, counters.  Nobody is told
\* of a creature that the legend rule puts away.
FinishPass(applied) ==
  /\ IF applied THEN Running("deaths") /\ Now.dead = <<>>
                ELSE Running("check") /\ Dying(zm) = {}
  /\ \E out \in LegendChoices(zm) :
       LET one == PutAway(zm, out)
           two == PutOrphansAway(one)
           again == \/ applied \/ out # {}
                    \/ Orphans(one) # {} \/ Cancelling(two) # {}
       IN  /\ zm' = Annihilate(two)
           /\ agenda' = (IF again THEN Check ELSE <<>>) \o Tail(agenda)
  /\ UNCHANGED <<stack, delayed, active, phase, calls, asked>>

-----------------------------------------------------------------------------
(* The turn.                                                                *)

\* The delayed triggers for the end of turn are fired with the source 0; the
\* first player is asked before the state-based actions are checked.
EndStep ==
  /\ Idle /\ stack = <<>> /\ phase = "main"
  /\ phase' = "end"
  /\ delayed' = Remaining("on_end_of_turn", None)
  /\ agenda' = Callbacks("on_end_of_turn", None)
  /\ asked' = FALSE
  /\ UNCHANGED <<zm, stack, active, calls>>

\* The first answer of the end step is a pass.
FirstPass ==
  /\ Idle /\ ~asked
  /\ Acted
  /\ UNCHANGED <<zm, stack, delayed, active, phase>>

\* Damage wears off; the next player begins her turn and draws.
Drawn(z, p) ==
  IF z.zones["Library"][p] = {} THEN {z}
  ELSE {Add(Pop(z, "Library", p, c), "Hand", p, c) : c \in z.zones["Library"][p]}

Healed(z) == [z EXCEPT !.board = [c \in DOMAIN @ |-> [@[c] EXCEPT !.damage = 0]]]

CleanupStep ==
  /\ Idle /\ stack = <<>> /\ phase = "end" /\ asked
  /\ active' \in Players \ {active}
  /\ zm' \in Drawn(Healed(zm), active')
  /\ agenda' = Check
  /\ phase' = "main"
  /\ UNCHANGED <<stack, delayed, calls, asked>>

-----------------------------------------------------------------------------
Act ==
  \/ \E p \in Players, c \in Ids :
       \/ PlayCard(p, c)
       \/ PlayCardFails(p, c)
       \/ PlayFlashback(p, c)
       \/ ActivateAbility(p, c)
       \/ \E in \in Ids : SideboardSwap(p, c, in)
  \/ Fizzle \/ ResolvePermanent \/ ResolveSorcery \/ ResolveAbility
  \/ EndStep \/ FirstPass \/ CleanupStep

ScriptCall ==
  \/ \E p \in Players :
       \/ draw_cards(p) \/ discard_cards(p) \/ mill(p)
       \/ search_library_to_battlefield(p) \/ return_from_graveyard(p)
  \/ \E c \in Ids :
       \/ return_to_hand(c) \/ exile_card(c) \/ destroy_permanent(c) \/ sacrifice(c)
       \/ deal_damage(c) \/ add_counter(c)
       \/ \E t \in Ids : attach(c, t)
  \/ \E t \in Tokens : create_token(t)
  \/ \E i \in DOMAIN stack : counter_spell(i)
  \/ \E source \in {c \in OnBattlefield(zm) : IsCreature(c)} \cup {None},
        event \in {"on_death", "on_end_of_turn"} :
       register_delayed_trigger(source, event)

Thread ==
  \/ ScriptCall \/ ScriptEnds \/ SettleSpell
  \/ StartPass \/ NextDeath \/ TellOfDeath \/ \E applied \in BOOLEAN : FinishPass(applied)

Next == Act \/ Thread

Spec == Init /\ [][Next]_vars

-----------------------------------------------------------------------------
(* Properties.                                                              *)

Permanents ==
  [owner : Players, token : BOOLEAN, damage : 0 .. 1, plus : 0 .. 1, minus : 0 .. 1,
   attached : Ids \cup {None}, attachments : SUBSET Ids]

Entries ==
  [spell : BOOLEAN, card : Ids, owner : Players, target : Ids \cup {None}, exiled : BOOLEAN]

DelayedTriggers ==
  [event : {"on_death", "on_end_of_turn"}, source : Ids \cup {None}]

Tasks ==
  [task : {"script"}, callback : BOOLEAN]
    \cup [task : {"settle"}, card : Cards, owner : Players, place : {"Graveyard", "Exile"}]
    \cup [task : {"check"}] \cup [task : {"news"}, card : Ids]
    \cup [task : {"deaths"}, dead : Seq(Ids)]

\* The types.  The damage, the counters and delayed_triggers_ stay within
\* their bounds, and what is on the call stack is one of the known calls.
TypeOK ==
  /\ zm.zones \in [Places -> [Players -> SUBSET Ids]]
  /\ zm.index \in [Ids -> (Places \ {"Sideboard"}) \cup {"Battlefield", "Unknown"}]
  /\ OnBattlefield(zm) \subseteq Ids
  /\ \A c \in OnBattlefield(zm) : zm.board[c] \in Permanents
  /\ stack \in Seq(Entries) /\ delayed \in Seq(DelayedTriggers) /\ Len(delayed) <= MaxDelayed
  /\ agenda \in Seq(Tasks)
  /\ active \in Players /\ phase \in {"main", "end"} /\ asked \in BOOLEAN
  /\ calls \in 0 .. MaxCalls

\* The places where a card is, each with the player it is there for.
Whereabouts(c) ==
  {w \in Places \X Players : c \in zm.zones[w[1]][w[2]]}
    \cup {<<"Battlefield", p>> : p \in {zm.board[d].owner : d \in OnBattlefield(zm) \cap {c}}}
    \cup {<<"Stack", i>> : i \in {j \in DOMAIN stack : stack[j].spell /\ stack[j].card = c}}
    \cup {<<"Resolving", i>> : i \in {j \in DOMAIN agenda :
           IF agenda[j].task = "settle" THEN agenda[j].card = c ELSE FALSE}}

\* No card is lost or duplicated by any sequence of casts, failed casts,
\* swaps, scripts and state-based actions: ZoneManager's lists, the stack and
\* the spell being resolved hold each card exactly once (a token at most
\* once), and a player's zones and permanents are cards of her own
\* (the moves of game_context_impl.cpp, game.cpp:1140-1640 and 1753-1965).
CardsKept ==
  /\ \A c \in Ids : Cardinality(Whereabouts(c)) <= 1
  /\ \A c \in Cards : /\ Whereabouts(c) # {}
                      /\ \A w \in Whereabouts(c) :
                           w[1] \in Places \cup {"Battlefield"} => w[2] = OwnerOf[c]

\* find_card_zone is never wrong, and outside of hands it is never ignorant:
\* many moves change a list without the index and rely on what comes before or
\* after to keep the two together (zone_manager.cpp, game_context_impl.cpp:370).
IndexSound ==
  \A c \in Ids :
    /\ zm.index[c] = "Battlefield" <=> c \in OnBattlefield(zm)
    /\ \A place \in {"Library", "Graveyard", "Exile"} :
         zm.index[c] = place <=> \E p \in Players : c \in zm.zones[place][p]
    /\ zm.index[c] = "Hand" => \E p \in Players : c \in zm.zones["Hand"][p]

\* Whenever a player is asked for an action, but for the first question of the
\* end step, the state-based actions have nothing left to do, whatever the
\* scripts of dying creatures did in the middle of a pass: no creature that
\* must die, no two legends, nothing attached to a permanent that is gone
\* (game.cpp:2209-2240, state_based_actions.cpp:14).
StableWhenAsked ==
  Idle /\ asked =>
    /\ Dying(zm) = {} /\ Orphans(zm) = {} /\ Cancelling(zm) = {}
    /\ \A c \in Legends(zm) : Namesakes(zm, c) = {c}

\* What a permanent is attached to lists it among its attachments, although
\* either may leave and come back under the same id, with its lists empty
\* (Permanent::attached_to_ and attachments_, state_based_actions.cpp:197).
AttachmentsAgree ==
  Idle /\ asked =>
    \A c \in OnBattlefield(zm) :
      zm.board[c].attached \in OnBattlefield(zm) =>
        c \in zm.board[zm.board[c].attached].attachments

\* Every card is in one place, and the index says in which.
ZonesSound == CardsKept /\ IndexSound

\* Nothing is left to do, or left half done, when a player is asked.
SettledWhenAsked == StableWhenAsked /\ AttachmentsAgree
=============================================================================
