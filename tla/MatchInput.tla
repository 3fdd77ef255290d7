----------------------------- MODULE MatchInput -----------------------------
(***************************************************************************)
(* How the client's match scene turns what the player does into answers to *)
(* the server's prompts.  One pass of Scenes::Match is a frame: it passes  *)
(* on a key press under the prompt it has, then takes in the events that   *)
(* came (each prompt replaces the one before), draws the board with the    *)
(* selection of the prompt it drew last, handles a drag or a clicked       *)
(* target, loads the selection of a new prompt, and draws its buttons.     *)
(*                                                                         *)
(* An answer carries the id of the prompt that is there when it is sent,   *)
(* which need not be the prompt the selection was made for.  The prompts   *)
(* the server asks are a constant; when it asks is left open, since it may *)
(* give up on a prompt at any time, and a state stream may deliver an old  *)
(* prompt again (ClientView says when).  Local games and the buttons that  *)
(* answer no prompt (concede, draw, auto-pass) are not modelled.           *)
(***************************************************************************)
EXTENDS Integers, Sequences, FiniteSets, SequencesExt, FiniteSetsExt, Functions

CONSTANTS Mine, Theirs,   \* the permanents on the two sides of the board
          Hand, Lands,    \* the cards in the player's hand, and its lands
          Offers,         \* the prompts that the server may ask
          MaxPrompts,     \* bound of the model: prompts asked
          MaxReplays,     \* bound of the model: prompts delivered again
          Nothing         \* the id 0, of no card, permanent or target

\* The contents of Game::Action_Prompt, one set per alternative.
Prompts(kind) ==
  CASE kind = "priority" -> [kind : {kind}, castable : SUBSET Hand,
                             canLand : BOOLEAN, activatable : SUBSET Mine]
    [] kind = "yes_no" -> [kind : {kind}]
    [] kind = "attackers" -> [kind : {kind}, eligible : SUBSET Mine]
    [] kind = "blockers" -> [kind : {kind}, eligible : SUBSET Mine,
                             attackers : SUBSET Theirs]
    [] kind = "order" -> [kind : {kind}, blockers : SUBSET Theirs]
    [] kind = "damage" -> [kind : {kind}, blockers : Nat, total : Nat]
    [] kind = "target" -> [kind : {kind}, legal : SUBSET (Mine \union Theirs)]
    [] kind = "discard" -> [kind : {kind}, hand : SUBSET Hand, count : Nat]
    [] kind = "modes" -> [kind : {kind}, modes : Nat, least : Nat, most : Nat]
    [] kind = "choice" -> [kind : {kind}, options : Nat]
    [] kind = "pay" -> [kind : {kind}]
    [] OTHER -> {}

ASSUME LandsInHand == Lands \subseteq Hand
ASSUME OffersArePrompts == \A p \in Offers : p \in Prompts(p.kind)
ASSUME PromptsAreBounded == MaxPrompts \in Nat
ASSUME MineAreFinite == IsFiniteSet(Mine)
ASSUME NothingIsNoId == Nothing \notin Mine \union Theirs \union Hand

VARIABLES
  at,        \* what the frame does next
  mouse,     \* whether this frame's release of the left button is still to be used
  asked,     \* the prompts so far; the index is the id
  shown,     \* pending_prompt_: the id, or 0
  loaded,    \* last_prompt_id: the prompt the selection belongs to
  combat_ui, \* Combat_UI_State
  picks,     \* the target, damage, discards and modes picked in the panel
  drag,      \* Pending_Drag_Play and Pending_Drag_Activate
  marks,     \* creatures flagged as attacking, permanents already activated
  sent,      \* the last answer written, and the id it carries
  history    \* how often each id was answered and delivered again

inputs ==
  <<at, mouse, asked, shown, loaded, combat_ui, picks, drag, marks, sent, history>>

\* Combat_UI_State::Clear.
NoCombat == [mode |-> "none", eligible |-> {}, chosen |-> <<>>, blocks |-> <<>>,
             blocker |-> Nothing, legal |-> {}, clicked |-> Nothing]

NoPicks == [target |-> Nothing, split |-> <<>>, discards |-> <<>>, modes |-> <<>>]

NoDrag == [play |-> Nothing, activate |-> Nothing]

InputInit ==
  /\ at = "keys" /\ mouse = TRUE
  /\ asked = <<>> /\ shown = 0 /\ loaded = 0
  /\ combat_ui = NoCombat /\ picks = NoPicks /\ drag = NoDrag
  /\ marks = [attacking |-> {}, activated |-> {}]
  /\ sent = [id |-> 0]
  /\ history = [answers |-> [i \in 1..MaxPrompts |-> 0],
                replays |-> [i \in 1..MaxPrompts |-> 0]]

prompt == asked[shown]

Showing(kind) == shown # 0 /\ prompt.kind = kind

-----------------------------------------------------------------------------
(* Sending *)

\* Faulty variant: a prompt stays after its answer.
KeepPrompt == shown

\* Send_And_Clear clears the prompt of an answer that was written.
Clear == 0

\* The answer was written, and goes out under the prompt that is there.
Written(act) ==
  /\ sent' = [id |-> shown, act |-> act]
  /\ history' = [history EXCEPT !.answers[shown] = @ + 1]
  /\ shown' = Clear

\* The stream is gone, or the write fails: the prompt stays.
NotWritten == UNCHANGED <<sent, history, shown>>

\* Sends an answer; only a written one ends the selection.
Sends(act, combatThen, picksThen) ==
  \/ Written(act) /\ combat_ui' = combatThen /\ picks' = picksThen
  \/ NotWritten /\ UNCHANGED <<combat_ui, picks>>

-----------------------------------------------------------------------------
(* Keys and events *)

\* Space or Return passes, under the prompt of the last frame.
PassKey ==
  /\ at = "keys" /\ Showing("priority")
  /\ Sends([kind |-> "pass"], combat_ui, picks)
  /\ UNCHANGED <<at, mouse, asked, loaded, drag, marks>>

Polls == at \in {"keys", "poll"} /\ at' = "poll"

Replayed == \E i \in DOMAIN asked : history.replays[i] > 0

\* A new prompt takes the place of the one before.  Between two combats the
\* client hears of a phase, so only attackers of this combat are flagged, and
\* those of an old prompt that was delivered again.
Asked(p) ==
  /\ Polls /\ Len(asked) < MaxPrompts
  /\ p.kind = "blockers" /\ ~Replayed => marks.attacking \subseteq p.attackers
  /\ asked' = Append(asked, p) /\ shown' = Len(asked')
  /\ UNCHANGED <<mouse, loaded, combat_ui, picks, drag, marks, sent, history>>

\* A state stream delivers a prompt again, answered or not.
Redelivered(i) ==
  /\ Polls /\ FoldFunction(+, 0, history.replays) < MaxReplays
  /\ shown' = i /\ history' = [history EXCEPT !.replays[i] = @ + 1]
  /\ UNCHANGED <<mouse, asked, loaded, combat_ui, picks, drag, marks, sent>>

\* A new phase forgets what was activated; those after a combat also forget
\* who attacked.
PhaseChanged(fought) ==
  /\ Polls /\ marks # [attacking |-> {}, activated |-> {}]
  /\ marks' = [attacking |-> IF fought THEN {} ELSE marks.attacking, activated |-> {}]
  /\ UNCHANGED <<mouse, asked, shown, loaded, combat_ui, picks, drag, sent, history>>

Polled ==
  /\ at \in {"keys", "poll"} /\ at' = "board"
  /\ UNCHANGED <<mouse, asked, shown, loaded, combat_ui, picks, drag, marks, sent, history>>

-----------------------------------------------------------------------------
(* The board, drawn with the selection of the prompt that was loaded last *)

Drawn == at = "board" /\ at' = "drag"

\* s without its elements in gone.
Without(s, gone) ==
  LET kept[i \in 0 .. Len(s)] ==
        IF i = 0 THEN <<>>
        ELSE IF s[i] \in gone THEN kept[i - 1] ELSE Append(kept[i - 1], s[i])
  IN  kept[Len(s)]

MayChoose(c) == c \in combat_ui.eligible \/ c \in Range(combat_ui.chosen)

\* Faulty variant: a release always adds the creature.
ChooseAgain(c, dropped) == [combat_ui EXCEPT !.chosen = Append(@, c)]

\* A release chooses the creature or takes it back.  Over a zone that takes
\* drops, as the battlefield itself does once the button was held for a frame,
\* the release is also a drop, which adds the creature a second time.
ChooseAttacker(c, dropped) ==
  IF c \in Range(combat_ui.chosen)
  THEN [combat_ui EXCEPT !.chosen = Without(@, {c})]
  ELSE [combat_ui EXCEPT !.chosen = @ \o IF dropped THEN <<c, c>> ELSE <<c>>]

Blocking(c) == \E i \in DOMAIN combat_ui.blocks : combat_ui.blocks[i].blocker = c

\* A release makes the creature the one to assign, or takes its block back.
ChooseBlocker(c) ==
  IF Blocking(c)
  THEN [combat_ui EXCEPT !.blocks = Without(@, {b \in Range(@) : b.blocker = c})]
  ELSE [combat_ui EXCEPT !.blocker = c]

HandlesCombat(c) ==
  \/ combat_ui.mode = "attackers" /\ MayChoose(c)
  \/ combat_ui.mode = "blockers" /\ (c \in combat_ui.eligible \/ Blocking(c))

\* The left button is released on one of the player's permanents.
ClickOwn(c, dropped) ==
  /\ Drawn /\ mouse' = FALSE
  /\ combat_ui' = IF HandlesCombat(c)
                  THEN IF combat_ui.mode = "attackers" THEN ChooseAttacker(c, dropped)
                                                       ELSE ChooseBlocker(c)
                  ELSE IF c \in combat_ui.legal THEN [combat_ui EXCEPT !.clicked = c]
                  ELSE combat_ui
  /\ UNCHANGED <<asked, shown, loaded, picks, drag, marks, sent, history>>

\* The right button asks for the permanent's ability.
RightClickOwn(c) ==
  /\ Drawn /\ drag' = [drag EXCEPT !.activate = c]
  /\ UNCHANGED <<mouse, asked, shown, loaded, combat_ui, picks, marks, sent, history>>

\* A release on an opposing permanent gives the pending blocker its attacker,
\* and picks a target.
ClickTheirs(a) ==
  LET assigns == /\ combat_ui.mode = "blockers" /\ a \in marks.attacking
                 /\ combat_ui.blocker # Nothing
  IN /\ Drawn /\ mouse' = FALSE
     /\ combat_ui' = [combat_ui EXCEPT
          !.blocks = IF assigns
                     THEN Append(@, [blocker |-> combat_ui.blocker, attacker |-> a])
                     ELSE @,
          !.blocker = IF assigns THEN Nothing ELSE @,
          !.clicked = IF a \in combat_ui.legal THEN a ELSE @]
     /\ UNCHANGED <<asked, shown, loaded, picks, drag, marks, sent, history>>

\* A card of the hand is dropped outside the hand.
DropCard(c) ==
  /\ Drawn /\ mouse' = FALSE /\ drag' = [drag EXCEPT !.play = c]
  /\ UNCHANGED <<asked, shown, loaded, combat_ui, picks, marks, sent, history>>

LeaveBoard ==
  /\ Drawn
  /\ UNCHANGED <<mouse, asked, shown, loaded, combat_ui, picks, drag, marks, sent, history>>

-----------------------------------------------------------------------------
(* Drags and clicked targets, sent under the prompt that is there now *)

Castable(c) == Showing("priority") /\ c \in prompt.castable

Playable(c) == Showing("priority") /\ prompt.canLand /\ c \in Lands

Activatable(c) ==
  Showing("priority") /\ c \in prompt.activatable /\ c \notin marks.activated

\* The card is cast if it can be, and otherwise played as a land.
PlayDragged ==
  /\ at = "drag" /\ at' = "activate" /\ drag' = [drag EXCEPT !.play = Nothing]
  /\ IF drag.play # Nothing /\ (Castable(drag.play) \/ Playable(drag.play))
     THEN Sends(IF Castable(drag.play) THEN [kind |-> "cast", card |-> drag.play]
                ELSE [kind |-> "land", card |-> drag.play], combat_ui, picks)
     ELSE NotWritten /\ UNCHANGED <<combat_ui, picks>>
  /\ UNCHANGED <<mouse, asked, loaded, marks>>

\* A permanent is marked as activated before the answer is written, if it is.
ActivateDragged ==
  /\ at = "activate" /\ at' = "click" /\ drag' = [drag EXCEPT !.activate = Nothing]
  /\ IF drag.activate # Nothing /\ Activatable(drag.activate)
     THEN /\ marks' = [marks EXCEPT !.activated = @ \union {drag.activate}]
          /\ Sends([kind |-> "activate", permanent |-> drag.activate], combat_ui, picks)
     ELSE NotWritten /\ UNCHANGED <<combat_ui, picks, marks>>
  /\ UNCHANGED <<mouse, asked, loaded>>

\* A clicked target answers a target prompt; without any prompt it stays.
SendClicked ==
  LET used == [combat_ui EXCEPT !.clicked = Nothing] IN
  /\ at = "click" /\ at' = "load"
  /\ IF combat_ui.clicked = Nothing \/ shown = 0
     THEN NotWritten /\ UNCHANGED <<combat_ui, picks>>
     ELSE IF Showing("target")
     THEN \/ /\ Written([kind |-> "target", target |-> combat_ui.clicked])
             /\ combat_ui' = used /\ picks' = [picks EXCEPT !.target = Nothing]
          \/ NotWritten /\ combat_ui' = used /\ UNCHANGED picks
     ELSE NotWritten /\ combat_ui' = used /\ UNCHANGED picks
  /\ UNCHANGED <<mouse, asked, loaded, drag, marks>>

-----------------------------------------------------------------------------
(* The prompt's panel *)

\* The selection a prompt starts with.
Selection(p) ==
  CASE p.kind = "attackers" -> [NoCombat EXCEPT !.mode = "attackers",
                                                !.eligible = p.eligible]
    [] p.kind = "blockers" -> [NoCombat EXCEPT !.mode = "blockers",
                                               !.eligible = p.eligible]
    [] p.kind = "target" -> [NoCombat EXCEPT !.legal = p.legal]
    [] OTHER -> NoCombat

\* A damage prompt wants one number per blocker.
Splits(p, split) ==
  IF p.kind = "damage" /\ Len(split) # p.blockers
  THEN [i \in 1..p.blockers |-> 0] ELSE split

\* Faulty variant: what was picked in the panel stays.
KeepPicks == picks

\* What is picked in the panel when a prompt is drawn first.
FreshPicks == NoPicks

\* A prompt with another id than the last one starts with nothing chosen.
LoadPrompt ==
  /\ at = "load" /\ at' = "button"
  /\ IF shown # 0 /\ shown # loaded
     THEN /\ loaded' = shown /\ combat_ui' = Selection(prompt)
          /\ picks' = [FreshPicks EXCEPT !.split = Splits(prompt, @)]
          /\ marks' = IF prompt.kind = "blockers"
                      THEN [marks EXCEPT !.attacking = @ \union prompt.attackers]
                      ELSE marks
     ELSE /\ picks' = IF shown = 0 THEN picks
                      ELSE [picks EXCEPT !.split = Splits(prompt, @)]
          /\ UNCHANGED <<loaded, combat_ui, marks>>
  /\ UNCHANGED <<mouse, asked, shown, drag, sent, history>>

\* A button of the panel of such a prompt is pressed.  The frame ends.
Button(kind) ==
  /\ at = "button" /\ mouse /\ Showing(kind)
  /\ at' = "keys" /\ UNCHANGED <<mouse, asked, loaded, drag>>

Answers(act, combatThen, picksThen) ==
  Sends(act, combatThen, picksThen) /\ UNCHANGED marks

Picks(field, value) ==
  /\ picks' = [picks EXCEPT ![field] = value]
  /\ NotWritten /\ UNCHANGED <<combat_ui, marks>>

\* No button is pressed.
EndFrame ==
  /\ at = "button" /\ at' = "keys" /\ mouse' = TRUE
  /\ UNCHANGED <<asked, shown, loaded, combat_ui, picks, drag, marks, sent, history>>

PriorityButtons ==
  /\ Button("priority")
  /\ \/ \E c \in Hand : Playable(c)
          /\ Answers([kind |-> "land", card |-> c], combat_ui, picks)
     \/ \E c \in prompt.castable :
          Answers([kind |-> "cast", card |-> c], combat_ui, picks)
     \/ \E c \in Mine : Activatable(c)
          /\ marks' = [marks EXCEPT !.activated = @ \union {c}]
          /\ Sends([kind |-> "activate", permanent |-> c], combat_ui, picks)
     \/ Answers([kind |-> "pass"], combat_ui, picks)

\* Yes and No, also for a question to confirm a concession.
YesNoButtons ==
  /\ Button("yes_no")
  /\ \E yes \in BOOLEAN : Answers([kind |-> "yes_no", yes |-> yes], combat_ui, picks)

\* All Attack, Confirm Attackers and No Attacks.
AttackerButtons ==
  /\ Button("attackers")
  /\ \/ /\ combat_ui' = [combat_ui EXCEPT !.chosen = SetToSeq(prompt.eligible)]
        /\ NotWritten /\ UNCHANGED <<picks, marks>>
     \/ \E chosen \in {combat_ui.chosen, <<>>} :
          Answers([kind |-> "attackers", attackers |-> chosen], NoCombat, picks)

BlockerButtons ==
  /\ Button("blockers")
  /\ \E blocks \in {combat_ui.blocks, <<>>} :
       Answers([kind |-> "blockers", blocks |-> blocks], NoCombat, picks)

\* The order is sent as it came.
OrderButton ==
  /\ Button("order")
  /\ Answers([kind |-> "order", blockers |-> prompt.blockers], combat_ui, picks)

Sum(split) == SumFunction(split)

\* There is damage left to assign.
MoreDamage == Sum(picks.split) < prompt.total

\* A blocker gets one more or one less; what is left goes to the player.
DamageButtons ==
  /\ Button("damage")
  /\ \/ \E i \in DOMAIN picks.split :
          \/ MoreDamage /\ Picks("split", [picks.split EXCEPT ![i] = @ + 1])
          \/ picks.split[i] > 0 /\ Picks("split", [picks.split EXCEPT ![i] = @ - 1])
     \/ Answers([kind |-> "damage", split |-> picks.split,
                 player |-> prompt.total - Sum(picks.split)],
                combat_ui, [picks EXCEPT !.split = <<>>])

\* A target is picked, or the picked one (else any first one) is confirmed.
TargetButtons ==
  /\ Button("target")
  /\ \/ \E t \in prompt.legal : Picks("target", t)
     \/ \E t \in IF picks.target # Nothing THEN {picks.target} ELSE prompt.legal :
          Answers([kind |-> "target", target |-> t], combat_ui,
                  [picks EXCEPT !.target = Nothing])

\* Takes a picked item back, or picks it while there is room.
Toggles(field, item, room) ==
  LET picked == picks[field] IN
  \/ /\ item \in Range(picked)
     /\ Picks(field, Without(picked, {item}))
  \/ /\ item \notin Range(picked) /\ Len(picked) < room
     /\ Picks(field, Append(picked, item))

DiscardButtons ==
  /\ Button("discard")
  /\ \/ \E c \in prompt.hand : Toggles("discards", c, prompt.count)
     \/ Answers([kind |-> "discard", cards |-> picks.discards], combat_ui,
                [picks EXCEPT !.discards = <<>>])

\* The whole pool is offered as the payment.
PayButton == Button("pay") /\ Answers([kind |-> "pay"], combat_ui, picks)

ModeButtons ==
  /\ Button("modes")
  /\ \/ \E m \in 1..prompt.modes : Toggles("modes", m, prompt.most)
     \/ /\ Len(picks.modes) >= prompt.least
        /\ Answers([kind |-> "modes", modes |-> picks.modes], combat_ui,
                   [picks EXCEPT !.modes = <<>>])

\* A colour, a creature type, or a value of X.
ChoiceButtons ==
  /\ Button("choice")
  /\ \E o \in 1..prompt.options :
       Answers([kind |-> "choice", option |-> o], combat_ui, picks)

Board ==
  \/ \E c \in Mine : (\E dropped \in BOOLEAN : ClickOwn(c, dropped)) \/ RightClickOwn(c)
  \/ \E a \in Theirs : ClickTheirs(a)
  \/ \E c \in Hand : DropCard(c)
  \/ LeaveBoard

Panel ==
  \/ EndFrame
  \/ PriorityButtons \/ YesNoButtons \/ AttackerButtons \/ BlockerButtons
  \/ OrderButton \/ DamageButtons \/ TargetButtons \/ DiscardButtons
  \/ PayButton \/ ModeButtons \/ ChoiceButtons

InputNext ==
  \/ PassKey
  \/ \E p \in Offers : Asked(p)
  \/ \E i \in DOMAIN asked : Redelivered(i)
  \/ \E fought \in BOOLEAN : PhaseChanged(fought)
  \/ Polled
  \/ Board
  \/ PlayDragged \/ ActivateDragged \/ SendClicked
  \/ LoadPrompt
  \/ Panel

InputSpec == InputInit /\ [][InputNext]_inputs

-----------------------------------------------------------------------------
(* Properties *)

\* Type invariant of Scenes::Match's local variables and Combat_UI_State.  A
\* creature that was also dropped is chosen twice, never more often.
InputTypeOK ==
  /\ at \in {"keys", "poll", "board", "drag", "activate", "click", "load", "button"}
  /\ mouse \in BOOLEAN
  /\ asked \in Seq(Offers) /\ Len(asked) <= MaxPrompts
  /\ shown \in 0..Len(asked) /\ loaded \in 0..Len(asked)
  /\ combat_ui.eligible \subseteq Mine /\ combat_ui.legal \subseteq Mine \union Theirs
  /\ combat_ui.chosen \in Seq(Mine)
  /\ \A c \in Mine :
       Cardinality({i \in DOMAIN combat_ui.chosen : combat_ui.chosen[i] = c}) <= 2
  /\ combat_ui.blocks \in Seq([blocker : Mine, attacker : Theirs])
  /\ combat_ui.blocker \in Mine \union {Nothing}
  /\ combat_ui.clicked \in Mine \union Theirs \union {Nothing}
  /\ picks.target \in Mine \union Theirs \union {Nothing}
  /\ picks.split \in Seq(Nat) /\ picks.modes \in Seq(Nat)
  /\ picks.discards \in Seq(Hand)
  /\ drag.play \in Hand \union {Nothing} /\ drag.activate \in Mine \union {Nothing}
  /\ marks.attacking \subseteq Theirs /\ marks.activated \subseteq Mine
  /\ sent.id \in 0..Len(asked)
  /\ history.answers \in [1..MaxPrompts -> Nat]
  /\ history.replays \in [1..MaxPrompts -> Nat]

PriorityAnswer(p, act) ==
  CASE act.kind = "cast" -> act.card \in p.castable
    [] act.kind = "land" -> p.canLand /\ act.card \in Lands
    [] act.kind = "activate" -> act.permanent \in p.activatable
    [] OTHER -> act.kind = "pass"

\* Somebody that the prompt names as an attacker.  An old prompt that was
\* delivered again flags its own attackers, and they stay on the board.
AttackerFits(prompts, again, id, attacker) ==
  \/ attacker \in prompts[id].attackers
  \/ again /\ \E i \in DOMAIN prompts : /\ i # id /\ prompts[i].kind = "blockers"
                                         /\ attacker \in prompts[i].attackers

BlocksFit(prompts, again, id, blocks) ==
  /\ \A i \in DOMAIN blocks : /\ blocks[i].blocker \in prompts[id].eligible
                              /\ AttackerFits(prompts, again, id, blocks[i].attacker)
  /\ \A i, j \in DOMAIN blocks : blocks[i].blocker = blocks[j].blocker => i = j

\* A target is one the prompt allows, unless it was clicked on the board when
\* another target prompt was loaded: see SendClicked.
TargetFits(prompts, id, target) ==
  \/ target \in prompts[id].legal
  \/ \E i \in DOMAIN prompts : /\ i # id /\ prompts[i].kind = "target"
                               /\ target \in prompts[i].legal

PicksFit(items, from, most) ==
  Range(items) \subseteq from /\ Len(items) <= most /\ IsInjective(items)

\* act answers prompts[id]; again: a prompt has been delivered again.
Fits(prompts, again, id, act) ==
  LET p == prompts[id] IN
  IF p.kind = "priority" THEN PriorityAnswer(p, act)
  ELSE /\ act.kind = p.kind
       /\ CASE p.kind = "attackers" -> Range(act.attackers) \subseteq p.eligible
            [] p.kind = "blockers" -> BlocksFit(prompts, again, id, act.blocks)
            [] p.kind = "order" -> act.blockers = p.blockers
            [] p.kind = "damage" -> /\ Len(act.split) = p.blockers
                                    /\ act.player >= 0
                                    /\ Sum(act.split) + act.player = p.total
            [] p.kind = "target" -> TargetFits(prompts, id, act.target)
            [] p.kind = "discard" -> PicksFit(act.cards, p.hand, p.count)
            [] p.kind = "modes" -> /\ PicksFit(act.modes, 1..p.modes, p.most)
                                   /\ Len(act.modes) >= p.least
            [] OTHER -> TRUE

\* What the client answers is something the prompt whose id it sends asked
\* for: no attacker, block, damage, discard or mode chosen under one prompt
\* goes out under another, though the board is drawn with the old selection
\* when a new prompt has come in the same frame.
AnswerFits == sent.id # 0 => Fits(asked, Replayed, sent.id, sent.act)

\* A prompt is answered once for every time it is delivered: a key, a drag, a
\* click and a button of one frame do not answer it twice.
AnsweredOnce ==
  \A i \in 1..MaxPrompts : history.answers[i] <= 1 + history.replays[i]
=============================================================================
