----------------------------- MODULE ClientView -----------------------------
(***************************************************************************)
(* What one player's client shows of a game: Local_Game_State, which       *)
(* starts from snapshots and follows the game by its events, fed by the    *)
(* action stream, by the state stream of a reconnected client and by the   *)
(* answer to RejoinGame, in whatever order they come in.                   *)
(*                                                                         *)
(* The game's side is reduced to what it tells its clients: every kind of  *)
(* operation changes the game and emits its events in one step, as it does *)
(* under Game::mutex_, which a snapshot needs too.  How a stream carries   *)
(* its events is module Delivery; queues that overflow are left out here.  *)
(* Graveyards, exile, mana, counters and control are not shown here: no    *)
(* event tells of most of their changes, and the next untap snapshot does. *)
(***************************************************************************)
EXTENDS Integers, Sequences, FiniteSets, SequencesExt, Functions

CONSTANTS Me, Opponent,    \* the client's player and the other one
          Owner,           \* whose card each card is
          Kind,            \* "land", "creature", "instant" or "token"
          InHand,          \* the cards in hand at the start
          Life,            \* the life totals at the start
          MaxTold,         \* bound of the model: events before the last operation
          MaxLosses        \* bound of the model: streams lost

Players == {Me, Opponent}
Cards == DOMAIN Owner

ASSUME PlayersDiffer == Me # Opponent
ASSUME CardsOwned == /\ Owner \in [Cards -> Players] /\ DOMAIN Kind = Cards
                     /\ InHand \subseteq Cards /\ IsFiniteSet(Cards)
                     /\ Life \in [Players -> Int]

VARIABLES
  match,        \* the game's own state, as far as events tell of it
  log,          \* every event so far
  action,       \* the client's action stream
  state,        \* the client's state stream
  rejoin,       \* the answer to RejoinGame that is under way, if any
  local,        \* Local_Game_State and the match scene
  history       \* what happened to this client; nothing depends on it

viewVars == <<match, log, action, state, rejoin, local, history>>

\* The cards of p in a zone.
In(p, zone) == {c \in Cards : Owner[c] = p /\ match.zone[c] = zone}

Ids(stack) == [i \in DOMAIN stack |-> stack[i].id]

\* Game::build_snapshot: the viewer's hand, and of the others' only the size.
Snapshot(viewer) ==
  [life |-> match.life,
   library_count |-> [p \in Players |-> Cardinality(In(p, "library"))],
   hand |-> [p \in Players |-> IF p = viewer THEN In(p, "hand") ELSE {}],
   hand_count |-> [p \in Players |-> Cardinality(In(p, "hand"))],
   battlefield |-> [p \in Players |-> In(p, "battlefield")],
   stack |-> Ids(match.stack)]

NoView == [life |-> [p \in Players |-> 0],
           library_count |-> [p \in Players |-> 0],
           hand |-> [p \in Players |-> {}], hand_count |-> [p \in Players |-> 0],
           battlefield |-> [p \in Players |-> {}], stack |-> <<>>]

NoReader == [stage |-> "none"]
NoAnswer == [stage |-> "none"]

\* The match scene has joined the game and opened its first stream, or could not.
ViewInit ==
  /\ match = [life |-> Life,
              zone |-> [c \in Cards |-> IF c \in InHand THEN "hand"
                                        ELSE IF Kind[c] = "token" THEN "nowhere"
                                        ELSE "library"],
              stack |-> <<>>, entries |-> 0, awaiting |-> 0, over |-> FALSE]
  /\ log = <<>>
  /\ action \in {NoReader, [stage |-> "opened"]} /\ state = NoReader /\ rejoin = NoAnswer
  /\ local = [view |-> NoView, has |-> FALSE, prompt |-> 0, last |-> 0, over |-> FALSE]
  /\ history = [for |-> Me, upto |-> 0, again |-> FALSE, astray |-> 0,
                missed |-> FALSE, answered |-> FALSE, ghosts |-> {}, losses |-> 0]

-----------------------------------------------------------------------------
(* The game and the events it emits *)

\* An operation of the game, with its events.
Does(g, events) ==
  /\ ~match.over /\ Len(log) < MaxTold
  /\ match' = g /\ log' = log \o events
  /\ UNCHANGED <<action, state, rejoin, local>>

Moved(c, zone) == [match EXCEPT !.zone[c] = zone]

Transfer(c, from, dest, to) ==
  [kind |-> "zone_transfer", to |-> to, player |-> Owner[c], card |-> c,
   from |-> from, dest |-> dest]
Entered(c) == [kind |-> "permanent_entered", to |-> Players, player |-> Owner[c], card |-> c]
Played(c, id) == [kind |-> "card_played", to |-> Players, player |-> Owner[c],
                  card |-> c, entry |-> id]
Resolved(id) == [kind |-> "spell_resolved", to |-> Players, entry |-> id]

\* draw_cards tells the player of the card, and the other of a transfer.
Draw ==
  /\ \E c \in Cards :
       /\ match.zone[c] = "library"
       /\ Does(Moved(c, "hand"),
               <<[kind |-> "card_drawn", to |-> {Owner[c]}, player |-> Owner[c], card |-> c],
                 Transfer(c, "library", "hand", Players \ {Owner[c]})>>)
  /\ UNCHANGED history

Mill ==
  /\ \E c \in Cards :
       /\ match.zone[c] = "library"
       /\ Does(Moved(c, "graveyard"), <<Transfer(c, "library", "graveyard", Players)>>)
  /\ UNCHANGED history

Discard ==
  /\ \E c \in Cards :
       /\ match.zone[c] = "hand"
       /\ Does(Moved(c, "graveyard"), <<Transfer(c, "hand", "graveyard", Players)>>)
  /\ UNCHANGED history

PlayLand ==
  /\ \E c \in Cards :
       /\ match.zone[c] = "hand" /\ Kind[c] = "land"
       /\ Does(Moved(c, "battlefield"), <<Played(c, 0), Entered(c)>>)
  /\ UNCHANGED history

\* The game with one more stack entry.
Pushed(g, c) == [g EXCEPT !.entries = @ + 1,
                          !.stack = Append(@, [id |-> g.entries + 1, card |-> c])]

Cast ==
  /\ \E c \in Cards :
       /\ match.zone[c] = "hand" /\ Kind[c] # "land"
       /\ Does(Pushed(Moved(c, "stack"), {c}), <<Played(c, match.entries + 1)>>)
  /\ UNCHANGED history

\* An activated ability, or a trigger, whose event is handled in the same way.
Activate ==
  /\ Does(Pushed(match, {}), <<[kind |-> "ability_activated", to |-> Players,
                               entry |-> match.entries + 1]>>)
  /\ UNCHANGED history

\* The top entry resolves or fizzles; a permanent that resolves enters first.
Resolve ==
  /\ match.stack # <<>>
  /\ LET top == Last(match.stack)
         popped == [match EXCEPT !.stack = Front(@)]
     IN  \/ /\ \E c \in top.card :
                 Kind[c] = "creature"
                 /\ Does([popped EXCEPT !.zone[c] = "battlefield"],
                         <<Entered(c), Resolved(top.id)>>)
         \/ Does([popped EXCEPT !.zone = [c \in Cards |-> IF c \in top.card
                                                          THEN "graveyard" ELSE @[c]]],
                 <<Resolved(top.id)>>)
  /\ UNCHANGED history

\* counter_spell tells of a spell that it takes from the stack, but not of an
\* ability.
Counter ==
  \E i \in DOMAIN match.stack :
    LET e == match.stack[i]
        rest == [match EXCEPT !.stack = RemoveAt(@, i)]
    IN  \/ /\ \E c \in e.card : Does([rest EXCEPT !.zone[c] = "graveyard"], <<Resolved(e.id)>>)
           /\ UNCHANGED history
        \/ /\ e.card = {} /\ Does(rest, <<>>)
           /\ history' = [history EXCEPT !.ghosts = @ \cup {e.id}]

Token ==
  /\ \E c \in Cards : /\ match.zone[c] = "nowhere"
                      /\ Does(Moved(c, "battlefield"), <<Entered(c)>>)
  /\ UNCHANGED history

\* A permanent leaves the battlefield; a sacrifice is told twice.
Leave ==
  /\ \E c \in Cards :
       /\ match.zone[c] = "battlefield"
       /\ LET gone == [kind |-> "permanent_destroyed", to |-> Players, card |-> c]
          IN  \/ Does(Moved(c, "graveyard"), <<gone>>)
              \/ Does(Moved(c, "graveyard"),
                      <<Transfer(c, "battlefield", "graveyard", Players), gone>>)
              \/ Does(Moved(c, "hand"), <<Transfer(c, "battlefield", "hand", Players)>>)
  /\ UNCHANGED history

\* deal_damage tells of the damage and then of the new total.
Damage ==
  /\ \E p \in Players :
       Does([match EXCEPT !.life[p] = @ - 1],
            <<[kind |-> "damage_dealt", to |-> Players, player |-> p, amount |-> 1],
              [kind |-> "life_changed", to |-> Players, player |-> p,
               total |-> match.life[p] - 1]>>)
  /\ UNCHANGED history

\* After the untap phase each player is sent a snapshot.
Untap ==
  /\ \E first \in Players :
       LET To(p) == [kind |-> "snapshot", to |-> {p}, for |-> p, view |-> Snapshot(p)]
       IN  Does(match, <<To(first), To(CHOOSE p \in Players : p # first)>>)
  /\ UNCHANGED history

\* A prompt for the client's player, whose id is its event's number.
Prompt ==
  /\ match.awaiting = 0
  /\ Does([match EXCEPT !.awaiting = Len(log) + 1], <<[kind |-> "action_prompt", to |-> {Me}]>>)
  /\ history' = [history EXCEPT !.missed = FALSE, !.answered = FALSE]

\* The prompt's time is up, or somebody else decides.
Expire ==
  /\ match.awaiting # 0
  /\ match' = [match EXCEPT !.awaiting = 0]
  /\ UNCHANGED <<log, action, state, rejoin, local, history>>

EndGame ==
  /\ ~match.over /\ Len(log) < MaxTold
  /\ match' = [match EXCEPT !.over = TRUE, !.awaiting = 0]
  /\ log' = Append(log, [kind |-> "game_over", to |-> Players])
  /\ UNCHANGED <<action, state, rejoin, local, history>>

Play == \/ Draw \/ Mill \/ Discard \/ PlayLand \/ Cast \/ Activate \/ Resolve
        \/ Counter \/ Token \/ Leave \/ Damage \/ Untap

-----------------------------------------------------------------------------
(* Local_Game_State::Apply_Event, one operator for each kind of event *)

\* Faulty variant: a count may go below zero.
LessAlways(n) == n - 1

\* A count is only taken down when there is something to take.
Less(n) == IF n > 0 THEN n - 1 ELSE n

\* The count follows the hand unless more cards are hidden than shown.
Drawn(v, p, c) ==
  LET hand == v.hand[p] \cup {c}
  IN  [v EXCEPT !.hand[p] = hand,
                !.hand_count[p] = IF Cardinality(hand) >= @ THEN Cardinality(hand) ELSE @ + 1,
                !.library_count[p] = Less(@)]

\* A card leaves a hand in which it is shown, or a hidden one.
OutOfHand(v, p, c) ==
  [v EXCEPT !.hand[p] = @ \ {c},
            !.hand_count[p] = IF c \in v.hand[p] THEN Cardinality(v.hand[p] \ {c})
                                                 ELSE Less(@)]

\* Faulty variant: an entry is pushed again when its event comes again.
PushTwice(v, id) == IF id = 0 THEN v ELSE [v EXCEPT !.stack = Append(@, id)]

\* Stack_Has_Entry keeps an entry from being pushed twice; id 0 is no entry.
Push(v, id) == IF id = 0 \/ id \in Range(v.stack) THEN v
               ELSE [v EXCEPT !.stack = Append(@, id)]

\* The first entry with this id is erased.
Erase(v, id) == [v EXCEPT !.stack = RemoveFirst(@, id)]

Transferred(v, e) ==
  LET p == e.player
      c == e.card
      taken == CASE e.from = "hand" -> OutOfHand(v, p, c)
                 [] e.from = "battlefield" -> [v EXCEPT !.battlefield[p] = @ \ {c}]
                 [] e.from = "library" -> [v EXCEPT !.library_count[p] = Less(@)]
  IN  IF e.dest = "hand"
      THEN [taken EXCEPT !.hand[p] = @ \cup {c},
                         !.hand_count[p] = Cardinality(taken.hand[p] \cup {c})]
      ELSE taken

LifeShown(v, p, total) == [v EXCEPT !.life[p] = total]
Hit(v, p, amount) == [v EXCEPT !.life[p] = @ - amount]
Destroyed(v, c) == [v EXCEPT !.battlefield = [p \in Players |-> @[p] \ {c}]]
Enters(v, p, c) == [v EXCEPT !.battlefield[p] = @ \cup {c}]
CardPlayed(v, e) == Push(OutOfHand(v, e.player, e.card), e.entry)

\* What an event makes of the view.
Applied(v, e) ==
  CASE e.kind = "snapshot" -> e.view
    [] e.kind = "life_changed" -> LifeShown(v, e.player, e.total)
    [] e.kind = "damage_dealt" -> Hit(v, e.player, e.amount)
    [] e.kind = "card_drawn" -> Drawn(v, e.player, e.card)
    [] e.kind = "card_played" -> CardPlayed(v, e)
    [] e.kind = "permanent_destroyed" -> Destroyed(v, e.card)
    [] e.kind = "permanent_entered" -> Enters(v, e.player, e.card)
    [] e.kind = "zone_transfer" -> Transferred(v, e)
    [] e.kind = "spell_resolved" -> Erase(v, e.entry)
    [] e.kind = "ability_activated" -> Push(v, e.entry)
    [] OTHER -> v

\* Apply_Event: without a snapshot most events are ignored, but not a prompt or
\* the end of the game.
AfterEvent(c, e, n) ==
  [c EXCEPT !.view = IF c.has \/ e.kind = "snapshot" THEN Applied(@, e) ELSE @,
            !.has = @ \/ e.kind = "snapshot",
            !.prompt = IF e.kind = "action_prompt" THEN n ELSE @,
            !.over = @ \/ e.kind = "game_over",
            !.last = IF n > @ THEN n ELSE @]

-----------------------------------------------------------------------------
(* What happened to this client *)

\* A snapshot that accounts for the events up to n comes in.  It sets right
\* what was wrong up to there.
Shown(h, viewer, n) ==
  IF viewer = Me
  THEN [h EXCEPT !.for = Me, !.upto = n, !.again = FALSE,
                 !.astray = IF n >= @ THEN 0 ELSE @]
  ELSE [h EXCEPT !.for = viewer, !.again = TRUE]

\* An event that is applied again, that a snapshot already accounts for, or that
\* was for another player may count twice.
Learnt(h, e, n) ==
  IF e.kind = "snapshot" THEN Shown(h, e.for, n)
  ELSE [h EXCEPT !.again = @ \/ n <= local.last \/ n <= h.upto \/ Me \notin e.to]

\* The events that a lost or late state stream passes over, perhaps with the
\* prompt that the game waits for.
PassedOver(h, S) ==
  IF S = {} THEN h
  ELSE [h EXCEPT !.missed = @ \/ match.awaiting \in S, !.astray = Len(log)]

-----------------------------------------------------------------------------
(* The streams *)

Gone(s) == s.stage = "none"

\* A client whose action stream is gone asks to rejoin, opens another one, and a
\* state stream too unless it still has one.
Rejoin ==
  /\ Gone(action) /\ ~local.over
  /\ action' = [stage |-> "opened"]
  /\ rejoin' = [stage |-> "asked"]
  /\ state' = IF Gone(state) THEN [stage |-> "opened", since |-> local.last] ELSE state
  /\ UNCHANGED <<match, log, local, history>>

\* SubmitAction subscribes and then takes the snapshot.  What was emitted before
\* can only come on a state stream.
Subscribe ==
  /\ action.stage = "opened"
  /\ action' = [stage |-> "subscribed", next |-> Len(log) + 1]
  /\ history' = [history EXCEPT !.missed = @ \/ (Gone(state) /\ match.awaiting > local.last)]
  /\ UNCHANGED <<match, log, state, rejoin, local>>

TakeSnapshot ==
  /\ action.stage = "subscribed"
  /\ action' = [stage |-> "snapshot", next |-> action.next,
                view |-> Snapshot(Me), upto |-> Len(log)]
  /\ UNCHANGED <<match, log, state, rejoin, local, history>>

\* StreamGameState reads the log and then subscribes: what is emitted in between
\* is on neither side.
ReadLog ==
  /\ state.stage = "opened"
  /\ state' = [stage |-> "replay", next |-> state.since + 1, end |-> Len(log)]
  /\ UNCHANGED <<match, log, action, rejoin, local, history>>

Follow ==
  /\ state.stage = "replay" /\ state.next > state.end
  /\ state' = [stage |-> "live", next |-> Len(log) + 1]
  /\ history' = PassedOver(history, state.end + 1 .. Len(log))
  /\ UNCHANGED <<match, log, action, rejoin, local>>

\* RejoinGame answers with a snapshot while the game is in progress.
AnswerRejoin ==
  /\ rejoin.stage = "asked"
  /\ rejoin' = IF match.over THEN NoAnswer
               ELSE [stage |-> "answered", view |-> Snapshot(Me), upto |-> Len(log)]
  /\ UNCHANGED <<match, log, action, state, local, history>>

\* The action stream's snapshot comes before anything else on it.
ReceiveSnapshot ==
  /\ action.stage = "snapshot"
  /\ action' = [stage |-> "live", next |-> action.next]
  /\ local' = [local EXCEPT !.view = action.view, !.has = TRUE]
  /\ history' = Shown(history, Me, action.upto)
  /\ UNCHANGED <<match, log, state, rejoin>>

\* An event is read from a stream, and the match scene applies it.
Show(n) ==
  /\ local' = AfterEvent(local, log[n], n)
  /\ history' = Learnt(history, log[n], n)
  /\ UNCHANGED <<match, log, rejoin>>

\* The action stream's next event that is for this player.
ReceiveAction ==
  /\ action.stage = "live"
  /\ \E n \in action.next .. Len(log) :
       /\ Me \in log[n].to
       /\ \A m \in action.next .. n - 1 : Me \notin log[m].to
       /\ action' = [action EXCEPT !.next = n + 1]
       /\ Show(n)
  /\ UNCHANGED state

\* A state stream sees everybody's events.
ReceiveState ==
  /\ \/ state.stage = "replay" /\ state.next <= state.end
     \/ state.stage = "live" /\ state.next <= Len(log)
  /\ state' = [state EXCEPT !.next = @ + 1]
  /\ Show(state.next)
  /\ UNCHANGED action

\* The match scene polls the answer and shows its snapshot, whatever came
\* meanwhile on the streams.
ReceiveRejoin ==
  /\ rejoin.stage = "answered"
  /\ rejoin' = NoAnswer
  /\ local' = [local EXCEPT !.view = rejoin.view, !.has = TRUE]
  /\ history' = LET h == Shown(history, Me, rejoin.upto)
                IN  IF {local.last, history.upto} \subseteq 0 .. rejoin.upto
                    THEN h ELSE [h EXCEPT !.astray = Len(log)]
  /\ UNCHANGED <<match, log, action, state>>

\* The action stream is about to bring again the prompt that the game waits for,
\* which the state stream brought before: an older one may have displaced it.
Displaced == /\ action.stage \in {"subscribed", "snapshot", "live"}
             /\ match.awaiting \in action.next .. local.last

\* A stream is lost with what is under way on it (Delivery also loses streams
\* after the game's end).
LoseAction ==
  /\ ~Gone(action) /\ history.losses < MaxLosses /\ ~match.over
  /\ action' = NoReader
  /\ history' = [history EXCEPT !.losses = @ + 1,
                                !.missed = @ \/ Displaced]
  /\ UNCHANGED <<match, log, state, rejoin, local>>

LoseState ==
  /\ ~Gone(state) /\ history.losses < MaxLosses /\ ~match.over
  /\ state' = NoReader
  /\ history' = [PassedOver(history,
                            (IF state.stage = "opened" THEN state.since + 1 ELSE state.next)
                            .. Len(log)) EXCEPT !.losses = @ + 1]
  /\ UNCHANGED <<match, log, action, rejoin, local>>

\* The scene stops both streams when it learns of the game's end.
Stop ==
  /\ local.over /\ ~(Gone(action) /\ Gone(state))
  /\ action' = NoReader /\ state' = NoReader
  /\ UNCHANGED <<match, log, rejoin, local, history>>

-----------------------------------------------------------------------------
(* Answers *)

\* Faulty variant: the prompt is cleared whether or not the answer was written.
ClearAlways(c, sent) == [c EXCEPT !.prompt = 0]

\* Send_And_Clear: the prompt goes when the answer was written.
Clear(c, sent) == IF sent THEN [c EXCEPT !.prompt = 0] ELSE c

\* A prompt is answered.  The game takes the answer if it still waits for it; an
\* answer on a stream that is about to be lost does not arrive.
Answer ==
  /\ local.prompt # 0 /\ ~local.over
  /\ LET sent == ~Gone(action)
     IN  /\ local' = Clear(local, sent)
         /\ history' = [history EXCEPT !.answered =
                                    @ \/ (sent /\ local.prompt = match.awaiting)]
         /\ \/ match' = match
            \/ /\ sent /\ local.prompt = match.awaiting
               /\ match' = [match EXCEPT !.awaiting = 0]
  /\ UNCHANGED <<log, action, state, rejoin>>

ViewNext == \/ Play \/ Prompt \/ Expire \/ EndGame
            \/ Rejoin \/ Subscribe \/ TakeSnapshot \/ ReadLog \/ Follow
            \/ AnswerRejoin \/ ReceiveSnapshot \/ ReceiveAction \/ ReceiveState
            \/ ReceiveRejoin \/ LoseAction \/ LoseState \/ Stop \/ Answer

ViewSpec == ViewInit /\ [][ViewNext]_viewVars

-----------------------------------------------------------------------------
(* Properties *)

Views == [life : [Players -> Int], library_count : [Players -> 0 .. Cardinality(Cards)],
          hand : [Players -> SUBSET Cards], hand_count : [Players -> Nat],
          battlefield : [Players -> SUBSET Cards], stack : Seq(1 .. match.entries)]

\* ViewTypeOK: no count shown is below zero, nor a library above the cards there
\* are, however often an event is applied; a prompt shown is one that was sent.
ViewTypeOK ==
  /\ local.view \in Views
  /\ local.has \in BOOLEAN /\ local.over \in BOOLEAN
  /\ local.prompt \in 0 .. Len(log) /\ local.last \in 0 .. Len(log)
  /\ local.prompt # 0 => log[local.prompt].kind = "action_prompt"
  /\ match.awaiting \in 0 .. Len(log)
  /\ \A s \in {action, state} : s.stage \in {"none", "opened", "subscribed", "snapshot",
                                             "replay", "live"}
  /\ rejoin.stage \in {"none", "asked", "answered"}

\* Nothing is under way to a client that is connected.
Settled ==
  /\ local.has /\ ~local.over /\ rejoin = NoAnswer
  /\ action.stage = "live" /\ \A n \in action.next .. Len(log) : Me \notin log[n].to
  /\ \/ Gone(state)
     \/ state.stage = "live" /\ state.next > Len(log)

\* Once everything has arrived, life totals, battlefields and the entries of the
\* stack are those of the game, whatever was applied twice or out of date on the
\* way, and the own hand is if the last snapshot was the own one.  Left out are a
\* client that a late RejoinGame or a state stream with a gap led astray, until
\* its next snapshot, and countered abilities, of which no event tells.
AgreesWhenSettled ==
  Settled /\ history.astray = 0 =>
    LET v == local.view
        real == Snapshot(Me)
    IN  /\ v.life = real.life /\ v.battlefield = real.battlefield
        /\ IsInjective(v.stack) /\ Range(v.stack) \ history.ghosts = Range(real.stack)
        /\ history.for = Me => v.hand[Me] = real.hand[Me]

\* Once everything has arrived, and nothing was applied that counts twice, the
\* libraries' and the own hand's counts are right.
CountsAgree ==
  Settled /\ history.astray = 0 /\ ~history.again =>
    /\ local.view.library_count = Snapshot(Me).library_count
    /\ local.view.hand_count[Me] = Snapshot(Me).hand_count[Me]

\* What the player sees is the game, once everything has arrived.
SettledViewAgrees == AgreesWhenSettled /\ CountsAgree

\* When the game waits for this player and nothing is under way, the prompt is on
\* the screen, or an answer was written for it, or it fell into a gap: it was
\* emitted before the first stream was there, or passed over by the state stream.
\* (Nothing is sent again; a failed write leaves the prompt where it is.)
PromptShown ==
  Settled /\ match.awaiting # 0 =>
    local.prompt = match.awaiting \/ history.answered \/ history.missed
=============================================================================
