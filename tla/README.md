# Verification of the uud game server

TLA+ models of the server of this repository (a two-player card game played over
gRPC, `src/server`) and of the client's side of what they do together: its copy of the
game, its answers to prompts and its session (`src/client`), checked with TLC, and proofs about them checked with TLAPS.

Every definition is translated from the C++ source; the line ranges are in
`PROJECT.json` ("map"). Paths below are relative to `src/server/src` unless they
start with `client/` or `engine/include`.

## 1. The system

```
 client scenes ── SubmitAction (bidirectional) ─┐            ┌── Lua cards
   and copy    ── StreamGameState, RejoinGame ──┤  services  │
   of the game ── JoinQueue, QueueStatus ───────┤            │
                                                v            v
 MatchmakingQueue <── Matchmaker ──> GameManager ──> Game (one thread each)
      (5 minutes)      (loop)         (+ reaper)      ├ TurnMachine, PrioritySystem, TheStack
                                         │            ├ CombatManager, ManaPool, ZoneManager
                                         v            ├ ActionQueue per player, GameClock
                               history and ratings    └ EventBroadcaster ──> streams
                               (PostgreSQL pool)
```

| Component | State it keeps | Operations | Correct when |
|---|---|---|---|
| Turn loop, priority, stack (`engine/game.cpp`, `turn_machine`, `priority_system`, `the_stack`) | phase, active player, priority index, count of passes, stack, `running_` | `game_loop`, `run_phase`, `run_priority_round`, `process_action`, `resolve_stack_entry`, `run_cleanup_phase`, `stop` | an entry resolves only after everybody could respond to it; phases end with an empty stack; a decided or stopped game ends |
| Game session (`engine/game.cpp`, `action_queue`, `game_clock`, `service/game_service_impl.cpp`) | game state and result, decks, queues of actions, open prompt, connected players, pending concessions, the open draw offer | `JoinGame`, `SubmitDeck`, `LeaveGame`, `RejoinGame`, `SubmitAction`, `set_player_connected`, `wait_for_connected_player`, the reaper | a game starts when both decks are in, its result fits who lost and what the players asked for, absence is punished only when it is one, the thread returns |
| Combat (`engine/combat_manager.cpp`, combat phases of `run_phase`) | attackers, blockers, damage order, chosen damage | declarations, orders, assignments, two damage steps | declarations stay consistent with each other and with the board through five phases of prompts and effects |
| Event delivery (`engine/event_broadcaster.cpp`, stream handlers, `client/src/net`, match scene) | event log, subscribers, pending events of each stream, the client's last sequence number | `emit`, `emit_to_player`, `subscribe`, `get_events_since`, stream loops, reconnection | streams deliver in order, without a gap after the snapshot, only what the player may see, up to `game_over` |
| Matchmaking (`matchmaking/`, `service/matchmaking_service_impl.cpp`) | queue, uncollected results, the loop's pair | `JoinQueue`, `LeaveQueue`, `QueueStatus`, `find_match`, `match_loop` | nobody is matched twice or forgotten, a result is a seat, two players do not wait for ever |
| Games and results (`engine/game_manager.cpp`, `main.cpp`, `auth/game_history_store.cpp`, `auth/rating_store.cpp`, `auth/connection_pool.cpp`) | games by id, recorded ids, ratings, history, connections in use | `remove_game`, `reaper_loop`, `record_game_result`, `on_game_finish`, `update_after_game`, `acquire`, shutdown | a finished game comes into the history, whole and a bounded number of times, and an elo loses an update only to one that overlapped it |
| Mana (`engine/mana_pool.cpp`, `auto_tap_lands`, undo of mana abilities, costs in `process_action`) | mana by colour, undo stack, tapped lands | `can_pay_cost`, `compute_optimal_payment`, `pay_cost`, Convoke, Delve, X, kicker | what is put on the stack is paid for, a refused payment loses no card, what is offered can be paid |
| Zones and state-based actions (`zone_manager`, `permanent`, `state_based_actions`, effects) | cards by zone, permanents, attachments, an index of where a card is | moves, tokens, `check_and_apply`, replacement and continuous effects | a card is in one zone, the index agrees, the checks reach a fixpoint |
| Spells, abilities, triggers (`game.cpp`, `game_context_impl.cpp`, `card_registry`) | pending targets, delayed triggers, effects until end of turn | `process_action`, `fire_triggers`, callbacks of the Lua cards | costs are all or nothing, triggers go on the stack in turn order |
| Accounts (`auth/`, `service/auth_service_impl.cpp`, `server/interceptors`) | users, tokens with their dates, revocations, calls of this second | `Register`, `Login`, `RefreshToken`, `Logout`, `ValidateToken` | a token whose Logout succeeded is never accepted again |
| Client's copy of the game (`client/scenes/match/game_state_local.cpp`) | life, zones, stack, the prompt, last sequence number | `Apply_Snapshot`, `Apply_Event`, reconnection | once everything has arrived it is the game's, and the prompt the game waits for is on the screen |
| Client's input (`client/scenes/match/match.cpp`, `systems.cpp`) | selections, clicked target, damage split, the last prompt drawn | one frame: keys, board, drags, buttons | an answer fits its prompt, a prompt is answered once |
| Signing in (`client/net/auth_client.cpp`, `net_client`, `token_store`, `client/scenes/login`) | scene, token, saved session, the call under way | `Login`, `Register`, `Validate`, menu Logout, restart | who is shown is whose token is held |
| Best of three, decks, players, configuration, cle library, other scenes, card data | see `PROJECT.json` | | |

Interaction. A handler runs on a gRPC thread and calls into a `Game` under
`Game::mutex_`, a recursive mutex that the game's own thread holds while it runs
rules and gives up whenever it prompts. The handlers do not answer prompts
directly: `submit_action` puts an action in the player's `ActionQueue`, and the game
thread takes from it. The other way round, the game thread calls
`EventBroadcaster::emit`, whose callbacks append to the pending events of each open
stream; the stream's thread writes them. The manager's reaper wakes every few
seconds, forces a concession on players who have been gone too long, and removes
finished games. The match loop takes two entries out of the queue, creates a game
and seats them, while clients may leave the queue, queue again, or join that game
as any other.

What is hard here: two players, the reaper and the game thread act on one
game while each wait has released the mutex; actions queued for one prompt are taken
for another; streams are lost and opened again around every one of these steps;
effects change the board between the steps of a combat; and everything has a limit
(queues of 64 actions, 1000 pending and 10000 logged events). `PROJECT.json`
("hazards") lists each such place with its line and with the property that watches it.

## 2. The modules

### GameTurn, PriorityRule

`GameTurn` is the game thread. `pc` says in which loop it is: `turn`
(`game_loop`), `phase`, `cleanup` (`run_cleanup_phase`), `inner` and `outer` (the two
loops of `run_priority_round`), `end`, `over`. `current_index` and
`consecutive_passes` are `PrioritySystem`'s; a stack entry is reduced to its
controller. A step is one decision of the holder with everything the code does for it:
`CastSpell` casts, interrupts priority, fires triggers and runs the state-based
actions, `PassPriority` passes and resolves the top if that was the last pass
(`ResolveTop`), and so on. What a card does is abstract: an effect may put entries
on the stack in the order `fire_triggers` uses, counter one, and leave something for
the state-based actions, which may eliminate players. `unchecked` remembers what
those have not seen yet; it is needed because `run_phase` calls them at some places
and not at others.

`PriorityRule` states what a priority round promises without counter and index: an
entry leaves the stack only when everybody has passed since priority was last reset
(or the player to act is out of the game). `GameTurn!Rule` maps the counter and the
index to the set of seats that have passed, and `RuleSpec` is checked and proved.

### GameSession

One game between its clients, the reaper and its thread. The turn structure
is left out: the game thread prompts somebody (`Prompt`, `PromptCombat`, `Ask`), checks
the connection (`CheckConnected`, `Resume`, `GiveUp`), takes an action (`Take`, `Poll`,
`TakeNothing`), decides (`Decide`, `Answer`, `TakeCombat`), and the rules may make anybody
lose. `game` holds what `Game::mutex_` guards, changed in one step where the code
holds the mutex throughout; `SubmitDeck`/`Start` and `LeaveGame`/`LeaveFinish` are two
steps because the handlers release it in between. An action has a type and says
whether it answers the prompt now open (`fresh`). `meant` records what a player asked
for; the code has no such variable.

### Combat

The combat phases of `run_phase` with `CombatManager` and `deal_damage`. `todo` holds the
players or attackers still to be prompted; between the phases the priority round may run
any `Effect` that moves a creature, changes its power or toughness or grants a keyword.
Declarations are sequences as the code keeps them, so an answer may name a creature
twice or for two attackers. `dealt` keeps what each damage step returned, `before` the
board of the first strike step, for the properties.

### Delivery

One player's client and the server's streams for it. `Emit` appends to the log and
collects the callbacks under the broadcaster's mutex, `CallBack` runs them one by one
outside it, so that everything else interleaves. A stream goes through the stages
`opened`, `subscribed` or `replay`, `loop`, `waiting`, `writing`, `ended`; an action
stream subscribes and then takes the snapshot, a state stream replays the log and
then subscribes. The client joins, loses streams, and reconnects with the highest
sequence number it has applied. gRPC is assumed to deliver what was written in order
until the stream is lost.

### Board

Where the cards of a game are, and what resolutions, card scripts and state-based
actions do to them. `zm` is the `ZoneManager`: the zones, the index of where a card is
(`find_card_zone`) and the permanents, with each player's sideboard. The operators on it
keep apart what the code keeps apart: `Add` and `RemoveFrom` tell the index, `PushBack`
and `Pop` (a caller that edits the list it got from `get_hand`) do not. A card is its
instance id and keeps it through every move.

All of this runs on the game's thread under the mutex, so `Board` has no interleaving but
nesting, and `agenda` is the call stack of the thread: a resolution is a `script` followed
by what `resolve_stack_entry` does next (`settle`, `check`); `destroy_permanent` inside a script
puts `news` (`fire_death_triggers`) before the rest of that script; a pass of the state-based
actions (`check`) removes the dying creatures at once, then is in `deaths`, whose scripts run
one by one, and `FinishPass` looks at legends, attachments and counters only after them. A
script may make any sequence of the calls of `GameContextImpl` that move, mark, create,
attach or counter something, with any ids. Players act when the agenda is empty. `asked`
is FALSE from the delayed triggers of the end step to the first answer after them, the one
place where somebody is asked before the state-based actions have been run.

What a reader of the code may not expect, and the model has as it is: a token that is
destroyed or sacrificed goes to the graveyard and one that is returned goes to a hand, while
the state-based actions drop it; a creature that is destroyed or sacrificed does not
run its own on_death, and one that the legend rule puts away is announced to nobody; a
flashback spell that fizzles or is countered goes to the graveyard.

A delayed trigger's callback that destroys or sacrifices a creature, or registers another trigger,
changes the vector `fire_delayed_triggers` is iterating over; that is undefined
behaviour, no card of the repository does it, and the model excludes it.

### Matchmaking

The queue, the match loop as six steps (the queue's, the manager's and the game's
mutexes are taken one after another), the uncollected results, and a `GameManager` in
which others create and join games too. A game is `open`, `full` or `removed`. Time is
the count of widenings of an entry's rating range; `wish` says who expects a game and
who was dropped by the loop.

### GameResults

Games, the streams of their players, the reaper, and the shutdown of `main`. `at` is where
each writing thread (a closing stream, the reaper) is between `acquire`, the statements of
its transaction and `release`; a row updated by one transaction is locked for the other
until it ends, and PostgreSQL aborts one of two that wait for each other. An elo is the
set of updates it accounts for: `seen` is what a transaction selected, and an UPDATE writes
that plus itself, so a lost update is a missing element. `course` of a game is `waiting`,
`playing`, `finished`; `watched` and `spoilt` remember that somebody was connected when it
was decided and that an attempt to write failed. `server` walks through the stages of
shutdown in `main`'s order.

### Mana

One player's cards from the hand over the stack to where they end. A cost is a record of
coloured symbols, generic mana, hybrid symbols and X's. `Payment` computes what
`compute_optimal_payment` computes, step by step in its order, and `Payable` compares it
with the pool; `CanPay` is `can_pay_cost`, which tries every choice of the hybrids. `AutoTap`
is `auto_tap_lands`. A `Cast` taps for Convoke and exiles for Delve before the payment is
tried, and a refused payment does not take that back: `lent` and `account` keep the books.
The loops of the code are recursive functions of the number of rounds (`HybridsPaid`,
`GenericPaid`, `AutoTap`, `Convoked`).

### ClientView

The game as far as events tell of it, both halves of a stream (`action` with its snapshot,
`state` with the replay of the log), the answer to `RejoinGame` under way, and
`Local_Game_State`. Every kind of operation of the server emits the events the code emits
for it, in one step; delivery is one event at a time from each stream, in any interleaving.
`history` remembers which of the known causes of a wrong picture have happened
(below); nothing depends on it but the properties' exceptions. A client that comes back takes
`Rejoin`; `ReadLog` is the first half of `StreamGameState`, `Follow` the second; `Show` is what the match
scene does with an event. The definitions of this module have other names than those of Delivery,
so that one module can be about both. An opponent's `hand_count` has no bound but zero: an event that
comes twice may count twice.

### MatchInput

One frame of `Scenes::Match` after the other: `keys` (shortcuts), `poll` (events), `board`
(`systems.cpp`, with the selection of the prompt that was drawn last), `drag`, `activate`, `click` (a
target), `load` (the selection of a new prompt), `button`. The model stands between two of these steps, so that
prompts may be replaced at the one place where the code takes them in. `picks` is the
function-local static state of `Match` that survives from prompt to prompt, `combat_ui`
(`Combat_UI_State`) the selection shared with the board. The definitions of this module have other
names than those of Combat, so that one module can be about both.

### Accounts, SignIn

`Accounts` is the server: a call is a set of outcomes, each with what it leaves on the
server and what the caller is told, because an interceptor cannot stop a call: it marks
it, the handler runs, and the status is replaced. `SignIn` is the client that comes with
the server, and the composition: `Auth_Client`'s thread takes its steps one by one
(`connect`, `call`, `set` the token, `save` the session, `push` the result, `release`
`in_flight_`) between the frames of the login scene and the menu.

## 3. What is checked

| Run | Instance | Shows |
|---|---|---|
| `turn` | 3 players, stack of 2 | the promises of the priority round, empty stacks, decided and stopped games |
| `session_consent` | 2 players, concessions, draws, leaving, 5 calls, queues of 2 | starting, results and what the players meant |
| `session_away` | 2 players, streams closed, rejoins, reaper, stop, 4 calls | pauses, absence, and that the thread returns |
| `combat` | 2 against 2 creatures, 2 effects | damage order, assignments and the damage steps |
| `delivery` | 3 action streams, 1 state stream, 2 events, queues of 1 | order, no gap, arrival |
| `board` | 4 cards and a token, scripts that make 3 calls, stack of 2 | no card lost or doubled, the index, the fixpoint of the state-based actions, attachments |
| `matchmaking` | 3 players, queue of 2, 1 game at a time | nobody twice, nobody forgotten, seats, progress |
| `results` | 2 games of the same players, 2 streams and the reaper, 1 failure | rows and tallies whole, what an elo forgets, what is recorded by the end |
| `mana` | 4 cards, 3 lands, a creature that makes mana | no card or mana lost, everything paid for, offers that can be paid |
| `client_view` | 5 cards, 2 events before the last operation, 1 lost stream | the client's picture and prompt once all has arrived |
| `match_input` | 15 prompts of all kinds, 2 of them asked, 1 delivered again | answers that fit, each prompt answered once |
| `accounts` | 2 users, tokens of 2 and 3 seconds, 3 calls, 2 starts, 1 call of another program | ended tokens stay ended, the scenes fit the session |

Bounds, and why they are enough.

- *turn*: `Game::max_players` is 2, but the priority code is written for any number and
  with 2 players "everybody else passed" and "one pass" are the same. Three players
  tell them apart. A stack of two entries is the least on which an entry below the
  top can be countered, or resolve after a trigger went on top of it.
- *session*: `Kinds` and `Calls` say which requests a run has; every step of the game
  thread is in all. Queues hold 1 or 2 actions (64 in the code), enough to be
  full and to hold a stale action before a fresh one; 2 stale actions are discarded
  (8 in the code); one stream per player. The calls made from outside are counted
  (`MaxCalls`): each hazard listed needs at most four. Symmetry of the two players
  is used in the safety runs only.
- *combat*: two creatures a side make double blocks, shared damage and a blocked next
  to an unblocked attacker. Effects happen at most twice, so that one can undo
  another; powers and toughnesses are in the definitions of `MCCombat`.
- *delivery*: with queues and log of 1 the second event already finds them full.
  Three action streams are two reconnections.
- *board*: a creature with the three kinds of triggers that cards have, a legendary aura, a
  legendary equipment with the same name (so that the legend rule takes away what
  something is attached to), a sorcery with flashback that begins in a sideboard, and a token. All
  scripts together make three calls (`MaxCalls`): one to mark, one to move and one in the
  script of a death is what each hazard needs. The stack takes a cast up to two entries,
  triggers go beyond. One delayed trigger (`MaxDelayed`; 1000 in the code) finds the list full for the second.
- *matchmaking*: three players for a queue of two and one game: a full queue, a full
  manager, and a third player who takes a seat. Two game ids let one game follow
  another. The ratings are chosen so that nobody is in range at first.
- *results*: both streams belong to one game, the other game has nobody connected, so that
  every pair of stream and reaper and of two streams of one game meets; both games have the
  same players, so that their transactions meet on the same rows. One connection for the
  history and two for the ratings (the code's default) make a full pool and two
  overlapping transactions. One failure of the database reaches each of its effects.
- *mana*: two hybrid symbols that want the same colour, a card with Delve and Convoke, one
  with X, kicker and flashback, one with an adventure, three lands of different colours.
  `MaxX = 1` tells X from no X.
- *client_view*: one operation that emits two events and one more, over up to four streams
  and answers. With one loss the action stream, the state stream and `RejoinGame` are all under
  way at once, which is the interesting case; the next reconnection begins like the first. One of the cards
  is in the opponent's library, so that what is hidden from this client moves too.
- *match_input*: what goes wrong between prompts goes wrong between two; the two target, damage,
  attacker and blocker prompts differ, so that a selection of the one does not fit the other. One replay
  is a prompt delivered twice; only with it are there creatures flagged as attackers that the prompt
  which is loaded does not name.
- *accounts*: two seconds are the life of an access token, so that one expires; a limit of two
  calls per second is met with three. Three calls are a failed, an overlapping and a late
  one; two starts are one restart with a saved session.

Fairness. GameTurn and GameSession assume that the game thread is scheduled; every wait
of it has a timeout (`wait_for`, `ActionQueue::pop`). In GameSession `TakeNothing` (the timeout itself) is
weakly fair, so that the queue of a player who sends nothing is given up; `NoCombat`
and the prompts of a player who does not pass automatically are strongly fair, because a phase has finitely many combat
prompts and a priority round goes to everybody in turn (which is what GameTurn
shows). In Delivery the callbacks, the stream threads and the client's reader are
weakly fair; emissions, reconnections and losses are not. In Matchmaking time and the
match loop are weakly fair; what players do is not. In GameResults the reaper's rounds and the
steps of the threads that write are weakly fair: waits for a connection and for a row end by
time-out or abort. No run assumes that a player
acts, comes back or collects a result. The other modules have no fairness and no liveness.

Deadlock is checked in all runs but those of Delivery, Matchmaking, GameResults and ClientView, where
the system may stop: a game that has been played and whose streams have ended sends nothing any more,
with the ids of the instance used up nobody may be left in a queue, and a server that is down
stays down.

Related invariants are checked as one property, their conjunction (`PhasesBeginSettled`, `GameFitsPlayers`,
`DamageFitsCombat`, ...); the parts are defined right before it.

Each property of a passing run has a faulty variant of the code that violates it; the
variants stand before the definitions they replace ("Faulty variant") and are listed under
"mutants".

### What the models showed

Where the code and what it says of itself disagree. Each of these was a counterexample
of TLC to the property its words suggest; the models keep what the code does, and the properties
above are what holds nevertheless.

1. *A concession without its confirmation* (`engine/game.cpp:2095`). The loop that polls for
   actions of any player takes a `yes_no` of one whose concession is pending, whatever
   prompt it answers. A "yes" already in the queue concedes the game as soon as the
   request is processed, though the code asks "Are you sure you want to concede?" (1658).
2. *A draw by an old acceptance* (`engine/game.cpp:2087`). `try_take_if("draw_response")` takes an
   acceptance that was queued before there was an offer; the next offer is accepted
   with it. The players read "Draw agreed by mutual consent" (1718).
3. *Menace* (`engine/combat_manager.cpp:269`). The rule is written down in `validate_menace`, which nothing calls.
4. *Until end of turn* (`engine/game.cpp:487`). The end step fires the delayed triggers of source
   0 only (980), while the one card that uses them registers its own for a permanent: the Scourge of the
   Undercity's "gains lifelink until end of turn" (`src/cards/black/scourge-of-the-undercity/card.lua:7`)
   lasts for the rest of the game.
5. *Hidden cards* (`service/game_service_impl.cpp:459`). `StreamGameState` replays and
   subscribes to everybody's events, so that a client that comes back is sent the other
   player's draws and snapshots ("cards in hidden zones are not visible to opponents",
   `engine/include/cle/game/zone.hpp:43`).

The exceptions the properties name are observations too.

- *GameTurn, Delivery, Matchmaking*: `run_cleanup_phase` loops without end when a game is stopped while
  triggers of the cleanup phase are on the stack (`CleanupSpin`); a client whose action stream comes back
  after `game_over` need not learn of the end (`client.over`); a result nobody collected is
  handed out with the next queueing.
- *GameResults*: a game that ends with a stream open is written and rated twice, once by the
  streams and once by the reaper (`RecordsWhole` says: never more). A finished game that nobody
  watched is not recorded when the server stops before the reaper comes. An exception in
  `on_game_finish` ends the process (`server = "dead"`).
- *Mana*: `auto_tap_lands` always clears the undo stack, so that undo never undoes anything after a
  payment; two hybrid symbols may refuse what could be paid (`OneChoice`); a refused payment leaves
  lands tapped, creatures convoked and cards exiled. The pool takes one mana for `{2/W}` where no white is
  paid, while `mana_value` (`src/engine/tests/unit/test_mana_cost.cpp:75`) counts two.
- *ClientView*: a late answer to `RejoinGame` overwrites a newer picture, and the gap of a state stream
  stays, until the snapshot of the next untap step (`astray`); the entry of a countered ability stays on
  the client's stack (`ghosts`); the opponent's snapshot, which a state stream carries, empties the own hand;
  draws that both streams deliver count twice (`again`); a prompt emitted before the first stream is
  there, or in the gap, is never shown (`missed`).
- *MatchInput*: a click on an eligible attacker is a release and a drop in one and selects it twice; the server
  rejects the second, except for a creature with Vigilance, which then attacks twice (the exception in
  `AttacksOnce`). A target that is clicked while no prompt is shown is sent with the next target prompt, fit
  or not (the exception in `TargetFits`). A blockers prompt that a state stream delivers again flags its
  attackers once more, and they stay flagged under the prompt of the next combat: the client lets the player block
  a creature that does not attack (the exception in `AttackerFits`); the proof of `AnswerFits` came upon this.
- *SignIn*: a second login may overlap the first (`overlap`), and then the menu may show one user with the
  token of another; a late success signs in again after Logout. Any failure to validate, an unreachable
  server included, forgets the saved session. The menu's Logout does not tell the server, `Refresh` is
  never called, and would be refused: it carries no token of its own. A token that a refresh
  token was exchanged for names no user.

## 4. What is proved

`GameTurnProofs`, for every number of players `N >= 2` (`NAssumption`) and every bound of
the stack (`MaxStackAssumption`):

| Theorem | Property |
|---|---|
| `TypeCorrect` | `TypeOK` |
| `StackIsEmptied`, `DecidedGamesStop` | the parts of `PhasesBeginSettled` |
| `PhasesAreSettled` | `PhasesBeginSettled` |
| `PriorityInTurnOrder`, `EveryoneCanRespond` | the parts of `PriorityGoesRound` |
| `PriorityReachesAll` | `PriorityGoesRound` |
| `ImplementsPriorityRule` | `RuleSpec` |

The invariants are not inductive by themselves. `IInv` adds three facts about the loops of the
game thread. `LateChecks`: deaths of creatures that were never checked for exist only in
the end step, where the delayed triggers run after the last check; so a state check
in any other phase puts nothing on the stack after a pass. `OuterReason`: the inner loop
is left when all have passed or the holder is out of the game, which
is when the outer loop may resolve an entry. `EmptyAtEnd`: a running game gets to the
end of a phase with an empty stack. `TypeCorrect` is proved first, one lemma for
the steps of the thread and one for the rest; then each conjunct of `IInv` has a lemma
with one step per action. The refinement proof shows that `Passed`, the seats behind the
holder, grows by one seat with a pass that stays in the round (`OneMoreSeat`) and is
complete with the last (`LastSeat`), and then maps every action to `Pass`, `Reset`, `Quiet` or
`Resolve` of the abstract rule.

`SignInProofs`, for any names, lives of tokens (`LivesArePositive`), rate limit (`RateIsPositive`)
and bounds of the model (`BoundsAreNumbers`), with a `Nobody` who is no user (`NobodyHasNoName`):

| Theorem | Property |
|---|---|
| `SignInTypeCorrect` | `TypeOK` of SignIn |
| `LogoutIsFinal` | `EndedStaysEnded` of Accounts, of the server SignIn calls |
| `SceneShowsSession` | `SceneFitsSession` |

`SignInInv` has three parts. `ServerShape`: a token was issued in the past, and only issued ones are
revoked. `Ended`: the revocation of a token whose Logout succeeded lasts at least as long
as the token, which is what stays true when time passes, Redis comes and goes and others call. `ClientInv`:
what a call carries in each step, and, as long as no two calls overlap (`OneCall`),
what the client holds meanwhile: there is at most one result, and it was prepared by the steps before it
(`Busy`, `Settles`). `SceneFitsSession` alone is not inductive, because it says nothing of the time between
the server's answer and the frame that polls it.

`MatchmakingProofs`, for any players, ratings, `max_queue_size`, `max_games` and bounds of
the model (`LimitsAreNumbers`):

| Theorem | Property |
|---|---|
| `MatchmakingTypeCorrect` | `TypeOK` |
| `EveryPlayerAccounted` | `PlayersAccounted` |

`MatchInv` adds what the loop holds in each step (`MakerShape`), that a full game has two players
and an open one at most one (`RoomShape`), and `Pairing`: while the loop seats its
pair, the game it has created, if it is still held, was made for these two, and who
has been seated sits there, unless somebody else does (`Placed`). `SeatsKept` speaks of results only; `Pairing` is
the same for a pair that will have them. Lemmas about sequences (`RemoveAtDistinct`, `AppendDistinct`) and
about the manager (`CreateFacts`, `JoinFacts`) carry the steps.

`GameResultsProofs`, for any games, streams, pools and numbers of failures, where every pool has
a connection (`Sizes`) and the two seats of a game are taken by two players (`TwoSeats`):

| Theorem | Property |
|---|---|
| `ResultsInvariant` | the inductive invariant |
| `ResultsTypeOK` | `TypeOK` |
| `ResultsAreWhole` | `RecordsWhole` |
| `ForgottenOnlyWhenRacing` | `ForgottenOnlyInARace` |
| `WatchedResultIsKept` | `WatchedIsKept` |

`ResultsInv` says which of its two records a thread still has to write, and that these are not there
yet (`Unwritten`); that no two threads write the same ones (`OneWriter`): of the streams of a game only
the one that found its id missing from `recorded_game_ids_` writes, and the reaper only what it has
removed from the manager; that an elo, and each elo that a transaction has selected, lacks of the
updates committed by then only those that another overlapped (`SeenRemembers`); that a watched game
has a stream that is going to write it until it is written (`Kept`); and that no more threads hold a
connection of a pool than were taken from it (`Marked`), for the type of the pools.

`GameSessionProofs`, for any two players (`PlayersAssumption`: `max_players` is two), any kinds of actions
and any lengths of the queues, streams, calls and retries (`KindsAssumption`, `BoundsAssumption`):

| Theorem | Property |
|---|---|
| `SessionInvariant` | the inductive invariant |
| `SessionTypeOK` | `TypeOK` |
| `GameFits` | `GameFitsPlayers` |
| `OutcomesAreMeant` | `OutcomeIsMeant` |
| `AbsencesAreFair` | `AbsenceIsFair` |

`SessionInv` ties the state of a game to its thread (`Lives`: it is idle exactly before the
game starts, and a game that does not run was finished or stopped), and has whatever a player asks for
be meant at once in his queue, in the action that was taken from it, in the open requests and in the
result (`AllMeant`). `GameFitsPlayers` and `OutcomeIsMeant` are conjuncts of it or follow. The part of `GameFitsPlayers`
about two states is a relation of two games (`Evolves`): its operators each satisfy it, it composes, and
an action is a few of them in a row.

`DeliveryProofs` is about two modules. About Delivery, for any streams (`StreamsDiffer`), history, `max_pending_events` and
`max_event_log_size` (`LimitsAreNumbers`):

| Theorem | Property |
|---|---|
| `DeliveryInvariant` | the inductive invariant |
| `DeliveryTypeOK` | `TypeOK` |
| `NeitherGapNorRepeat` | `NoGapNoRepeat` |

A callback appends the last event to what a stream has pending. So a stream that is still to be called back must
not have that event yet (`Ahead`), and must be called back once and be told only if it is
subscribed (`Orderly`); and what it takes stays in order only if it has written what it took before
(`Placed`). `LineMoves` says what a step can do to a stream's line of events, which
the proofs of order and of completeness share. `Among`, the loop over the subscribers, is a
recursive function; that it keeps exactly the elements asked for, once each, is an induction over its
argument, done by the least counterexample (`UpTo`), for which the library's well-founded `<` suffices.

About ClientView, for any two players (`PlayersDiffer`), any finitely many cards, life totals and cards in hand
(`CardsOwned`), and any bounds of the model (what they are is nowhere used):

| Theorem | Property |
|---|---|
| `ViewInvariant` | the inductive invariant |
| `ViewTypes` | `ViewTypeOK` |
| `SettledViewAgreesAlways` | `SettledViewAgrees` |
| `PromptShownAlways` | `PromptShown` |

The properties speak of a client to which nothing is under way; `ViewInv` says, while there is, why it will be so.
It has four parts. `Shape` is the types of everything, and that the stack's ids are new and different.
`Tells` takes the picture apart into facts (`Marks`: a life total, a permanent on a side, an entry of the stack, a
card in the own hand), each true in the game or not. An event is *final* for a fact if it is the last that touches it and says
what is so (`Final`). Whatever the view, or a snapshot under way, says wrong of a fact, a final event for this
player corrects that is still to come (`ViewTells`, `SnapsTell`, `LogTells`). That is why it does not matter that
events come twice and in any order, and why a client goes astray when a state stream passes over events. No copy is compared
with another: each event keeps, makes right or does not touch each fact (`Says`, `Touches`), one lemma per
kind of event, and a step of the game either leaves a fact as it was or tells of it (`Steady`, `Anew`).
`Counts` needs the order, and holds as long as nothing counted twice: an exact view lacks what the events after it
take (`Exact`: a library's count exceeds the library by the events to come that take a card from it, and a card is in the own
hand as its last event says), and these events go alternately in and out of the hand (`Alternates`). A view is
exact after the latest event that is known, unless one before it is still to come. `Prompts` says that the prompt
the game waits for is the last that was sent (`LastAsked`), and is shown, or will be brought by a
stream, perhaps by one that is not open yet (`Awaited`, `StateReach`).

`PlayProofs` is about three modules, which share lemmas about recursion and sequences. About Combat, for
any seats, creatures, keywords, powers and effects, and any number of them (`CombatAssumption`, `IdsDiffer`):

| Theorem | Property |
|---|---|
| `CombatInvariant` | the inductive invariant |
| `CombatTypes` | `TypeOK` |
| `DeclarationsFitAlways` | `DeclarationsFit` |
| `DamageFitsAlways` | `DamageFitsCombat` |

`DamageFitsCombat` speaks of the step that deals damage, while what decides it was declared, ordered and
assigned in prompts before, with effects in between. `CombatInv` carries it there: who may still be prompted in
a phase (`Phased`), what is empty until its phase comes (`Early`), that who is still to declare blockers has none
(`BlocksOpen`), that an assignment that was accepted goes on to fit its attacker (`ChoicesHold`), and
who struck in the first damage step (`FirstRound`). Then each step of `resolve_combat_damage` is accounted for:
what an attacker deals by the code's choice (`DefaultSpends`), by the player's (`CustomSpends`) and unblocked
(`UnblockedSpends`) adds up to its power (`AttackerSpends`), and no two records of damage are equal, so
that a sum over the set is the sum over the sequence (`SharesAre`).

About MatchInput, for any permanents of which the player's are finitely many (`MineAreFinite`), any cards and
prompts (`OffersArePrompts`), and any number of prompts (`PromptsAreBounded`):

| Theorem | Property |
|---|---|
| `NoSecondAnswer` | `AnsweredOnce` |
| `InputInvariant` | the inductive invariant |
| `InputTypes` | `InputTypeOK` |
| `AnswersFitPrompts` | `AnswerFits` |

`AnswersInv` counts what a prompt has left: the one that is shown was answered at
most as often as it was delivered again, every other at most once more. `AnswerFits` says of the last answer
that it fits its prompt; `InputInv` says why the next one will. A selection fits the prompt that was loaded
(`Selected`, `Picked`), whichever prompt is shown meanwhile, and a button is only pressed when the two are the
same (`PanelLoaded`). A creature flagged as attacking was named by a prompt, and by the one that is shown and
by the one that is loaded as long as none was delivered again (`Flagged`). What fitted goes on to fit when
prompts are added (`FitsLater`, `SelectedLater`, `PickedLater`).

About Mana, for any cards, costs, lands, creatures and colours of them (`CardsAreCards`: they are finitely many, an id
is one of a land, a creature in play or a card, a land makes mana, and a cost has no negative symbols):

| Theorem | Property |
|---|---|
| `ManaInvariant` | the inductive invariant |
| `ManaTypes` | `ManaTypeOK` |
| `NothingVanishesAlways` | `NothingVanishes` |
| `PaidInFullAlways` | `PaidInFull` |
| `OfferedPayableAlways` | `OfferedIsPayable` |

`compute_optimal_payment` and `auto_tap_lands` are loops, and what is proved of them is what they keep in each
round: what is left and what is paid make up the pool (`PayingFrom`), and the total paid is the number of symbols
done (`HybridsFit`, `GenericPaidFits`, `PaymentFits`); each land that is tapped adds one mana (`AutoTapFits`). So whatever
the order of the lands, and whether or not the payment succeeds, the pool has what it had, one more for each land,
less the value of the cost when it is paid (`SettlementOf`, `SettlementsFit`), and the books go on to balance (`Booked`,
`Charged`). Convoke takes at most one mana off for each creature (`ConvokedFits`) and Delve exactly one for each card
(`PriceMet`), which is `PaidInFull`. With one hybrid symbol the half of which more is left is never the wrong one, and
generic mana then finds something to take as long as the total suffices (`CanPayIsPayable`). `CardsAccounted` counts
places; `ManaInv` says that they exclude each other (`Apart`) and hold nothing twice (`Placed`), which every step keeps
because it takes a card out of one place before it puts it into another (`Cut`, `RemoveOnce`, `PushFits`, `PopFits`). That
there is never anything to undo is a conjunct of the invariant: it is why no step gives a land back its mana.

In all three parts the recursive functions (`AtPositions`, `Left`, `Without`, those of Mana's payments and the library's
sum over a set) are shown to compute what they should by exhibiting a function with the same equations
(`FollowsExists`, `SumsExist`); inductions are again by the least counterexample (`UpTo`).

`BoardProofs`, for any cards, tokens, kinds, triggers and keywords (`BoardAssumption`: cards and tokens
are different and finitely many, decks belong to players) and any limit of `delayed_triggers_`:

| Theorem | Property |
|---|---|
| `BoardInvariant` | the inductive invariant |
| `BoardTypeOK` | `TypeOK` |
| `BoardZonesSound` | `ZonesSound` |
| `BoardSettled` | `SettledWhenAsked` |

`ZonesSound` counts places; `BoardInv` says what each id's place is. An id is `Placed` (in one list or on
the battlefield, with what `find_card_zone` must say of it), or held by one spell of the stack, or by one
sorcery that is resolving and is put away by a later call, or it is a token's and `Nowhere`. Without
the owners it is not inductive: moves by scripts look for the owner, moves by resolutions trust the
controller of the stack entry, and these agree only because nobody casts another player's card
(`Own`, in `FitEntries` and `FitTasks`). Hands are where the index may be ignorant (`Marked`), because
`return_to_hand` does not tell it. A step either moves cards inside the ZoneManager (`Moved`, which
composes: `MovedTwice`) or hands one over between it, the stack and the call stack
(`HeldConcat`, `HeldTail`, `HeldRemoved`). `Remaining`, the delayed triggers that did not fire, is a
recursive function, and its bound is an induction by the least counterexample (`UpTo`).

`SettledWhenAsked` speaks of the states in which nothing runs; `SettledInv` of all. While something
runs, the state-based actions are its last call, in a pass or waiting for one (`Ends`), whatever is nested
above them. Only in the end step, before anybody has acted, are there callbacks and nothing else
(`OnlyCallbacks`), and these can neither kill nor counter. A pass ends the calls only when
it found nothing to do, and then the battlefield is as it was and has nothing for another pass (`PassFindsNothing`).
Attachments are kept through every step, also when a player is not asked, by `Attachments`: what a permanent is
attached to lists it, or is gone and in no library. The second half is what the proof found necessary, because
`search_library_to_battlefield` may run in the middle of a pass, before what has come loose is
taken off; a spell becomes a permanent only when nothing is loose. Most steps only remove permanents
or take them off (`Fewer`, which composes: `FewerTwice`).

Only model-checked are the liveness properties (`StoppedGameEnds`, `NobodyWaitsForever`, `EventsArrive`,
`NoTwoWaitForever`, `FinishedIsRecorded`): they rest on fairness and ENABLED, which the
prover does not treat. Every invariant and every action property that a run checks is proved.

`Board` states no liveness: that its scripts end is
assumed (`MaxCalls`), and that the state-based actions reach a fixpoint is not claimed.

## 5. Not modelled, and the plan

Left out for good: rendering and layout of the client and its scenes without calls to the
server, logging, metrics, configuration, the Lua cards and the wire format with its
conversions (data), password hashing (a library call),
deck validation (a stateless check), migrations (run once before anything else), the
best-of-three counter, which no service creates.

Left out of the modules:

- *Board*: lands, mulligans, the order of the library, targets of abilities and
  modes, the discard to hand size, phase and combat triggers, sizes of power and
  toughness, continuous and replacement effects. A creature cast as its adventure resolves as the
  creature (`game.cpp:1798`); Mana has that.
- *Combat*: planeswalkers and wither.
- *GameSession*: everything that belongs to one card or to the lobby.
- *Mana*: lands with other abilities that tap, hybrid symbols with a number or with Phyrexian mana, sacrifices.
- *ClientView*: graveyards, exile, mana, counters and control, which few events tell of and every
  untap snapshot heals; the mulligan; prompts in the middle of scry, surveil and search, which
  release the mutex while cards are in nobody's zone.
- *MatchInput*: concede, draw and auto-pass buttons, and the use of a prompt after
  `Clear_Prompt` in the frame that answered it.
- *Delivery, ClientView*: a reader left over from a stream that was stopped and started again at once.

The hazards without a property have a note in `PROJECT.json`.
