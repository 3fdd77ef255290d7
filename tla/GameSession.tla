---------------------------- MODULE GameSession ----------------------------
(***************************************************************************)
(* The life of one game between its clients, the reaper and its own        *)
(* thread: joining and starting, the prompts and the queues of actions     *)
(* they are answered through, streams that come and go, waits that time    *)
(* out, concessions, agreed draws, the clock, and the result.  What the    *)
(* cards and the turn structure do is module GameTurn's business; here the *)
(* game thread prompts some player, takes an action from a queue, and the  *)
(* state-based actions may make any player lose.                           *)
(*                                                                         *)
(* A queued action is its type and whether it carries the id of the prompt *)
(* that is now open.  Game::max_players is 2, so "every other player" is   *)
(* one player.                                                             *)
(***************************************************************************)
EXTENDS Integers, Sequences, FiniteSets

CONSTANTS Players,
          None,        \* no player
          Kinds,       \* bound of the model: types of action the clients submit
          Calls,       \* bound of the model: what else is called
          MaxPending,  \* ActionQueue::max_pending (64)
          MaxStale,    \* max_stale_retries (8)
          MaxStreams,  \* bound of the model: open streams of one player
          MaxCalls     \* bound of the model: calls by clients, reaper and main

ASSUME PlayersAssumption ==
  /\ IsFiniteSet(Players) /\ Cardinality(Players) = 2
  /\ {None, "none", "draw", "agreed"} \cap Players = {}
ASSUME KindsAssumption ==
  Kinds \subseteq {"pass", "act", "yes", "no", "concede_request", "draw_offer",
                   "accept", "decline", "auto_on", "auto_off"}
ASSUME CallsAssumption == Calls \subseteq {"leave", "close", "rejoin", "reap", "stop"}
ASSUME BoundsAssumption == /\ MaxPending \in Nat \ {0}
                           /\ MaxStale \in Nat \ {0}
                           /\ MaxStreams \in Nat /\ MaxCalls \in Nat

Other(p) == CHOOSE q \in Players : q # p

VARIABLES
  \* the Game object, guarded by Game::mutex_: state_, running_, why each
  \* player lost ("in": not yet), pending_concede_, pending_draw_offer_from_,
  \* result_, auto_pass_modes_ other than Disabled and FullControl
  game,
  joined,     \* players_
  decks,      \* players with deck_submitted_
  starting,   \* SubmitDeck calls between submit_deck and start
  leaving,    \* LeaveGame calls that saw a game not in progress
  queue,      \* action_queues_
  streams,    \* open SubmitAction streams of each player
  connected,  \* connected_players_
  away,       \* keys of disconnect_times_
  stale,      \* those of them older than the reaper's timeout
  pc,         \* where the game thread is
  purpose,    \* what it waits for an action for: "priority" or "combat"
  holder,     \* the player it waits for
  prompt,     \* addressee of the open prompt, None if it has no id
  attempt,    \* stale actions discarded so far
  action,     \* the action taken from the queue, if any
  expired,    \* players whose clock has run out
  stopped,    \* Game::stop was called
  calls,      \* calls made from outside the game thread so far
  meant       \* history: what the players have asked for

thread == <<pc, purpose, holder, prompt, attempt, action>>
lobby == <<joined, decks, starting, leaving>>
links == <<streams, connected, away, stale>>
asking == <<purpose, holder, prompt, attempt>>
outside == <<lobby, links, stopped, calls, meant>>
vars == <<game, lobby, queue, links, thread, expired, stopped, calls, meant>>

Call == calls < MaxCalls /\ calls' = calls + 1

CallTo(c) == c \in Calls /\ Call

Nothing == [kind |-> "none", fresh |-> FALSE]

-----------------------------------------------------------------------------
(* Losing and winning *)

Alive(g) == {p \in Players : g.cause[p] = "in"}

\* Player::eliminate; the first cause is the one that counts.
Eliminate(g, p, why) ==
  IF g.cause[p] = "in" THEN [g EXCEPT !.cause[p] = why] ELSE g

Winner(g) == IF Alive(g) = {} THEN "draw" ELSE CHOOSE p \in Players : p \in Alive(g)

\* WinConditionChecker::check and what its callers do with its answer.
CheckWin(g) ==
  IF Cardinality(Alive(g)) <= 1
    THEN [g EXCEPT !.result = Winner(g), !.state = "Finished", !.running = FALSE]
    ELSE g

-----------------------------------------------------------------------------
(* process_action for the actions that concern the session; the rest is up *)
(* to the state-based actions that follow.                                 *)

Concede(g, p, forced) ==
  IF ~forced /\ p \notin g.pending
    THEN g
    ELSE CheckWin(Eliminate([g EXCEPT !.pending = @ \ {p}], p,
                            IF forced THEN "forced" ELSE "conceded"))

\* Faulty variant: a player may accept his own offer.
RespondToSelf(g, p, accepted) ==
  IF g.offer = None
    THEN g
    ELSE IF accepted
           THEN [g EXCEPT !.result = "agreed", !.state = "Finished", !.running = FALSE]
           ELSE [g EXCEPT !.offer = None]

Respond(g, p, accepted) ==
  IF g.offer \in {None, p}
    THEN g
    ELSE IF accepted
           THEN [g EXCEPT !.result = "agreed", !.state = "Finished", !.running = FALSE]
           ELSE [g EXCEPT !.offer = None]

Process(g, p, a) ==
  CASE a.kind = "concede_request" -> [g EXCEPT !.pending = @ \cup {p}]
    [] a.kind = "yes" /\ p \in g.pending -> Concede(g, p, FALSE)
    [] a.kind = "no" -> [g EXCEPT !.pending = @ \ {p}]
    [] a.kind = "concede" -> Concede(g, p, FALSE)
    [] a.kind = "forced" -> Concede(g, p, TRUE)
    [] a.kind = "draw_offer" -> IF g.offer = None THEN [g EXCEPT !.offer = p] ELSE g
    [] a.kind = "accept" -> Respond(g, p, TRUE)
    [] a.kind = "decline" -> Respond(g, p, FALSE)
    [] a.kind = "auto_on" -> [g EXCEPT !.auto = @ \cup {p}]
    [] a.kind = "auto_off" -> [g EXCEPT !.auto = @ \ {p}]
    [] OTHER -> g

-----------------------------------------------------------------------------
(* Queues *)

\* Faulty variant: the queue has no limit.
SubmittedAlways(q, p, a) == [q EXCEPT ![p] = Append(@, a)]

\* ActionQueue::submit rejects what comes when the queue is full.
Submitted(q, p, a) ==
  IF Len(q[p]) < MaxPending THEN [q EXCEPT ![p] = Append(@, a)] ELSE q

\* A new prompt makes the answers still queued stale.
Aged(q) == [p \in Players |-> [i \in 1 .. Len(q[p]) |-> [q[p][i] EXCEPT !.fresh = FALSE]]]

\* ActionQueue::try_take_if, and process_action with what it took.
TakeIf(st, p, kinds) ==
  LET at == {i \in 1 .. Len(st.q[p]) : st.q[p][i].kind \in kinds}
      first == CHOOSE i \in at : \A j \in at : i <= j
  IN IF at = {}
       THEN st
       ELSE [g |-> Process(st.g, p, st.q[p][first]),
             q |-> [st.q EXCEPT ![p] = SubSeq(@, 1, first - 1)
                                       \o SubSeq(@, first + 1, Len(@))]]

Confirm(st, p) == IF p \in st.g.pending THEN TakeIf(st, p, {"yes", "no"}) ELSE st

\* What the game thread looks for in the queue of a player it does not wait for.
PollOther(st, p) ==
  LET offered == IF st.g.offer = None THEN TakeIf(st, p, {"draw_offer"}) ELSE st
      answered == IF offered.g.offer # None
                    THEN TakeIf(offered, p, {"accept", "decline"}) ELSE offered
  IN Confirm(TakeIf(answered, p, {"concede_request"}), p)

-----------------------------------------------------------------------------
Init ==
  /\ game = [state |-> "WaitingForPlayers", running |-> FALSE,
             cause |-> [p \in Players |-> "in"], pending |-> {}, offer |-> None,
             result |-> "none", auto |-> {}]
  /\ joined = {} /\ decks = {} /\ starting = {} /\ leaving = {}
  /\ queue = [p \in Players |-> <<>>]
  /\ streams = [p \in Players |-> 0]
  /\ connected = {} /\ away = {} /\ stale = {}
  /\ pc = "idle" /\ purpose = "priority" /\ holder = None /\ prompt = None
  /\ attempt = 0 /\ action = Nothing
  /\ expired = {} /\ stopped = FALSE /\ calls = 0
  /\ meant = [p \in Players |-> {}]

(* The lobby *)

\* JoinGame; the second player makes the game wait for decks.
AddPlayer(p) ==
  /\ game.state = "WaitingForPlayers"
  /\ p \notin joined
  /\ joined' = joined \cup {p}
  /\ game' = IF joined' = Players THEN [game EXCEPT !.state = "WaitingForDecks"] ELSE game
  /\ UNCHANGED <<decks, starting, leaving, queue, links, thread, expired, stopped,
                 calls, meant>>

\* SubmitDeck up to and including Game::submit_deck.
SubmitDeck(p) ==
  /\ game.state = "WaitingForDecks"
  /\ p \in joined \ decks
  /\ decks' = decks \cup {p}
  /\ starting' = starting \cup {p}
  /\ UNCHANGED <<game, joined, leaving, queue, links, thread, expired, stopped,
                 calls, meant>>

MayStart == game.state = "WaitingForDecks" /\ ~game.running /\ decks = Players

\* Game::start, which each SubmitDeck calls after its own submit_deck.
Start(p) ==
  /\ p \in starting
  /\ starting' = starting \ {p}
  /\ IF MayStart
       THEN /\ game' = [game EXCEPT !.running = TRUE, !.state = "InProgress"]
            /\ pc' = "head"
       ELSE UNCHANGED <<game, pc>>
  /\ UNCHANGED <<joined, decks, leaving, queue, links, asking, action, expired,
                 stopped, calls, meant>>

\* LeaveGame reads the state without the game's mutex: in a game that is being
\* played it submits an unforced concession ...
LeaveGame(p) ==
  /\ CallTo("leave")
  /\ p \in joined
  /\ IF game.state \in {"InProgress", "Paused"}
       THEN /\ queue' = Submitted(queue, p, [kind |-> "concede", fresh |-> FALSE])
            /\ UNCHANGED leaving
       ELSE /\ leaving' = leaving \cup {p}
            /\ UNCHANGED queue
  /\ UNCHANGED <<game, joined, decks, starting, links, thread, expired, stopped, meant>>

\* ... and in any other it eliminates the player, by then perhaps of a game
\* that has started.
LeaveFinish(p) ==
  /\ p \in leaving
  /\ leaving' = leaving \ {p}
  /\ game' = Eliminate(game, p, "left")
  /\ UNCHANGED <<joined, decks, starting, queue, links, thread, expired, stopped,
                 calls, meant>>

(* Streams *)

Resumed(g) == IF g.state = "Paused" THEN [g EXCEPT !.state = "InProgress"] ELSE g

\* set_player_connected(p, true); a paused game resumes, whoever it waits for.
Connect(p) ==
  /\ connected' = connected \cup {p}
  /\ away' = away \ {p}
  /\ stale' = stale \ {p}
  /\ game' = Resumed(game)

\* SubmitAction is called ...
OpenStream(p) ==
  /\ Call
  /\ p \in joined
  /\ streams[p] < MaxStreams
  /\ streams' = [streams EXCEPT ![p] = @ + 1]
  /\ Connect(p)
  /\ UNCHANGED <<lobby, queue, thread, expired, stopped, meant>>

\* ... and ends: set_player_connected(p, false), other streams or not.
CloseStream(p) ==
  /\ CallTo("close")
  /\ streams[p] > 0
  /\ streams' = [streams EXCEPT ![p] = @ - 1]
  /\ connected' = connected \ {p}
  /\ away' = away \cup {p}
  /\ stale' = stale \ {p}
  /\ UNCHANGED <<game, lobby, queue, thread, expired, stopped, meant>>

\* RejoinGame connects the player, with or without a stream.
Rejoin(p) ==
  /\ CallTo("rejoin")
  /\ p \in joined
  /\ game.state \in {"InProgress", "Paused"}
  /\ Connect(p)
  /\ UNCHANGED <<lobby, queue, streams, thread, expired, stopped, meant>>

\* The actions that ask for something.
Requests == {"concede_request", "draw_offer", "accept"}

\* A client submits an action over its stream.
Submit(p, k) ==
  /\ streams[p] > 0
  /\ Call
  /\ \E f \in {FALSE, prompt = p /\ k \in {"pass", "act", "yes", "no"}} :
        queue' = Submitted(queue, p, [kind |-> k, fresh |-> f])
  /\ meant' = [meant EXCEPT ![p] = @ \cup ({k} \cap Requests)]
  /\ UNCHANGED <<game, lobby, links, thread, expired, stopped>>

(* The reaper, and Game::stop *)

\* A player has been away longer than disconnect_timeout_.
TurnStale(p) ==
  /\ "reap" \in Calls
  /\ p \in away \ stale
  /\ stale' = stale \cup {p}
  /\ UNCHANGED <<game, lobby, queue, streams, connected, away, thread, expired,
                 stopped, calls, meant>>

\* eliminate_player for one of stale_disconnected_players.
Reap(p) ==
  /\ CallTo("reap")
  /\ game.state \in {"InProgress", "Paused"}
  /\ p \in stale
  /\ game.cause[p] = "in"
  /\ queue' = Submitted(queue, p, [kind |-> "forced", fresh |-> FALSE])
  /\ meant' = [meant EXCEPT ![p] = @ \cup {"reaped"}]
  /\ UNCHANGED <<game, lobby, links, thread, expired, stopped>>

\* Game::stop up to joining the thread; a game not started has nothing to stop.
StopGame ==
  /\ CallTo("stop")
  /\ pc # "idle"
  /\ ~stopped
  /\ stopped' = TRUE
  /\ game' = [game EXCEPT !.running = FALSE]
  /\ queue' = [p \in Players |->
                 Submitted(queue, p, [kind |-> "shutdown", fresh |-> FALSE])[p]]
  /\ UNCHANGED <<lobby, links, thread, expired, meant>>

-----------------------------------------------------------------------------
(* The game thread: waiting for a player *)

\* Head of the priority loop, a player in auto-pass mode being skipped at will.
Prompt(p) ==
  /\ pc = "head"
  /\ game.running
  /\ pc' = "connect" /\ purpose' = "priority" /\ holder' = p /\ attempt' = 0
  /\ prompt' = IF p \in game.pending THEN None ELSE p
  /\ queue' = Aged(queue)
  /\ UNCHANGED <<game, outside, action, expired>>

\* The prompts of the combat phases, between two priority rounds.
PromptCombat(p) ==
  /\ pc = "combat"
  /\ pc' = "connect" /\ purpose' = "combat" /\ holder' = p /\ attempt' = 0
  /\ prompt' = p
  /\ queue' = Aged(queue)
  /\ UNCHANGED <<game, outside, action, expired>>

NoCombat ==
  /\ pc = "combat"
  /\ pc' = "head"
  /\ UNCHANGED <<game, outside, queue, asking, action, expired>>

\* Where the thread goes when wait_for_connected_player returned false.
WithoutHolder == IF purpose = "combat" THEN "head" ELSE "end"

\* wait_for_connected_player, up to its wait.
CheckConnected ==
  /\ pc = "connect"
  /\ IF holder \in connected \/ ~game.running
       THEN /\ pc' = IF game.running THEN "take" ELSE WithoutHolder
            /\ UNCHANGED game
       ELSE /\ pc' = "paused"
            /\ game' = [game EXCEPT !.state = "Paused"]
  /\ UNCHANGED <<outside, queue, asking, action, expired>>

Resume ==
  /\ pc = "paused"
  /\ game.running
  /\ holder \in connected
  /\ game' = [game EXCEPT !.state = "InProgress"]
  /\ pc' = "take"
  /\ UNCHANGED <<outside, queue, asking, action, expired>>

\* Faulty variant: the wait ends without a look at who has connected.
MayGiveUpBlindly == TRUE

MayGiveUp == holder \notin connected \/ ~game.running

\* A player who still is in the game loses it by his own fault.
Loses(g, p, why) ==
  IF g.cause[p] = "in" THEN CheckWin(Eliminate(g, p, why)) ELSE g

\* The wait timed out, or running_ was reset during it.
GiveUp ==
  /\ pc = "paused"
  /\ MayGiveUp
  /\ game' = Loses(game, holder, "absent")
  /\ pc' = WithoutHolder
  /\ UNCHANGED <<outside, queue, asking, action, expired>>

-----------------------------------------------------------------------------
(* The game thread: taking an action *)

Session == {"concede", "concede_request", "shutdown", "auto_on", "auto_off",
            "draw_offer", "accept", "decline", "forced"}

\* The actions the priority loop accepts from the holder; others are stale.
Accepts(a) == \/ a.kind \in Session
              \/ a.kind \in {"yes", "no"} /\ holder \in game.pending
              \/ a.fresh

\* try_take finds an action of the holder's.
Take ==
  /\ pc = "take" /\ purpose = "priority" /\ game.running
  /\ queue[holder] # <<>>
  /\ queue' = [queue EXCEPT ![holder] = Tail(@)]
  /\ IF Accepts(Head(queue[holder]))
       THEN action' = Head(queue[holder]) /\ pc' = "clock" /\ UNCHANGED attempt
       ELSE /\ attempt' = attempt + 1
            /\ action' = Nothing
            /\ pc' = IF attempt' = MaxStale THEN "clock" ELSE "take"
  /\ UNCHANGED <<game, outside, purpose, holder, prompt, expired>>

\* It finds none, and the queue of the other player is polled.
Poll ==
  /\ pc = "take" /\ purpose = "priority" /\ game.running
  /\ queue[holder] = <<>>
  /\ LET st == PollOther([g |-> game, q |-> queue], Other(holder))
     IN game' = st.g /\ queue' = st.q
  /\ UNCHANGED <<outside, thread, expired>>

\* Faulty variant: the loop does not test running_.
LoopEndsLate == game.running

LoopEnds == TRUE

\* The deadline has passed, action queued or not, or running_ was reset.
TakeNothing ==
  /\ pc = "take" /\ purpose = "priority" /\ LoopEnds
  /\ action' = Nothing
  /\ pc' = "clock"
  /\ UNCHANGED <<game, outside, queue, asking, expired>>

\* GameClock::update: the clock of the holder runs out while he is waited for.
ClockRunsOut ==
  /\ pc = "take" /\ purpose = "priority"
  /\ holder \notin expired
  /\ expired' = expired \cup {holder}
  /\ UNCHANGED <<game, outside, queue, thread>>

\* stop_clock and is_expired.
LoseOnTime ==
  /\ pc = "clock"
  /\ holder \in expired
  /\ game' = Loses(game, holder, "clock")
  /\ pc' = "end"
  /\ UNCHANGED <<outside, queue, asking, action, expired>>

\* The other queues are polled again, and the holder's for an answer to his own
\* concession; then the action is a pass, after which an entry of the stack may
\* resolve, or process_action's.  Either may have a question to ask.
Decide ==
  /\ pc = "clock"
  /\ holder \notin expired
  /\ LET polled == PollOther([g |-> game, q |-> queue], Other(holder))
         st == Confirm(polled, holder)
     IN /\ queue' = st.q
        /\ IF ~st.g.running
             THEN game' = st.g /\ pc' = "end"
             ELSE IF action.kind \in {"none", "pass", "shutdown"}
                    THEN game' = st.g /\ pc' \in {"state", "ask"}
                    ELSE /\ game' = Process(st.g, holder, action)
                         /\ pc' \in IF action.kind = "act" THEN {"state", "ask"} ELSE {"state"}
  /\ UNCHANGED <<outside, asking, action, expired>>

\* send_prompt_and_wait gives the mutex away while it waits.
Ask(p) ==
  /\ pc = "ask"
  /\ pc' = "answer" /\ holder' = p /\ prompt' = p /\ attempt' = 0
  /\ queue' = Aged(queue)
  /\ UNCHANGED <<game, outside, purpose, action, expired>>

\* It ends with the first action that answers the prompt, an unconfirmed or a
\* forced concession or a shutdown, none of which its callers look at.
Answer ==
  /\ pc = "answer"
  /\ queue[holder] # <<>>
  /\ queue' = [queue EXCEPT ![holder] = Tail(@)]
  /\ LET a == Head(queue[holder])
     IN IF a.fresh \/ a.kind \in {"concede", "forced", "shutdown"}
          THEN pc' = "state" /\ UNCHANGED attempt
          ELSE /\ attempt' = attempt + 1
               /\ pc' = IF attempt' = MaxStale THEN "state" ELSE "answer"
  /\ UNCHANGED <<game, outside, purpose, holder, prompt, action, expired>>

NoAnswer ==
  /\ pc = "answer"
  /\ pc' = "state"
  /\ UNCHANGED <<game, outside, queue, asking, action, expired>>

\* A combat prompt takes whatever comes first, or times out.
TakeCombat ==
  /\ pc = "take" /\ purpose = "combat"
  /\ \/ queue[holder] # <<>> /\ queue' = [queue EXCEPT ![holder] = Tail(@)]
     \/ UNCHANGED queue
  /\ pc' \in {"combat", "head"}
  /\ UNCHANGED <<game, outside, asking, action, expired>>

-----------------------------------------------------------------------------
(* The game thread: state-based actions and the end of a phase *)

RulesLoss(g, P) == [g EXCEPT !.cause = [p \in Players |->
                      IF p \in P /\ @[p] = "in" THEN "rules" ELSE @[p]]]

\* check_state_based_actions after the action.
CheckState ==
  /\ pc = "state"
  /\ \E P \in SUBSET Players : game' = RulesLoss(game, P)
  /\ pc' \in {"head", "end"}
  /\ UNCHANGED <<outside, queue, asking, action, expired>>

LeaveRound ==
  /\ pc = "head" /\ ~game.running
  /\ pc' = "end"
  /\ UNCHANGED <<game, outside, queue, asking, action, expired>>

\* Faulty variant: the win check is skipped once the game is over.
WinCheckOnce(g) == IF g.running THEN CheckWin(g) ELSE g

WinCheck(g) == CheckWin(g)

\* The state check at the end of run_phase, game_loop's win check, next phase;
\* with a new turn auto-passing until the end of turn is over.
EndPhase ==
  /\ pc = "end"
  /\ \E P \in SUBSET Players, auto \in SUBSET game.auto :
        game' = WinCheck(RulesLoss([game EXCEPT !.auto = auto], P))
  /\ pc' = IF game'.running THEN "combat" ELSE "over"
  /\ UNCHANGED <<outside, queue, asking, action, expired>>

-----------------------------------------------------------------------------
Client ==
  \E p \in Players :
    \/ AddPlayer(p) \/ SubmitDeck(p) \/ Start(p) \/ LeaveGame(p) \/ LeaveFinish(p)
    \/ OpenStream(p) \/ CloseStream(p) \/ Rejoin(p)
    \/ \E k \in Kinds : Submit(p, k)

Reaper == \E p \in Players : TurnStale(p) \/ Reap(p)

Step ==
  \/ \E p \in Players : Prompt(p) \/ PromptCombat(p) \/ Ask(p)
  \/ NoCombat \/ CheckConnected \/ Resume \/ GiveUp \/ Take \/ Poll \/ TakeNothing
  \/ LoseOnTime \/ Decide \/ Answer \/ NoAnswer \/ TakeCombat \/ CheckState
  \/ LeaveRound \/ EndPhase

\* The game thread has returned.
ThreadDone == pc = "over" /\ UNCHANGED vars

Next == Client \/ Reaper \/ ClockRunsOut \/ StopGame \/ Step \/ ThreadDone

(* The game thread is always scheduled and each of its waits has a timeout; *)
(* phases have finitely many combat prompts; calls once begun end.  Players *)
(* who do not pass automatically are given priority again and again: module *)
(* GameTurn shows that a round goes to everyone in turn.                    *)
Fairness ==
  /\ WF_vars(Step)
  /\ WF_vars(TakeNothing)
  /\ SF_vars(NoCombat)
  /\ \A p \in Players :
       /\ WF_vars(Start(p))
       /\ SF_vars(p \notin game.auto /\ Prompt(p))

Spec == Init /\ [][Next]_vars /\ Fairness

-----------------------------------------------------------------------------
Causes == {"in", "rules", "conceded", "forced", "clock", "absent", "left"}

Actions == [kind : Kinds \cup {"concede", "forced", "shutdown", "none"}, fresh : BOOLEAN]

TypeOK ==
  /\ game \in [state : {"WaitingForPlayers", "WaitingForDecks", "InProgress", "Paused",
                        "Finished"},
               running : BOOLEAN, cause : [Players -> Causes],
               pending : SUBSET Players, offer : Players \cup {None},
               result : Players \cup {"none", "draw", "agreed"}, auto : SUBSET Players]
  /\ joined \in SUBSET Players /\ decks \in SUBSET joined
  /\ starting \in SUBSET decks /\ leaving \in SUBSET joined
  /\ queue \in [Players -> Seq(Actions)]
  /\ \A p \in Players : Len(queue[p]) <= MaxPending
  /\ streams \in [Players -> 0 .. MaxStreams]
  /\ connected \in SUBSET joined /\ away \in SUBSET (joined \ connected)
  /\ stale \in SUBSET away
  /\ pc \in {"idle", "head", "combat", "connect", "paused", "take", "clock", "ask",
             "answer", "state", "end", "over"}
  /\ purpose \in {"priority", "combat"}
  /\ holder \in Players \cup {None} /\ prompt \in Players \cup {None}
  /\ attempt \in 0 .. MaxStale /\ action \in Actions
  /\ expired \in SUBSET Players /\ stopped \in BOOLEAN /\ calls \in 0 .. MaxCalls
  /\ meant \in [Players -> SUBSET (Requests \cup {"reaped"})]

(* A game starts when both decks are in: no sooner, and the second of two   *)
(* SubmitDeck calls that overlap does start it.                             *)
StartsWhenReady ==
  /\ pc # "idle" => decks = Players
  /\ decks = Players /\ starting = {} => pc # "idle"

(* The result agrees with who has lost: the winner's opponent has, and once *)
(* the game thread has returned the winner, and after an agreed draw        *)
(* anybody, has lost at most by leaving afterwards.                         *)
ResultFitsLosses ==
  /\ game.result \in Players => game.cause[Other(game.result)] # "in"
  /\ pc = "over" =>
       \A p \in Players : game.result \in {p, "agreed"} => game.cause[p] \in {"in", "left"}

(* A game whose thread has returned is finished and has a result, unless it *)
(* was stopped.                                                             *)
EndedGameHasResult ==
  pc = "over" /\ ~stopped => game.state = "Finished" /\ game.result # "none"

(* What the state of a game says fits its players: their decks, their       *)
(* losses, and the result they are told.                                    *)
GameFitsPlayers == StartsWhenReady /\ ResultFitsLosses /\ EndedGameHasResult

(* Nobody concedes without having asked to, is conceded for without having  *)
(* been away too long, or ends up in a draw that was not offered by one     *)
(* player and accepted by the other.                                        *)
OutcomeIsMeant ==
  /\ \A p \in Players : game.cause[p] = "conceded" => "concede_request" \in meant[p]
  /\ \A p \in Players : game.cause[p] = "forced" => "reaped" \in meant[p]
  /\ game.result = "agreed" =>
       \E p \in Players : "draw_offer" \in meant[p] /\ "accept" \in meant[Other(p)]

(* A finished game stays finished: no reconnection, wait or late answer     *)
(* brings it back.                                                          *)
FinishedForGood == [][game.state = "Finished" => game'.state = "Finished"]_vars

(* While the game is running nobody loses for being absent who is connected *)
(* when the wait for him ends.                                              *)
OnlyTheAbsentLose ==
  [][\A p \in Players : game.cause[p] = "in" /\ game'.cause[p] = "absent"
                          => p \notin connected \/ ~game.running]_vars

(* A paused game is resumed or finished, even if nobody comes back.         *)
PauseEnds == game.state = "Paused" /\ ~stopped ~> game.state # "Paused"

(* Once the game is over or stopped, its thread returns.                    *)
ThreadReturns == pc # "idle" /\ ~game.running ~> pc = "over"

(* A player of a started game who stays away, not passing automatically,    *)
(* does not hold up his opponent for ever.                                  *)
AwayPlayerLoses ==
  \A p \in Players :
    <>[](pc # "idle" /\ p \notin connected /\ p \notin game.auto) => <>(pc = "over")

(* Connections that come and go neither revive a game nor cost it somebody  *)
(* who is there.                                                            *)
AbsenceIsFair == FinishedForGood /\ OnlyTheAbsentLose

(* No wait of the game's thread, and nobody's wait for the other, lasts.    *)
NobodyWaitsForever == PauseEnds /\ ThreadReturns /\ AwayPlayerLoses
=============================================================================
