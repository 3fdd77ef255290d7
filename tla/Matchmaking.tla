------------------------------- MODULE Matchmaking -------------------------------
(***************************************************************************)
(* The matchmaking queue and the match loop (MatchmakingQueue, Matchmaker, *)
(* MatchmakingServiceImpl) with the games they create in the GameManager,  *)
(* which other players create and join as well.                            *)
(*                                                                         *)
(* A game is a number, in the order of creation (next_id_).  Its course is *)
(* modelled in GameSession, and what becomes of its result in GameResults. *)
(***************************************************************************)
EXTENDS Integers, Sequences, FiniteSets, SequencesExt, Functions

CONSTANTS Players,
          elo,        \* a player's rating, in units of the range's first width
          MaxQueue,   \* max_queue_size
          MaxGames,   \* max_games
          MaxIds,     \* bound of the model: games created
          MaxWait     \* bound of the model: widenings of an entry's range

ASSUME LimitsAreNumbers == /\ elo \in [Players -> Int]
                           /\ MaxQueue \in Nat /\ MaxGames \in Nat
                           /\ MaxIds \in Nat /\ MaxWait \in Nat

VARIABLES
  queue,       \* entries_: a player and how often her range has widened
  maker,       \* where the match loop is
  results,     \* match_results_: a game, or 0
  games,       \* games_ of the manager and how far each game is
  seats,       \* players_ of each game: who is in it
  matched,     \* the two players a game was created for
  wish         \* whether a player expects a game, or was dropped by the match
               \* loop, which could neither seat her nor put her back

rooms == <<games, seats>>
notes == <<matched, wish>>
vars == <<queue, maker, results, rooms, notes>>

Ids == 1 .. MaxIds
NoGame == 0

\* Waiting for players; all the states from WaitingForDecks to Finished; and
\* no longer held by the manager.
GameStates == {"none", "open", "full", "removed"}

Held == {g \in Ids : games[g] \notin {"none", "removed"}}

Entry(p) == [player |-> p, waited |-> 0]
Idle == [step |-> "idle", pair |-> <<>>, game |-> NoGame]

Queued == {queue[i].player : i \in DOMAIN queue}
InHand == {maker.pair[i].player : i \in DOMAIN maker.pair}

Init ==
  /\ queue = <<>> /\ maker = Idle
  /\ results = [p \in Players |-> NoGame]
  /\ games = [g \in Ids |-> "none"] /\ seats = [g \in Ids |-> {}]
  /\ matched = [g \in Ids |-> {}] /\ wish = [p \in Players |-> "none"]

-----------------------------------------------------------------------------
(* The queue *)

\* What add checks under the queue's mutex.
MayAdd(p) == Len(queue) < MaxQueue /\ p \notin Queued

\* All the entries of a player are erased: the one that add lets her have.
Without(p) ==
  IF p \in Queued
  THEN RemoveAt(queue, CHOOSE i \in DOMAIN queue : queue[i].player = p)
  ELSE queue

Wish(S, w) == wish' = [p \in Players |-> IF p \in S THEN w ELSE wish[p]]

\* A player who has queued and was neither told nor gave up.
expecting == {p \in Players : wish[p] = "expects"}

\* A refused call changes nothing.
JoinQueue(p) ==
  /\ MayAdd(p)
  /\ queue' = Append(queue, Entry(p))
  /\ Wish({p}, "expects")
  /\ UNCHANGED <<maker, results, rooms, matched>>

\* LeaveQueue with the player's own id as the ticket, or a QueueStatus whose
\* deadline has passed or that was cancelled.  (When a write fails it ends and
\* leaves the player in the queue; nothing changes.)
LeaveQueue(p) ==
  /\ p \in Queued \/ wish[p] # "none"
  /\ queue' = Without(p) /\ Wish({p}, "none")
  /\ UNCHANGED <<maker, results, rooms, matched>>

\* QueueStatus finds a result.  It is erased whether or not it could be written
\* to the client.
HearMatch(p) ==
  /\ results[p] # NoGame
  /\ results' = [results EXCEPT ![p] = NoGame] /\ Wish({p}, "none")
  /\ UNCHANGED <<queue, maker, rooms, matched>>

\* The wait of an entry, in steps that widen its range.
TimePasses ==
  /\ \E i \in DOMAIN queue : queue[i].waited < MaxWait
  /\ queue' = [i \in DOMAIN queue |->
                 [queue[i] EXCEPT !.waited = IF @ < MaxWait THEN @ + 1 ELSE @]]
  /\ UNCHANGED <<maker, results, rooms, notes>>

-----------------------------------------------------------------------------
(* The match loop *)

Distance(p, q) == IF elo[p] < elo[q] THEN elo[q] - elo[p] ELSE elo[p] - elo[q]

\* Faulty variant: the range never widens.
InRangeFixed(i, j) == Distance(queue[i].player, queue[j].player) <= 1

\* The range is that of the earlier entry.
InRange(i, j) == Distance(queue[i].player, queue[j].player) <= 1 + queue[i].waited

Candidates ==
  {c \in (DOMAIN queue) \X (DOMAIN queue) : c[1] < c[2] /\ InRange(c[1], c[2])}

FindMatch ==
  /\ maker = Idle
  /\ \E c \in Candidates :
        /\ \A d \in Candidates : c[1] < d[1] \/ (c[1] = d[1] /\ c[2] <= d[2])
        /\ maker' = [Idle EXCEPT !.step = "matched", !.pair = <<queue[c[1]], queue[c[2]]>>]
        /\ queue' = RemoveAt(RemoveAt(queue, c[2]), c[1])
  /\ UNCHANGED <<results, rooms, notes>>

Fresh == {g \in Ids : games[g] = "none"}
NextId == CHOOSE g \in Fresh : \A h \in Fresh : g <= h
\* Faulty variant: one game more than max_games.
HasRoomForOne == Cardinality(Held) <= MaxGames

HasRoom == Cardinality(Held) < MaxGames

Create(g) == games' = [games EXCEPT ![g] = "open"]

\* The match loop's create_game, which may be refused.
CreateMatch ==
  /\ maker.step = "matched"
  /\ \/ /\ HasRoom /\ Fresh # {}
        /\ Create(NextId)
        /\ maker' = [maker EXCEPT !.step = "seat", !.game = NextId]
        /\ matched' = [matched EXCEPT ![NextId] = InHand]
     \/ /\ ~HasRoom
        /\ maker' = [maker EXCEPT !.step = "requeue"]
        /\ UNCHANGED <<games, matched>>
  /\ UNCHANGED <<queue, results, seats, wish>>

Drop(S) == Wish(S \cap expecting, "dropped")

\* Both are put back, one after the other, with the time they have waited.
Requeue ==
  /\ maker.step = "requeue"
  /\ LET e == Head(maker.pair)
     IN  /\ IF MayAdd(e.player)
            THEN queue' = Append(queue, e) /\ UNCHANGED wish
            ELSE UNCHANGED queue /\ Drop({e.player} \ Queued)
         /\ maker' = IF Len(maker.pair) = 1 THEN Idle
                     ELSE [maker EXCEPT !.pair = Tail(@)]
  /\ UNCHANGED <<results, rooms, matched>>

\* add_player of a game.
MayJoin(p, g) == games[g] = "open" /\ p \notin seats[g]

Join(p, g) ==
  IF MayJoin(p, g)
  THEN /\ seats' = [seats EXCEPT ![g] = @ \cup {p}]
       /\ games' = IF seats[g] # {} THEN [games EXCEPT ![g] = "full"] ELSE games
  ELSE UNCHANGED <<seats, games>>

\* Whether add_player succeeds is not looked at.
SeatFirst ==
  /\ maker.step = "seat"
  /\ \/ /\ maker.game \in Held
        /\ Join(maker.pair[1].player, maker.game)
        /\ maker' = [maker EXCEPT !.step = "second"]
        /\ UNCHANGED wish
     \/ /\ maker.game \notin Held
        /\ maker' = Idle /\ Drop(InHand)
        /\ UNCHANGED <<seats, games>>
  /\ UNCHANGED <<queue, results, matched>>

SeatSecond ==
  /\ maker.step = "second"
  /\ Join(maker.pair[2].player, maker.game)
  /\ maker' = [maker EXCEPT !.step = "tell"]
  /\ UNCHANGED <<queue, results, notes>>

\* Faulty variant: the callback stores the result of one player.
Told == {maker.pair[1].player}

ToTell == InHand

\* The callback forgets results older than five minutes and stores the new ones.
Tell ==
  /\ maker.step = "tell"
  /\ \E old \in SUBSET {p \in Players : results[p] # NoGame} :
        /\ results' = [p \in Players |-> IF p \in ToTell THEN maker.game
                                         ELSE IF p \in old THEN NoGame ELSE results[p]]
        /\ Wish(old \ (Queued \cup ToTell), "none")
  /\ maker' = Idle
  /\ UNCHANGED <<queue, rooms, matched>>

MatchLoop == FindMatch \/ CreateMatch \/ Requeue \/ SeatFirst \/ SeatSecond \/ Tell

-----------------------------------------------------------------------------
(* Games *)

CreateGame ==
  /\ HasRoom /\ Fresh # {} /\ Create(NextId)
  /\ UNCHANGED <<queue, maker, results, seats, notes>>

JoinGame(p, g) ==
  /\ MayJoin(p, g) /\ Join(p, g)
  /\ UNCHANGED <<queue, maker, results, notes>>

\* The game was played and the reaper has removed it.
RemoveGame(g) ==
  /\ games[g] = "full" /\ games' = [games EXCEPT ![g] = "removed"]
  /\ seats' = [seats EXCEPT ![g] = {}] /\ matched' = [matched EXCEPT ![g] = {}]
  /\ UNCHANGED <<queue, maker, results, wish>>

Next == \/ TimePasses \/ MatchLoop \/ CreateGame
        \/ \E p \in Players : \/ JoinQueue(p) \/ LeaveQueue(p) \/ HearMatch(p)
        \/ \E g \in Ids : \/ RemoveGame(g) \/ \E p \in Players : JoinGame(p, g)

Spec == Init /\ [][Next]_vars

\* Time passes and the match loop's thread keeps going.  Players do what they
\* like.
FairSpec == Spec /\ WF_vars(TimePasses) /\ WF_vars(MatchLoop)

-----------------------------------------------------------------------------
(* Properties *)

\* TypeOK: the limits of the queue, of the manager and of a game are kept.
TypeOK ==
  /\ queue \in Seq([player : Players, waited : 0 .. MaxWait]) /\ Len(queue) <= MaxQueue
  /\ maker.step \in {"idle", "matched", "requeue", "seat", "second", "tell"}
  /\ maker.pair \in Seq([player : Players, waited : 0 .. MaxWait])
  /\ maker.game \in Ids \cup {NoGame}
  /\ results \in [Players -> Ids \cup {NoGame}]
  /\ wish \in [Players -> {"none", "expects", "dropped"}]
  /\ games \in [Ids -> GameStates] /\ Cardinality(Held) <= MaxGames
  /\ \A g \in Ids : seats[g] \subseteq Players /\ Cardinality(seats[g]) <= 2
  /\ matched \in [Ids -> SUBSET Players]

\* Nobody is in the queue twice or matched with herself, even when she queues
\* again while the match loop is about to put her back (MatchmakingQueue::add).
QueuedOnce ==
  /\ \A i, j \in DOMAIN queue : queue[i].player = queue[j].player => i = j
  /\ Len(maker.pair) = 2 => maker.pair[1].player # maker.pair[2].player

\* A player who has queued, and has neither left nor given up nor been told, nor
\* let five minutes pass without asking, is in the queue, in the hands of the
\* match loop or has a result waiting for her, unless the loop could not put her
\* back in a full queue or found its new game gone (Drop).
NobodyForgotten ==
  expecting \subseteq Queued \cup InHand \cup {p \in Players : results[p] # NoGame}

\* A player who has a result has a seat in that game while it lasts, unless a
\* player it was not made for sits there (JoinGame can come between create_game
\* and add_player).
SeatsKept ==
  \A p \in Players : results[p] \in Held =>
    LET sitting == seats[results[p]]
    IN  /\ p \in matched[results[p]]
        /\ p \in sitting \/ sitting \ matched[results[p]] # {}

\* Every player is where her requests and the matches have put her, once.
PlayersAccounted == QueuedOnce /\ NobodyForgotten /\ SeatsKept

\* As long as games can be created, two players do not stay in the queue for
\* ever, however far apart their ratings are: the range widens.
NoTwoWaitForever ==
  []<>(Len(queue) < 2 \/ ~HasRoom \/ Fresh = {})
=============================================================================
