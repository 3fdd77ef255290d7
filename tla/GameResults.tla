------------------------------ MODULE GameResults ------------------------------
(***************************************************************************)
(* What becomes of finished games: the manager's reaper, which removes     *)
(* them (GameManager::reaper_loop, remove_game, on_game_finish), the ends   *)
(* of action streams (GameServiceImpl::record_game_result), the two stores  *)
(* they both write to (GameHistoryStore, RatingStore) over pools of         *)
(* PostgreSQL connections, and the shutdown of the server (main).          *)
(*                                                                         *)
(* How a game is played is modelled in GameSession; here it is finished by *)
(* somebody at some time.  An elo value is represented by the set of       *)
(* updates it accounts for: what a rating has forgotten can be seen, and   *)
(* the formula (round, floor of 100) plays no part.                        *)
(***************************************************************************)
EXTENDS Integers, FiniteSets

CONSTANTS Games,
          Streams,      \* action streams, each of a player of one game
          gameOf,       \* the game of a stream
          seated,       \* the players of a game, <<first, second>>
          Reaper,       \* the reaper's thread
          NoGame,
          HistoryConns, \* pool size of the history store
          RatingConns,  \* pool size of the rating store (2 unless main says otherwise)
          MaxFaults     \* bound of the model: failures of the database

ASSUME Sizes == /\ gameOf \in [Streams -> Games]
                /\ HistoryConns \in Nat /\ RatingConns \in 0 .. 2 /\ MaxFaults \in Nat
                /\ Reaper \notin Streams /\ NoGame \notin Games
                /\ IsFiniteSet(Streams)

\* Nobody joins a game twice.
ASSUME TwoSeats == \A g \in Games : seated[g][1] # seated[g][2]

Players == UNION {{seated[g][1], seated[g][2]} : g \in Games}
\* The threads that write results.
Writers == Streams \cup {Reaper}
Ways == {"stream", "reaper"}
Way(w) == IF w = Reaper THEN "reaper" ELSE "stream"

\* A rating update: the game and which way its result came.
Updates == Games \X Ways

VARIABLES
  course,    \* how far each game is
  winner,    \* winner_id of its result: a player, or 0 for a draw
  held,      \* games_: the games the manager holds
  recorded,  \* recorded_game_ids_
  at,        \* where each thread is
  doing,     \* the game whose result a thread writes
  snapshot,  \* finished_ids of the reaper's round, those not yet removed
  server,    \* how far the shutdown is
  rows,      \* rows of game_history, by game and way
  elo,       \* the updates each player's elo accounts for
  tally,     \* wins and losses: the updates that counted for each player
  seen,      \* the elo values a transaction has selected, and after which updates
  known,     \* for a committed update, the updates its selects came after
  slots,     \* connections of each pool that are marked in use
  faults,    \* failures so far
  spoilt,    \* games one of whose attempts to write has failed
  watched    \* games that had an open stream when they were decided

results == <<course, winner, held, watched>>
threads == <<at, doing, snapshot, recorded>>
database == <<rows, elo, tally, seen, known>>
pools == <<slots, faults, spoilt>>
vars == <<results, threads, server, database, pools>>

Draw == 0
Outcomes(g) == {seated[g][1], seated[g][2], Draw}
Won(g) == winner[g] # Draw
Loser(g) == IF seated[g][1] = winner[g] THEN seated[g][2] ELSE seated[g][1]

Courses == {"waiting", "playing", "finished", "stopped"}
Roles == {"winner", "loser"}
Holding == {"insert", "select", "winner", "loser"}
Points == Holding \cup {"open", "closed", "idle", "remove", "history", "rating"}
\* serving, stop_reaper, stop_all_games, Server::shutdown, the end of main; or
\* the reaper's thread has ended the process.
Shutdown == {"serving", "reaping", "stopping", "stopped", "closing", "down", "dead"}
PoolSize == [history |-> HistoryConns, rating |-> RatingConns]
\* The pool a thread waits for or has a connection of.
PoolOf(w) == IF at[w] \in {"history", "insert"} THEN "history" ELSE "rating"

Update(w) == <<doing[w], Way(w)>>
Committed == UNION {tally[p].wins : p \in Players}

TypeOK ==
  /\ course \in [Games -> Courses] /\ winner \in [Games -> Players \cup {Draw}]
  /\ held \subseteq Games /\ recorded \subseteq Games /\ watched \subseteq Games
  /\ at \in [Writers -> Points] /\ doing \in [Writers -> Games \cup {NoGame}]
  /\ snapshot \subseteq Games /\ server \in Shutdown
  /\ rows \in [Updates -> Nat] /\ spoilt \subseteq Games
  /\ elo \in [Players -> SUBSET Updates]
  /\ tally \in [Players -> [wins : SUBSET Updates, losses : SUBSET Updates]]
  /\ seen \in [Writers -> [Roles -> [elo : SUBSET Updates, after : SUBSET Updates]]]
  /\ known \in [Updates -> [Roles -> SUBSET Updates]]
  /\ \A k \in DOMAIN slots : slots[k] \in 0 .. PoolSize[k]
  /\ faults \in 0 .. MaxFaults

NothingSeen == [r \in Roles |-> [elo |-> {}, after |-> {}]]

Init ==
  /\ course = [g \in Games |-> "waiting"] /\ winner = [g \in Games |-> Draw]
  /\ held = Games /\ recorded = {} /\ watched = {}
  /\ at = [w \in Writers |-> IF w = Reaper THEN "idle" ELSE "open"]
  /\ doing = [w \in Writers |-> NoGame] /\ snapshot = {} /\ server = "serving"
  /\ rows = [u \in Updates |-> 0] /\ elo = [p \in Players |-> {}]
  /\ tally = [p \in Players |-> [wins |-> {}, losses |-> {}]]
  /\ seen = [w \in Writers |-> NothingSeen]
  /\ known = [u \in Updates |-> [r \in Roles |-> {}]]
  /\ slots = [history |-> 0, rating |-> 0] /\ faults = 0 /\ spoilt = {}

-----------------------------------------------------------------------------
(* Games and streams *)

Live == server # "dead"
Accepting == server \in {"serving", "reaping", "stopping", "stopped"}

\* The second deck is submitted and start launches the game's thread, which
\* main may already have stopped all other games by then.
Play(g) ==
  /\ Accepting /\ g \in held /\ course[g] = "waiting"
  /\ course' = [course EXCEPT ![g] = "playing"]
  /\ UNCHANGED <<winner, held, watched, threads, server, database, pools>>

OpenStream(g) == \E s \in Streams : gameOf[s] = g /\ at[s] = "open"

\* The result is stored before the state becomes Finished.
Decide(g, o) ==
  /\ course[g] = "playing"
  /\ course' = [course EXCEPT ![g] = "finished"]
  /\ winner' = [winner EXCEPT ![g] = o]
  /\ watched' = IF OpenStream(g) THEN watched \cup {g} ELSE watched

Finish(g) ==
  /\ Live /\ server # "down"
  /\ \E o \in Outcomes(g) : Decide(g, o)
  /\ UNCHANGED <<held, threads, server, database, pools>>

\* SubmitAction of a player who has joined the game.
Open(s) ==
  /\ Accepting /\ at[s] = "closed" /\ gameOf[s] \in held
  /\ at' = [at EXCEPT ![s] = "open"]
  /\ UNCHANGED <<results, doing, snapshot, recorded, server, database, pools>>

\* The state is Finished and the insertion into the set of recorded ids is new.
MayRecord(s) == course[gameOf[s]] = "finished" /\ gameOf[s] \notin recorded

\* The client ends or loses its stream; the handler goes on to
\* record_game_result.
Close(s) ==
  /\ Live /\ at[s] = "open"
  /\ IF MayRecord(s)
     THEN /\ recorded' = recorded \cup {gameOf[s]}
          /\ at' = [at EXCEPT ![s] = "history"]
          /\ doing' = [doing EXCEPT ![s] = gameOf[s]]
     ELSE /\ at' = [at EXCEPT ![s] = "closed"]
          /\ UNCHANGED <<recorded, doing>>
  /\ UNCHANGED <<results, snapshot, server, database, pools>>

-----------------------------------------------------------------------------
(* The reaper *)

\* A round: the games that are Finished when it looks.
Reap ==
  /\ at[Reaper] = "idle" /\ server = "serving"
  /\ LET finished == {g \in held : course[g] = "finished"}
     IN finished # {} /\ snapshot' = finished
  /\ at' = [at EXCEPT ![Reaper] = "remove"]
  /\ UNCHANGED <<results, doing, recorded, server, database, pools>>

\* Faulty variant: on_game_finish returns when nobody has won.
FirstJobOfWins(g) == IF Won(g) THEN "rating" ELSE "remove"

\* on_game_finish begins with the rating when somebody has won.
FirstJob(g) == IF Won(g) THEN "rating" ELSE "history"

\* remove_game, the next of the round, up to on_game_finish.
Remove ==
  /\ Live /\ at[Reaper] = "remove"
  /\ \/ \E g \in snapshot :
          /\ snapshot' = snapshot \ {g} /\ held' = held \ {g}
          /\ doing' = [doing EXCEPT ![Reaper] = g]
          /\ at' = [at EXCEPT ![Reaper] = FirstJob(g)]
     \/ /\ snapshot = {}
        /\ at' = [at EXCEPT ![Reaper] = "idle"]
        /\ UNCHANGED <<snapshot, held, doing>>
  /\ UNCHANGED <<course, winner, watched, recorded, server, database, pools>>

-----------------------------------------------------------------------------
(* Writing a result *)

\* Where a thread goes from one of its two jobs: a stream writes the history
\* and then the rating, the reaper the other way round.
AfterJob(w, job) ==
  CASE w # Reaper /\ job = "history" /\ Won(doing[w]) -> "rating"
    [] w # Reaper /\ (job = "rating" \/ ~Won(doing[w])) -> "closed"
    [] w = Reaper /\ job = "rating" -> "history"
    [] OTHER -> "remove"

NextJob(w) == at' = [at EXCEPT ![w] = AfterJob(w, PoolOf(w))]
Give(k) == slots' = [slots EXCEPT ![k] = @ - 1]
Take(k) == slots' = [slots EXCEPT ![k] = @ + 1]

Waiting(w) == at[w] \in {"history", "rating"}

\* Faulty variant: acquire does not wait for a connection.
FreeAlways(w) == TRUE

Free(w) == slots[PoolOf(w)] < PoolSize[PoolOf(w)]

\* Faulty variant: both start from the elo of a new player.
SelectNew(p) == [elo |-> {}, after |-> Committed]

\* What a SELECT of the elo returns, and what was committed by then.
Select(p) == [elo |-> elo[p], after |-> Committed]

WinnerOf(w) == winner[doing[w]]
LoserOf(w) == Loser(doing[w])

\* acquire finds a free connection.  A rating transaction begins with the
\* winner's elo.  The rows of both players exist by then.
Acquire(w) ==
  /\ Live /\ Waiting(w) /\ Free(w)
  /\ Take(PoolOf(w))
  /\ at' = [at EXCEPT ![w] = IF at[w] = "history" THEN "insert" ELSE "select"]
  /\ seen' = IF at[w] = "history" THEN seen
             ELSE [seen EXCEPT ![w].winner = Select(WinnerOf(w))]
  /\ UNCHANGED <<results, doing, snapshot, recorded, server, rows, elo, tally, known, faults, spoilt>>

\* The second SELECT.
SelectLoser(w) ==
  /\ Live /\ at[w] = "select"
  /\ seen' = [seen EXCEPT ![w].loser = Select(LoserOf(w))]
  /\ at' = [at EXCEPT ![w] = "winner"]
  /\ UNCHANGED <<results, doing, snapshot, recorded, server, rows, elo, tally, known, pools>>

\* A row that another transaction has updated and not yet committed.
Locked(p, w) == \E v \in Writers \ {w} : at[v] = "loser" /\ WinnerOf(v) = p

\* Faulty variant: the UPDATE is committed by itself.
UpdateWinnerAlone(w) ==
  /\ Live /\ at[w] = "winner" /\ ~Locked(WinnerOf(w), w)
  /\ at' = [at EXCEPT ![w] = "loser"]
  /\ tally' = [tally EXCEPT ![WinnerOf(w)].wins = @ \cup {Update(w)}]
  /\ UNCHANGED <<results, doing, snapshot, recorded, server, rows, elo, seen, known, pools>>

\* The UPDATE of the winner's row waits for another transaction's.
UpdateWinner(w) ==
  /\ Live /\ at[w] = "winner" /\ ~Locked(WinnerOf(w), w)
  /\ at' = [at EXCEPT ![w] = "loser"]
  /\ UNCHANGED <<results, doing, snapshot, recorded, server, database, pools>>

\* The elo a transaction writes: computed from the one it selected.
NewElo(w, r) == seen[w][r].elo \cup {Update(w)}

\* The UPDATE of the loser's row, and the commit: elo becomes what was computed,
\* wins and losses are incremented where they stand.
CommitRating(w) ==
  /\ Live /\ at[w] = "loser" /\ ~Locked(LoserOf(w), w)
  /\ elo' = [elo EXCEPT ![WinnerOf(w)] = NewElo(w, "winner"),
                        ![LoserOf(w)] = NewElo(w, "loser")]
  /\ tally' = [tally EXCEPT ![WinnerOf(w)].wins = @ \cup {Update(w)},
                            ![LoserOf(w)].losses = @ \cup {Update(w)}]
  /\ known' = [known EXCEPT ![Update(w)] = [r \in Roles |-> seen[w][r].after]]
  /\ seen' = [seen EXCEPT ![w] = NothingSeen]
  /\ Give("rating") /\ NextJob(w)
  /\ UNCHANGED <<results, doing, snapshot, recorded, server, rows, faults, spoilt>>

\* record_game: the game and its players in one transaction.
CommitHistory(w) ==
  /\ Live /\ at[w] = "insert"
  /\ rows' = [rows EXCEPT ![Update(w)] = @ + 1]
  /\ Give("history") /\ NextJob(w)
  /\ UNCHANGED <<results, doing, snapshot, recorded, server, elo, tally, seen, known, faults, spoilt>>

\* A transaction is rolled back: its exception is logged and the thread goes on.
RollBack(w) ==
  /\ Give(PoolOf(w)) /\ NextJob(w)
  /\ seen' = [seen EXCEPT ![w] = NothingSeen]
  /\ spoilt' = IF at[w] = "insert" THEN spoilt \cup {doing[w]} ELSE spoilt
  /\ UNCHANGED <<results, doing, snapshot, recorded, server, rows, elo, tally, known>>

DatabaseFails(w) ==
  /\ Live /\ at[w] \in Holding /\ faults < MaxFaults
  /\ RollBack(w) /\ faults' = faults + 1

\* Two transactions that update the same two players the other way round:
\* PostgreSQL aborts one of them.
Deadlock(w) ==
  /\ Live /\ at[w] = "loser"
  /\ \E v \in Writers \ {w} : /\ at[v] = "loser"
                              /\ WinnerOf(v) = LoserOf(w) /\ LoserOf(v) = WinnerOf(w)
  /\ RollBack(w) /\ UNCHANGED faults

\* What an exception of acquire does, which no try block is around: gRPC ends
\* the handler; the reaper's thread has nobody to catch it and ends the process.
Thrown(w) ==
  /\ spoilt' = spoilt \cup {doing[w]}
  /\ IF w = Reaper THEN server' = "dead" /\ UNCHANGED at
     ELSE at' = [at EXCEPT ![w] = "closed"] /\ UNCHANGED server
  /\ UNCHANGED <<results, doing, snapshot, recorded, database>>

\* Ten seconds pass with every connection in use.
Busy(w) == Live /\ Waiting(w) /\ ~Free(w) /\ Thrown(w) /\ UNCHANGED <<slots, faults>>

\* The connection is marked, found closed, and cannot be opened again: nobody
\* will release it.
LoseSlot(w) ==
  /\ Live /\ Waiting(w) /\ Free(w) /\ faults < MaxFaults
  /\ Take(PoolOf(w)) /\ faults' = faults + 1
  /\ Thrown(w)

-----------------------------------------------------------------------------
(* The shutdown: main after the signal *)

Stage(from, to) == server = from /\ server' = to

\* stop_reaper: the flag is read between rounds and before a wait.
Signal == Stage("serving", "reaping") /\ UNCHANGED <<results, threads, database, pools>>

JoinReaper ==
  /\ Stage("reaping", "stopping") /\ at[Reaper] = "idle"
  /\ UNCHANGED <<results, threads, database, pools>>

\* stop_all_games, for one game: its thread returns, and when it was waiting for
\* an absent player that player loses.
StopGame(g) ==
  /\ server = "stopping" /\ g \in held
  /\ \/ \E o \in {seated[g][1], seated[g][2]} : Decide(g, o)
     \/ /\ course[g] = "playing"
        /\ course' = [course EXCEPT ![g] = "stopped"] /\ UNCHANGED <<winner, watched>>
  /\ UNCHANGED <<held, threads, server, database, pools>>

GamesStopped ==
  /\ Stage("stopping", "stopped") /\ \A g \in held : course[g] # "playing"
  /\ UNCHANGED <<results, threads, database, pools>>

\* Server::shutdown takes no new call and waits for the handlers, without a
\* deadline.
CloseServer == Stage("stopped", "closing") /\ UNCHANGED <<results, threads, database, pools>>

\* Faulty variant: shutdown does not wait for the handlers that are writing.
QuietAlways == TRUE

Quiet == \A s \in Streams : at[s] = "closed"

\* ~GameManager stops a game that was started since; nobody removes the others.
EndOfMain ==
  /\ Stage("closing", "down") /\ Quiet
  /\ course' = [g \in Games |-> IF course[g] = "playing" THEN "stopped" ELSE course[g]]
  /\ UNCHANGED <<winner, held, watched, threads, database, pools>>

-----------------------------------------------------------------------------
Writes(w) == \/ Acquire(w) \/ SelectLoser(w) \/ UpdateWinner(w) \/ CommitRating(w)
             \/ CommitHistory(w) \/ Deadlock(w) \/ Busy(w)
Mishap(w) == DatabaseFails(w) \/ LoseSlot(w)
ShutDown == \/ JoinReaper \/ GamesStopped \/ CloseServer \/ EndOfMain
            \/ \E g \in Games : StopGame(g)

Next == \/ \E g \in Games : Play(g) \/ Finish(g)
        \/ \E s \in Streams : Open(s) \/ Close(s)
        \/ Reap \/ Remove
        \/ \E w \in Writers : Writes(w) \/ Mishap(w)
        \/ Signal \/ ShutDown

\* The threads run, and a wait for a connection or for a row ends; whether a game
\* ends, a client leaves or somebody stops the server is not up to them.
Fairness == /\ WF_vars(Reap) /\ WF_vars(Remove)
            /\ \A w \in Writers : WF_vars(Writes(w))

Spec == Init /\ [][Next]_vars /\ Fairness

-----------------------------------------------------------------------------
(* Properties *)

\* However many streams of a game end at once, before or after the reaper has
\* removed it, the history gets at most one row for the streams and one for the
\* removal.  (It does get both: nothing connects the two.)
OneRowPerWay == \A u \in Updates : rows[u] <= 1

\* Wins and losses are whole: an update that counted for the winner of a game
\* counted for the loser, for nobody else, and only when somebody won.
Counted(g) == {u \in Committed : u[1] = g}
TallyMatches ==
  \A p \in Players :
    /\ tally[p].wins = UNION {Counted(g) : g \in {h \in Games : winner[h] = p}}
    /\ tally[p].losses = UNION {Counted(g) : g \in {h \in Games : Won(h) /\ Loser(h) = p}}

\* History and tallies hold nothing twice and nothing in part.
RecordsWhole == OneRowPerWay /\ TallyMatches

About(u, p) == Won(u[1]) /\ p \in {winner[u[1]], Loser(u[1])}
RoleOf(u, p) == IF winner[u[1]] = p THEN "winner" ELSE "loser"
\* Neither transaction selected the player's elo after the other's commit.
Overlap(u, v, p) == u \notin known[v][RoleOf(v, p)] /\ v \notin known[u][RoleOf(u, p)]

\* What an elo has forgotten: an update of the player's that is counted among the
\* wins and losses is missing from the elo only if another one overlapped it.
ForgottenOnlyInARace ==
  \A p \in Players : \A u \in Committed :
    About(u, p) /\ u \notin elo[p]
      => \E v \in Committed \ {u} : About(v, p) /\ Overlap(u, v, p)

\* A result that was decided while a client was connected is in the history when
\* the server has stopped, unless an attempt to write it failed: the handlers
\* are waited for, and each of them is a second chance after the reaper.
Recorded(g) == \E way \in Ways : rows[<<g, way>>] > 0
WatchedIsKept ==
  server = "down" => \A g \in watched : Recorded(g) \/ g \in spoilt

\* While the server runs, a finished game comes into the history, by its streams
\* or by the reaper, and out of the manager.
FinishedIsRecorded ==
  \A g \in Games :
    (course[g] = "finished" /\ server = "serving") ~>
      (server # "serving" \/ (g \notin held /\ (Recorded(g) \/ g \in spoilt)))
====
