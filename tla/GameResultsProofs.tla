--------------------------- MODULE GameResultsProofs ---------------------------
(***************************************************************************)
(* Proofs about GameResults, for any games, streams, pool sizes and number *)
(* of failures: type correctness, the history and the tallies hold nothing *)
(* twice and nothing in part, an elo forgets only what overlapped, and the *)
(* result of a game that a client watched is kept.                         *)
(*                                                                         *)
(* The inductive invariant ResultsInv says which of its two records a      *)
(* thread still has to write, and that these are not there yet (Unwritten);*)
(* that no two threads write the same ones (OneWriter); that an elo, and   *)
(* each elo that a transaction has selected, lacks of the updates that     *)
(* were committed by then only those that another one overlapped           *)
(* (SeenRemembers); and that a watched game has a stream that is going to  *)
(* write it until it has been written (Kept).                              *)
(***************************************************************************)
EXTENDS GameResults, FiniteSetTheorems, TLAPS

-----------------------------------------------------------------------------
(* The inductive invariant *)

Rating == {"rating", "select", "winner", "loser"}
History == {"history", "insert"}

(* A thread has the result of a game to write. *)
AtWork(w) == at[w] \in Rating \cup History

(* The row, and the rating update, that a thread is still to write. *)
RowAhead(w) == at[w] \in History \/ (w = Reaper /\ AtWork(w))
UpdateAhead(w) == at[w] \in Rating \/ (w # Reaper /\ AtWork(w))

(* The types, by the part of the state they are about. *)
Pools == {"history", "rating"}

GamesTyped ==
  /\ course \in [Games -> Courses] /\ winner \in [Games -> Players \cup {Draw}]
  /\ held \subseteq Games /\ watched \subseteq Games

ThreadsTyped ==
  /\ at \in [Writers -> Points] /\ doing \in [Writers -> Games \cup {NoGame}]
  /\ snapshot \subseteq Games /\ recorded \subseteq Games

Seen == [elo : SUBSET Updates, after : SUBSET Updates]
Tally == [wins : SUBSET Updates, losses : SUBSET Updates]

DatabaseTyped ==
  /\ rows \in [Updates -> Nat] /\ elo \in [Players -> SUBSET Updates]
  /\ tally \in [Players -> Tally]
  /\ seen \in [Writers -> [Roles -> Seen]]
  /\ known \in [Updates -> [Roles -> SUBSET Updates]]

PoolsTyped ==
  /\ slots \in [Pools -> Nat] /\ \A k \in Pools : slots[k] <= PoolSize[k]
  /\ faults \in 0 .. MaxFaults /\ spoilt \subseteq Games

Typed ==
  GamesTyped /\ ThreadsTyped /\ server \in Shutdown /\ DatabaseTyped /\ PoolsTyped

(* What a thread writes is the result of a finished game, and it rates only a *)
(* game that somebody has won.                                                *)
ThreadsFit ==
  /\ \A s \in Streams : at[s] \notin {"idle", "remove"}
  /\ at[Reaper] \notin {"open", "closed"}
  /\ \A w \in Writers : AtWork(w) => doing[w] \in Games /\ course[doing[w]] = "finished"
  /\ \A w \in Writers : at[w] \in Rating => Won(doing[w])
  /\ snapshot \subseteq held
  /\ \A g \in snapshot \cup recorded : course[g] = "finished"

(* What counts is about games that somebody has won. *)
CountedFit == \A u \in Committed : course[u[1]] = "finished" /\ Won(u[1])

(* Each game has at most one stream that writes it, once the game is in the set *)
(* of recorded ids, and is written by the reaper once it is no longer held.     *)
OneWriter ==
  /\ \A s \in Streams : doing[s] # NoGame => doing[s] = gameOf[s] /\ doing[s] \in recorded
  /\ \A s, t \in Streams : doing[s] = doing[t] /\ doing[s] # NoGame => s = t
  /\ AtWork(Reaper) => doing[Reaper] \notin held

(* What is still to be written is not there yet. *)
Unwritten ==
  /\ \A g \in Games \ recorded : /\ rows[<<g, "stream">>] = 0
                                 /\ <<g, "stream">> \notin Committed
  /\ \A g \in held : rows[<<g, "reaper">>] = 0 /\ <<g, "reaper">> \notin Committed
  /\ \A w \in Writers : RowAhead(w) => rows[Update(w)] = 0
  /\ \A w \in Writers : UpdateAhead(w) => Update(w) \notin Committed

(* What counts for a player. *)
CountsFor ==
  \A p \in Players, u \in Updates :
    /\ u \in tally[p].wins <=> u \in Committed /\ winner[u[1]] = p
    /\ u \in tally[p].losses <=> u \in Committed /\ Loser(u[1]) = p

(* A select and an update came after updates that are committed. *)
CameAfter ==
  /\ \A w \in Writers, r \in Roles : seen[w][r].after \subseteq Committed
  /\ \A u \in Committed, r \in Roles : known[u][r] \subseteq Committed

(* Of the updates in after, the elo e of p lacks only those that another one *)
(* overlapped.                                                               *)
Remembers(p, e, after) ==
  \A u \in after : About(u, p) /\ u \notin e
    => \E v \in Committed \ {u} : About(v, p) /\ Overlap(u, v, p)

SeenRemembers ==
  \A w \in Writers :
    /\ at[w] \in {"select", "winner", "loser"} =>
         Remembers(WinnerOf(w), seen[w]["winner"].elo, seen[w]["winner"].after)
    /\ at[w] \in {"winner", "loser"} =>
         Remembers(LoserOf(w), seen[w]["loser"].elo, seen[w]["loser"].after)

(* A game that was decided before a client's eyes has a stream that will come *)
(* to write it, or has been written or failed to be.                          *)
Watching(g) == \E s \in Streams : gameOf[s] = g /\ at[s] = "open"
RowComes(g) == \E s \in Streams : doing[s] = g /\ at[s] \in History
WatchedFit == \A g \in watched : course[g] = "finished"
Kept ==
  /\ \A g \in watched \ recorded : Watching(g)
  /\ \A g \in recorded : Recorded(g) \/ g \in spoilt \/ RowComes(g)
  /\ server = "down" => \A s \in Streams : at[s] = "closed"

Holders(k) == {w \in Writers : at[w] \in Holding /\ PoolOf(w) = k}
Marked == \A k \in Pools : Cardinality(Holders(k)) <= slots[k]

LEMMA TypedIsTypeOK == Typed => TypeOK
BY Sizes DEF Typed, GamesTyped, ThreadsTyped, DatabaseTyped, PoolsTyped, TypeOK, Seen, Tally,
   Pools, PoolSize

-----------------------------------------------------------------------------
(* Types *)

(* The steps that leave a part of the state alone. *)
LEMMA SameTypes ==
  /\ GamesTyped /\ UNCHANGED results => GamesTyped'
  /\ ThreadsTyped /\ UNCHANGED threads => ThreadsTyped'
  /\ DatabaseTyped /\ UNCHANGED database => DatabaseTyped'
  /\ PoolsTyped /\ UNCHANGED pools => PoolsTyped'
BY DEF GamesTyped, ThreadsTyped, DatabaseTyped, PoolsTyped, results, threads, database, pools

LEMMA PointsAre ==
  /\ Rating \subseteq Points /\ History \subseteq Points /\ Holding \subseteq Points
  /\ \A w, job : AfterJob(w, job) \in Points
  /\ \A w : PoolOf(w) \in Pools
  /\ PoolSize \in [Pools -> Nat]
BY Sizes DEF Rating, History, Points, Holding, AfterJob, PoolOf, Pools, PoolSize

(* A thread moves. *)
LEMMA MoveTyped ==
  ASSUME ThreadsTyped, NEW w \in Writers, NEW x \in Points, at' = [at EXCEPT ![w] = x],
         UNCHANGED <<doing, snapshot, recorded>>
  PROVE  ThreadsTyped'
BY DEF ThreadsTyped

LEMMA PlayersAre ==
  ASSUME NEW g \in Games
  PROVE  Outcomes(g) \subseteq Players \cup {Draw} /\ Loser(g) \in Players
BY DEF Outcomes, Loser, Players

LEMMA WriterIs ==
  ASSUME NEW w \in Writers, doing[w] \in Games
  PROVE  Update(w) \in Updates
BY DEF Update, Updates, Way, Ways

(* A connection is given back: there is one to give. *)
LEMMA SomethingHeld ==
  ASSUME Typed, Marked, NEW w \in Writers, at[w] \in Holding
  PROVE  slots[PoolOf(w)] >= 1
<1>. DEFINE k == PoolOf(w)
<1>1. k \in Pools /\ IsFiniteSet(Writers)
  BY PointsAre, Sizes, FS_AddElement DEF Writers
<1>2. IsFiniteSet(Holders(k)) /\ w \in Holders(k)
  BY <1>1, FS_Subset DEF Holders
<1>3. Cardinality(Holders(k)) \in Nat /\ Cardinality(Holders(k)) # 0
  BY <1>2, FS_CardinalityType, FS_EmptySet
<1>. QED
  BY <1>1, <1>3 DEF Marked, Typed, PoolsTyped

LEMMA GiveTyped ==
  ASSUME Typed, Marked, NEW w \in Writers, at[w] \in Holding, Give(PoolOf(w)),
         spoilt' \subseteq Games, faults' \in 0 .. MaxFaults
  PROVE  PoolsTyped'
<1>1. PoolOf(w) \in Pools /\ slots[PoolOf(w)] \in Nat /\ slots[PoolOf(w)] >= 1
  BY SomethingHeld, PointsAre DEF Typed, PoolsTyped
<1>2. slots' \in [Pools -> Nat] /\ \A k \in Pools : slots'[k] <= slots[k]
  BY <1>1 DEF Typed, PoolsTyped, Give
<1>3. \A k \in Pools : slots'[k] <= PoolSize[k]
  BY <1>2, PointsAre DEF Typed, PoolsTyped
<1>. QED
  BY <1>2, <1>3 DEF PoolsTyped

LEMMA TakeTyped ==
  ASSUME Typed, NEW w \in Writers, Free(w), Take(PoolOf(w)),
         spoilt' \subseteq Games, faults' \in 0 .. MaxFaults
  PROVE  PoolsTyped'
<1>1. PoolOf(w) \in Pools /\ slots[PoolOf(w)] < PoolSize[PoolOf(w)]
  BY PointsAre DEF Free
<1>2. slots' \in [Pools -> Nat]
  BY <1>1 DEF Typed, PoolsTyped, Take
<1>3. \A k \in Pools : slots'[k] <= PoolSize[k]
  <2>1. TAKE k \in Pools
  <2>2. slots[k] \in Nat /\ PoolSize[k] \in Nat /\ slots[k] <= PoolSize[k]
    BY PointsAre DEF Typed, PoolsTyped
  <2>3. slots'[k] = IF k = PoolOf(w) THEN slots[k] + 1 ELSE slots[k]
    BY DEF Typed, PoolsTyped, Take
  <2>. QED
    BY <1>1, <2>2, <2>3
<1>. QED
  BY <1>2, <1>3 DEF PoolsTyped

LEMMA DecideTyped ==
  ASSUME GamesTyped, NEW g \in Games, NEW o \in Outcomes(g), Decide(g, o), UNCHANGED held
  PROVE  GamesTyped'
<1>1. course' \in [Games -> Courses]
  BY DEF GamesTyped, Decide, Courses
<1>2. winner' \in [Games -> Players \cup {Draw}]
  BY PlayersAre DEF GamesTyped, Decide
<1>. QED
  BY <1>1, <1>2 DEF GamesTyped, Decide

LEMMA SeesTyped ==
  ASSUME Typed, NEW w \in Writers, NEW p \in Players, NEW r \in Roles
  PROVE  /\ Select(p) \in Seen
         /\ NothingSeen \in [Roles -> Seen]
         /\ [seen EXCEPT ![w][r] = Select(p)] \in [Writers -> [Roles -> Seen]]
         /\ [seen EXCEPT ![w] = NothingSeen] \in [Writers -> [Roles -> Seen]]
<1>1. Select(p) \in Seen
  BY DEF Typed, DatabaseTyped, Select, Seen, Committed, Tally
<1>2. NothingSeen \in [Roles -> Seen]
  BY DEF NothingSeen, Seen
<1>. QED
  BY <1>1, <1>2 DEF Typed, DatabaseTyped

LEMMA Rated ==
  ASSUME Typed, ThreadsFit, NEW w \in Writers, at[w] \in Rating
  PROVE  /\ doing[w] \in Games /\ Update(w) \in Updates
         /\ WinnerOf(w) \in Players /\ LoserOf(w) \in Players
<1>1. doing[w] \in Games /\ Won(doing[w])
  BY DEF ThreadsFit, AtWork
<1>2. WinnerOf(w) \in Players
  BY <1>1 DEF Typed, GamesTyped, Won, WinnerOf
<1>. QED
  BY <1>1, <1>2, WriterIs, PlayersAre DEF LoserOf

LEMMA AtWorkOn ==
  ASSUME Typed, ThreadsFit, NEW w \in Writers, AtWork(w)
  PROVE  doing[w] \in Games /\ Update(w) \in Updates /\ course[doing[w]] = "finished"
BY WriterIs DEF ThreadsFit

LEMMA TypedNext ==
  ASSUME Typed, ThreadsFit, Marked, Next
  PROVE  Typed'
<1>. USE SameTypes DEF Typed
<1>1. ASSUME NEW g \in Games, Play(g)
      PROVE  Typed'
  BY <1>1 DEF Play, GamesTyped, Courses
<1>2. ASSUME NEW g \in Games, Finish(g)
      PROVE  Typed'
  BY <1>2, DecideTyped DEF Finish
<1>3. ASSUME NEW s \in Streams, Open(s)
      PROVE  Typed'
  BY <1>3, MoveTyped DEF Open, Points, Writers
<1>4. ASSUME NEW s \in Streams, Close(s)
      PROVE  Typed'
  <2>1. gameOf[s] \in Games
    BY Sizes
  <2>. QED
    BY <1>4, <2>1 DEF Close, ThreadsTyped, Points, Writers
<1>5. CASE Reap
  BY <1>5 DEF Reap, ThreadsTyped, GamesTyped, Points, Writers
<1>6. CASE Remove
  <2>1. ASSUME NEW g \in snapshot PROVE FirstJob(g) \in Points
    BY DEF FirstJob, Points
  <2>. QED
    BY <1>6, <2>1 DEF Remove, ThreadsTyped, GamesTyped, Points, Writers
<1>7. ASSUME NEW w \in Writers, Acquire(w)
      PROVE  Typed'
  <2>1. ThreadsTyped'
    BY <1>7, MoveTyped DEF Acquire, Points, Holding
  <2>2. PoolsTyped'
    BY <1>7, TakeTyped DEF Acquire, PoolsTyped
  <2>3. DatabaseTyped'
    <3>1. CASE at[w] = "history"
      BY <1>7, <3>1 DEF Acquire, DatabaseTyped
    <3>2. CASE at[w] = "rating"
      BY <1>7, <3>2, Rated, SeesTyped DEF Acquire, DatabaseTyped, Roles, Rating
    <3>. QED
      BY <1>7, <3>1, <3>2 DEF Acquire, Waiting
  <2>. QED
    BY <1>7, <2>1, <2>2, <2>3 DEF Acquire
<1>8. ASSUME NEW w \in Writers, SelectLoser(w)
      PROVE  Typed'
  <2>1. ThreadsTyped'
    BY <1>8, MoveTyped DEF SelectLoser, Points, Holding
  <2>2. DatabaseTyped'
    BY <1>8, Rated, SeesTyped DEF SelectLoser, DatabaseTyped, Roles, Rating
  <2>. QED
    BY <1>8, <2>1, <2>2 DEF SelectLoser
<1>9. ASSUME NEW w \in Writers, UpdateWinner(w)
      PROVE  Typed'
  BY <1>9, MoveTyped DEF UpdateWinner, Points, Holding
<1>10. ASSUME NEW w \in Writers, CommitRating(w)
       PROVE  Typed'
  <2>1. ThreadsTyped'
    BY <1>10, MoveTyped, PointsAre DEF CommitRating, NextJob
  <2>2. PoolsTyped'
    BY <1>10, GiveTyped DEF CommitRating, PoolsTyped, PoolOf, Holding
  <2>3. DatabaseTyped'
    <3>1. /\ Update(w) \in Updates /\ WinnerOf(w) \in Players /\ LoserOf(w) \in Players
          /\ NewElo(w, "winner") \in SUBSET Updates /\ NewElo(w, "loser") \in SUBSET Updates
          /\ [r \in Roles |-> seen[w][r].after] \in [Roles -> SUBSET Updates]
      BY <1>10, Rated DEF CommitRating, Rating, NewElo, DatabaseTyped, Seen, Roles
    <3>2. elo' \in [Players -> SUBSET Updates]
      BY <1>10, <3>1 DEF CommitRating, DatabaseTyped
    <3>3. tally' \in [Players -> Tally]
      <4>. DEFINE won == [tally EXCEPT ![WinnerOf(w)].wins = @ \cup {Update(w)}]
      <4>1. won \in [Players -> Tally]
        BY <3>1 DEF DatabaseTyped, Tally
      <4>2. tally' = [won EXCEPT ![LoserOf(w)].losses = @ \cup {Update(w)}]
        BY <1>10 DEF CommitRating
      <4>. HIDE DEF won
      <4>. QED
        BY <3>1, <4>1, <4>2 DEF Tally
    <3>4. known' \in [Updates -> [Roles -> SUBSET Updates]]
      BY <1>10, <3>1 DEF CommitRating, DatabaseTyped
    <3>5. seen' \in [Writers -> [Roles -> Seen]]
      BY <1>10, <3>1, SeesTyped DEF CommitRating, Roles
    <3>. QED
      BY <1>10, <3>2, <3>3, <3>4, <3>5 DEF CommitRating, DatabaseTyped
  <2>. QED
    BY <1>10, <2>1, <2>2, <2>3 DEF CommitRating
<1>11. ASSUME NEW w \in Writers, CommitHistory(w)
       PROVE  Typed'
  <2>1. ThreadsTyped'
    BY <1>11, MoveTyped, PointsAre DEF CommitHistory, NextJob
  <2>2. PoolsTyped'
    BY <1>11, GiveTyped DEF CommitHistory, PoolsTyped, PoolOf, Holding
  <2>3. DatabaseTyped'
    BY <1>11, AtWorkOn DEF CommitHistory, DatabaseTyped, AtWork, History
  <2>. QED
    BY <1>11, <2>1, <2>2, <2>3 DEF CommitHistory
<1>12. ASSUME NEW w \in Writers, at[w] \in Holding, RollBack(w), faults' \in 0 .. MaxFaults,
              UNCHANGED server
       PROVE  Typed'
  <2>1. ThreadsTyped'
    BY <1>12, MoveTyped, PointsAre DEF RollBack, NextJob
  <2>2. PoolsTyped'
    <3>1. at[w] = "insert" => doing[w] \in Games
      BY AtWorkOn DEF AtWork, History
    <3>. QED
      BY <1>12, <3>1, GiveTyped DEF RollBack, PoolsTyped
  <2>3. DatabaseTyped'
    <3>1. [seen EXCEPT ![w] = NothingSeen] \in [Writers -> [Roles -> Seen]]
      BY DEF DatabaseTyped, NothingSeen, Seen
    <3>. QED
      BY <1>12, <3>1 DEF RollBack, DatabaseTyped
  <2>. QED
    BY <1>12, <2>1, <2>2, <2>3 DEF RollBack
<1>13. ASSUME NEW w \in Writers, Waiting(w), Thrown(w)
       PROVE  /\ GamesTyped' /\ ThreadsTyped' /\ DatabaseTyped' /\ server' \in Shutdown
              /\ spoilt' \subseteq Games
  <2>1. doing[w] \in Games
    BY <1>13, AtWorkOn DEF Waiting, AtWork, History, Rating
  <2>2. ThreadsTyped'
    BY <1>13, MoveTyped DEF Thrown, Points, ThreadsTyped
  <2>. QED
    BY <1>13, <2>1, <2>2 DEF Thrown, PoolsTyped, Shutdown
<1>14. ASSUME NEW w \in Writers, Busy(w)
       PROVE  Typed'
  BY <1>13, <1>14 DEF Busy, PoolsTyped
<1>15. ASSUME NEW w \in Writers, LoseSlot(w)
       PROVE  Typed'
  <2>1. faults' \in 0 .. MaxFaults
    BY <1>15, Sizes DEF LoseSlot, PoolsTyped
  <2>. QED
    BY <1>13, <1>15, <2>1, TakeTyped DEF LoseSlot
<1>16. ASSUME NEW w \in Writers, DatabaseFails(w) \/ Deadlock(w)
       PROVE  Typed'
  <2>1. RollBack(w) /\ at[w] \in Holding /\ UNCHANGED server
    BY <1>16 DEF DatabaseFails, Deadlock, Holding, RollBack
  <2>2. faults' \in 0 .. MaxFaults
    BY <1>16, Sizes DEF DatabaseFails, Deadlock, PoolsTyped
  <2>. QED
    BY <1>12, <2>1, <2>2
<1>17. ASSUME NEW g \in Games, StopGame(g)
       PROVE  Typed'
  <2>1. GamesTyped'
    BY <1>17, DecideTyped DEF StopGame, Outcomes, GamesTyped, Courses
  <2>. QED
    BY <1>17, <2>1 DEF StopGame
<1>18. CASE EndOfMain
  BY <1>18 DEF EndOfMain, Stage, Shutdown, GamesTyped, Courses
<1>19. CASE Signal \/ JoinReaper \/ GamesStopped \/ CloseServer
  BY <1>19 DEF Signal, JoinReaper, GamesStopped, CloseServer, Stage, Shutdown
<1>. QED
  BY <1>1, <1>2, <1>3, <1>4, <1>5, <1>6, <1>7, <1>8, <1>9, <1>10, <1>11, <1>14, <1>15, <1>16,
     <1>17, <1>18, <1>19 DEF Next, Writes, Mishap, ShutDown

-----------------------------------------------------------------------------
(* Connections *)

LEMMA HoldersFinite ==
  ASSUME NEW k
  PROVE  IsFiniteSet(Holders(k)) /\ Cardinality(Holders(k)) \in Nat
<1>1. IsFiniteSet(Writers)
  BY Sizes, FS_AddElement DEF Writers
<1>. QED
  BY <1>1, FS_Subset, FS_CardinalityType DEF Holders

(* The thread w moves from a point without a connection to another. *)
LEMMA MarkedIdle ==
  ASSUME Typed, Marked, NEW w \in Writers, at[w] \notin Holding,
         NEW x \in Points \ Holding, at' = [at EXCEPT ![w] = x],
         \A k \in Pools : slots'[k] >= slots[k], slots' \in [Pools -> Nat]
  PROVE  Marked'
<1>1. SUFFICES ASSUME NEW k \in Pools
               PROVE  Cardinality(Holders(k)') <= slots'[k]
  BY DEF Marked
<1>2. Holders(k)' = Holders(k)
  BY DEF Holders, PoolOf, Typed, ThreadsTyped
<1>. QED
  BY <1>2, HoldersFinite DEF Marked, Typed, PoolsTyped

(* The thread w keeps its connection. *)
LEMMA MarkedStays ==
  ASSUME Typed, Marked, NEW w \in Writers, at[w] \in Holding \ {"insert"},
         NEW x \in Holding \ {"insert"}, at' = [at EXCEPT ![w] = x], UNCHANGED slots
  PROVE  Marked'
<1>1. SUFFICES ASSUME NEW k \in Pools
               PROVE  Cardinality(Holders(k)') <= slots'[k]
  BY DEF Marked
<1>2. Holders(k)' = Holders(k)
  BY DEF Holders, PoolOf, Typed, ThreadsTyped, Holding
<1>. QED
  BY <1>2 DEF Marked

(* The thread w takes a connection, or gives it back. *)
LEMMA MarkedTakes ==
  ASSUME Typed, Marked, NEW w \in Writers, at[w] \notin Holding, NEW x \in Holding,
         at' = [at EXCEPT ![w] = x], PoolOf(w)' = PoolOf(w), Take(PoolOf(w))
  PROVE  Marked'
<1>1. SUFFICES ASSUME NEW k \in Pools
               PROVE  Cardinality(Holders(k)') <= slots'[k]
  BY DEF Marked
<1>2. Cardinality(Holders(k)) \in Nat /\ slots[k] \in Nat /\ Cardinality(Holders(k)) <= slots[k]
  BY HoldersFinite DEF Marked, Typed, PoolsTyped
<1>3. CASE k = PoolOf(w)
  <2>1. Holders(k)' = Holders(k) \cup {w} /\ w \notin Holders(k)
    BY <1>3 DEF Holders, PoolOf, Typed, ThreadsTyped
  <2>2. Cardinality(Holders(k)') = Cardinality(Holders(k)) + 1
    BY <2>1, HoldersFinite, FS_AddElement
  <2>3. slots'[k] = slots[k] + 1
    BY <1>3 DEF Take, Typed, PoolsTyped
  <2>. QED
    BY <1>2, <2>2, <2>3
<1>4. CASE k # PoolOf(w)
  <2>1. Holders(k)' = Holders(k)
    BY <1>4 DEF Holders, PoolOf, Typed, ThreadsTyped
  <2>2. slots'[k] = slots[k]
    BY <1>4 DEF Take, Typed, PoolsTyped
  <2>. QED
    BY <1>2, <2>1, <2>2
<1>. QED
  BY <1>3, <1>4

LEMMA MarkedGives ==
  ASSUME Typed, Marked, NEW w \in Writers, at[w] \in Holding, NEW x \in Points \ Holding,
         at' = [at EXCEPT ![w] = x], Give(PoolOf(w))
  PROVE  Marked'
<1>1. SUFFICES ASSUME NEW k \in Pools
               PROVE  Cardinality(Holders(k)') <= slots'[k]
  BY DEF Marked
<1>2. Cardinality(Holders(k)) \in Nat /\ slots[k] \in Nat /\ Cardinality(Holders(k)) <= slots[k]
  BY HoldersFinite DEF Marked, Typed, PoolsTyped
<1>3. CASE k = PoolOf(w)
  <2>1. Holders(k)' = Holders(k) \ {w} /\ w \in Holders(k)
    BY <1>3 DEF Holders, PoolOf, Typed, ThreadsTyped
  <2>2. Cardinality(Holders(k)') = Cardinality(Holders(k)) - 1
    BY <2>1, HoldersFinite, FS_RemoveElement
  <2>3. slots'[k] = slots[k] - 1
    BY <1>3 DEF Give, Typed, PoolsTyped
  <2>. QED
    BY <1>2, <2>2, <2>3
<1>4. CASE k # PoolOf(w)
  <2>1. Holders(k)' = Holders(k)
    BY <1>4 DEF Holders, PoolOf, Typed, ThreadsTyped
  <2>2. slots'[k] = slots[k]
    BY <1>4 DEF Give, Typed, PoolsTyped
  <2>. QED
    BY <1>2, <2>1, <2>2
<1>. QED
  BY <1>3, <1>4

LEMMA AfterJobIs ==
  ASSUME NEW w \in Writers, NEW job
  PROVE  /\ AfterJob(w, job) \in Points \ Holding
         /\ w # Reaper /\ job = "history" =>
              AfterJob(w, job) = IF Won(doing[w]) THEN "rating" ELSE "closed"
         /\ w # Reaper /\ job = "rating" => AfterJob(w, job) = "closed"
         /\ w = Reaper /\ job = "rating" => AfterJob(w, job) = "history"
         /\ w = Reaper /\ job = "history" => AfterJob(w, job) = "remove"
BY DEF AfterJob, Points, Holding

LEMMA MarkedNext ==
  ASSUME Typed, ThreadsFit, Marked, Next
  PROVE  Marked'
<1>. USE DEF Holding, Points, Writers
<1>. DEFINE More == slots' \in [Pools -> Nat] /\ \A k \in Pools : slots'[k] >= slots[k]
<1>1. UNCHANGED slots => More
  BY DEF Typed, PoolsTyped
<1>2. ASSUME UNCHANGED <<at, slots>>
      PROVE  Marked'
  BY <1>2 DEF Marked, Holders, PoolOf
<1>3. ASSUME NEW s \in Streams, Open(s) \/ Close(s)
      PROVE  Marked'
  <2>1. at[s] \notin Holding /\ UNCHANGED slots
    BY <1>3 DEF Open, Close, pools
  <2>2. \E x \in Points \ Holding : at' = [at EXCEPT ![s] = x]
    BY <1>3 DEF Open, Close
  <2>. QED
    BY <1>1, <2>1, <2>2, MarkedIdle
<1>4. CASE Reap \/ Remove
  <2>1. at[Reaper] \notin Holding /\ UNCHANGED slots
    BY <1>4 DEF Reap, Remove, pools
  <2>2. \E x \in Points \ Holding : at' = [at EXCEPT ![Reaper] = x]
    BY <1>4 DEF Reap, Remove, FirstJob
  <2>. QED
    BY <1>1, <2>1, <2>2, MarkedIdle
<1>5. ASSUME NEW w \in Writers, Acquire(w)
      PROVE  Marked'
  <2>. DEFINE x == IF at[w] = "history" THEN "insert" ELSE "select"
  <2>1. at[w] \notin Holding /\ x \in Holding /\ at' = [at EXCEPT ![w] = x]
    BY <1>5 DEF Acquire, Waiting
  <2>2. PoolOf(w)' = PoolOf(w)
    BY <1>5, <2>1 DEF Acquire, Waiting, PoolOf, Typed, ThreadsTyped
  <2>. HIDE DEF x
  <2>. QED
    BY <1>5, <2>1, <2>2, MarkedTakes DEF Acquire
<1>6. ASSUME NEW w \in Writers, SelectLoser(w) \/ UpdateWinner(w)
      PROVE  Marked'
  BY <1>6, MarkedStays DEF SelectLoser, UpdateWinner, pools
<1>7. ASSUME NEW w \in Writers, CommitRating(w) \/ CommitHistory(w) \/ DatabaseFails(w)
                                \/ Deadlock(w)
      PROVE  Marked'
  <2>1. at[w] \in Holding /\ NextJob(w) /\ Give(PoolOf(w))
    BY <1>7 DEF CommitRating, CommitHistory, DatabaseFails, Deadlock, RollBack, PoolOf
  <2>. QED
    BY <2>1, AfterJobIs, MarkedGives DEF NextJob
<1>8. ASSUME NEW w \in Writers, Waiting(w), Thrown(w), More
      PROVE  Marked'
  <2>1. CASE UNCHANGED at
    <3>1. SUFFICES ASSUME NEW k \in Pools
                   PROVE  Cardinality(Holders(k)') <= slots'[k]
      BY DEF Marked
    <3>2. Holders(k)' = Holders(k)
      BY <2>1 DEF Holders, PoolOf
    <3>3. /\ Cardinality(Holders(k)) \in Nat /\ slots[k] \in Nat /\ slots'[k] \in Nat
          /\ Cardinality(Holders(k)) <= slots[k] /\ slots'[k] >= slots[k]
      BY <1>8, HoldersFinite DEF Marked, Typed, PoolsTyped
    <3>. QED
      BY <3>2, <3>3
  <2>2. CASE at' = [at EXCEPT ![w] = "closed"]
    BY <1>8, <2>2, MarkedIdle DEF Waiting
  <2>. QED
    BY <1>8, <2>1, <2>2 DEF Thrown
<1>9. ASSUME NEW w \in Writers, Busy(w)
      PROVE  Marked'
  BY <1>1, <1>8, <1>9 DEF Busy
<1>10. ASSUME NEW w \in Writers, LoseSlot(w)
      PROVE  Marked'
  <2>1. More
    BY <1>10, PointsAre DEF LoseSlot, Take, Typed, PoolsTyped
  <2>. QED
    BY <1>8, <1>10, <2>1 DEF LoseSlot
<1>11. ASSUME NEW g \in Games, Play(g) \/ Finish(g) \/ StopGame(g)
      PROVE  Marked'
  BY <1>2, <1>11 DEF Play, Finish, StopGame, threads, pools
<1>12. CASE Signal \/ JoinReaper \/ GamesStopped \/ CloseServer \/ EndOfMain
  BY <1>2, <1>12 DEF Signal, JoinReaper, GamesStopped, CloseServer, EndOfMain, threads, pools
<1>. QED
  BY <1>3, <1>4, <1>5, <1>6, <1>7, <1>9, <1>10, <1>11, <1>12 DEF Next, Writes, Mishap, ShutDown

-----------------------------------------------------------------------------
(* Games and threads *)

(* A finished game stays finished, with the result it has. *)
LEMMA FinishedStays ==
  ASSUME Typed, Next
  PROVE  \A g \in Games : course[g] = "finished" =>
           course'[g] = "finished" /\ winner'[g] = winner[g] /\ (Won(g)' <=> Won(g))
<1>1. ASSUME NEW g \in Games, course[g] = "finished"
      PROVE  course'[g] = "finished" /\ winner'[g] = winner[g]
  <2>1. ASSUME NEW h \in Games, NEW o, Decide(h, o)
        PROVE  course'[g] = "finished" /\ winner'[g] = winner[g]
    BY <1>1, <2>1 DEF Decide, Typed, GamesTyped
  <2>2. ASSUME UNCHANGED <<course, winner>>
        PROVE  course'[g] = "finished" /\ winner'[g] = winner[g]
    BY <1>1, <2>2
  <2>3. ASSUME NEW h \in Games, Play(h) \/ Finish(h) \/ StopGame(h)
        PROVE  course'[g] = "finished" /\ winner'[g] = winner[g]
    BY <1>1, <2>1, <2>3 DEF Play, Finish, StopGame, Typed, GamesTyped
  <2>4. CASE EndOfMain
    BY <1>1, <2>4 DEF EndOfMain
  <2>5. ASSUME NEW w \in Writers, Writes(w) \/ Mishap(w)
        PROVE  UNCHANGED <<course, winner>>
    BY <2>5 DEF Writes, Mishap, Acquire, SelectLoser, UpdateWinner, CommitRating, CommitHistory,
      Deadlock, Busy, DatabaseFails, LoseSlot, RollBack, Thrown, results
  <2>6. ASSUME NEW s \in Streams, Open(s) \/ Close(s)
        PROVE  UNCHANGED <<course, winner>>
    BY <2>6 DEF Open, Close, results
  <2>7. ASSUME Reap \/ Remove \/ Signal \/ JoinReaper \/ GamesStopped \/ CloseServer
        PROVE  UNCHANGED <<course, winner>>
    BY <2>7 DEF Reap, Remove, Signal, JoinReaper, GamesStopped, CloseServer, results
  <2>. QED
    BY <2>2, <2>3, <2>4, <2>5, <2>6, <2>7 DEF Next, ShutDown
<1>. QED
  BY <1>1 DEF Won

(* Only a commit changes what counts. *)
LEMMA TallyChanges ==
  ASSUME Next, \A w \in Writers : ~CommitRating(w)
  PROVE  UNCHANGED <<elo, tally, known>>
<1>1. ASSUME NEW w \in Writers, Writes(w) \/ Mishap(w)
      PROVE  UNCHANGED <<elo, tally, known>>
  BY <1>1 DEF Writes, Mishap, Acquire, SelectLoser, UpdateWinner, CommitHistory,
    Deadlock, Busy, DatabaseFails, LoseSlot, RollBack, Thrown, database
<1>2. ASSUME NEW s \in Streams, Open(s) \/ Close(s)
      PROVE  UNCHANGED <<elo, tally, known>>
  BY <1>2 DEF Open, Close, database
<1>3. ASSUME NEW g \in Games, Play(g) \/ Finish(g) \/ StopGame(g)
      PROVE  UNCHANGED <<elo, tally, known>>
  BY <1>3 DEF Play, Finish, StopGame, database
<1>4. ASSUME Reap \/ Remove \/ Signal \/ JoinReaper \/ GamesStopped \/ CloseServer \/ EndOfMain
      PROVE  UNCHANGED <<elo, tally, known>>
  BY <1>4 DEF Reap, Remove, Signal, JoinReaper, GamesStopped, CloseServer, EndOfMain, database
<1>. QED
  BY <1>1, <1>2, <1>3, <1>4 DEF Next, ShutDown

LEMMA SameCommitted ==
  ASSUME UNCHANGED tally
  PROVE  Committed' = Committed
BY DEF Committed

(* Which update a commit adds. *)
LEMMA CommitAdds ==
  ASSUME Typed, ThreadsFit, NEW w \in Writers, CommitRating(w)
  PROVE  /\ Committed' = Committed \cup {Update(w)}
         /\ \A p \in Players :
              /\ tally'[p].wins = tally[p].wins \cup
                                    (IF p = WinnerOf(w) THEN {Update(w)} ELSE {})
              /\ tally'[p].losses = tally[p].losses \cup
                                    (IF p = LoserOf(w) THEN {Update(w)} ELSE {})
<1>1. WinnerOf(w) \in Players /\ LoserOf(w) \in Players
  BY Rated DEF CommitRating, Rating
<1>2. \A p \in Players :
        /\ tally'[p].wins = tally[p].wins \cup (IF p = WinnerOf(w) THEN {Update(w)} ELSE {})
        /\ tally'[p].losses = tally[p].losses \cup (IF p = LoserOf(w) THEN {Update(w)} ELSE {})
  <2>. DEFINE won == [tally EXCEPT ![WinnerOf(w)].wins = @ \cup {Update(w)}]
  <2>1. /\ won \in [Players -> Tally]
        /\ \A p \in Players :
             /\ won[p].wins = tally[p].wins \cup (IF p = WinnerOf(w) THEN {Update(w)} ELSE {})
             /\ won[p].losses = tally[p].losses
    <3>1. tally \in [Players -> Tally] /\ Update(w) \in Updates
      BY Rated DEF Typed, DatabaseTyped, CommitRating, Rating
    <3>. QED
      BY <1>1, <3>1 DEF Tally
  <2>2. tally' = [won EXCEPT ![LoserOf(w)].losses = @ \cup {Update(w)}]
    BY DEF CommitRating
  <2>. HIDE DEF won
  <2>. QED
    BY <1>1, <2>1, <2>2 DEF Tally
<1>. HIDE DEF CommitRating
<1>3. Committed' = UNION {tally'[p].wins : p \in Players}
  BY DEF Committed
<1>. QED
  BY <1>1, <1>2, <1>3 DEF Committed

(* A thread moves, with the game it is about. *)
LEMMA MoveFits ==
  ASSUME Typed, ThreadsFit, Next, NEW w \in Writers, NEW x \in Points,
         at' = [at EXCEPT ![w] = x], UNCHANGED <<held, doing, snapshot, recorded>>,
         x \in {"idle", "remove"} => w = Reaper, x \in {"open", "closed"} => w # Reaper,
         x \in Rating \cup History => doing[w] \in Games /\ course[doing[w]] = "finished",
         x \in Rating => Won(doing[w])
  PROVE  ThreadsFit'
<1>. USE FinishedStays DEF Typed, GamesTyped, ThreadsTyped
<1>1. \A s \in Streams : at'[s] \notin {"idle", "remove"}
  BY Sizes DEF ThreadsFit, Writers
<1>2. at'[Reaper] \notin {"open", "closed"}
  BY DEF ThreadsFit, Writers
<1>3. \A v \in Writers : AtWork(v)' => doing'[v] \in Games /\ course'[doing'[v]] = "finished"
  BY DEF ThreadsFit, AtWork
<1>4. \A v \in Writers : at'[v] \in Rating => Won(doing[v])'
  <2>1. \A v \in Writers : at'[v] \in Rating =>
          doing[v] \in Games /\ course[doing[v]] = "finished" /\ Won(doing[v])
    BY DEF ThreadsFit, AtWork
  <2>. QED
    BY <2>1 DEF Won
<1>5. \A g \in snapshot' \cup recorded' : course'[g] = "finished"
  BY DEF ThreadsFit
<1>. QED
  BY <1>1, <1>2, <1>3, <1>4, <1>5 DEF ThreadsFit

LEMMA SameThreadsFit ==
  ASSUME Typed, ThreadsFit, Next, UNCHANGED <<at, held, doing, snapshot, recorded>>
  PROVE  ThreadsFit'
<1>1. Reaper \in Writers /\ at' = [at EXCEPT ![Reaper] = at[Reaper]] /\ at[Reaper] \in Points
  BY DEF Writers, Typed, ThreadsTyped
<1>. QED
  BY <1>1, MoveFits DEF ThreadsFit, AtWork

LEMMA JobEnds ==
  ASSUME Typed, ThreadsFit, Next, NEW w \in Writers, AtWork(w), NextJob(w),
         UNCHANGED <<held, doing, snapshot, recorded>>
  PROVE  ThreadsFit'
<1>. DEFINE x == AfterJob(w, PoolOf(w))
<1>1. /\ x \in Points
      /\ x \in {"idle", "remove"} => w = Reaper
      /\ x \in {"open", "closed"} => w # Reaper
      /\ x \in Rating => Won(doing[w])
  BY AfterJobIs DEF PoolOf, Rating
<1>. HIDE DEF x
<1>. QED
  BY <1>1, MoveFits DEF NextJob, ThreadsFit, x

LEMMA ThreadsFitNext ==
  ASSUME Typed, ThreadsFit, Next
  PROVE  ThreadsFit'
<1>1. ASSUME NEW s \in Streams, Open(s)
      PROVE  ThreadsFit'
  BY <1>1, MoveFits, Sizes DEF Open, results, Points, Writers, Rating, History
<1>2. ASSUME NEW s \in Streams, Close(s)
      PROVE  ThreadsFit'
  <2>1. CASE MayRecord(s)
    <3>. DEFINE g == gameOf[s]
    <3>1. /\ g \in Games /\ course[g] = "finished" /\ s # Reaper /\ s \in Writers
          /\ at' = [at EXCEPT ![s] = "history"] /\ doing' = [doing EXCEPT ![s] = g]
          /\ recorded' = recorded \cup {g}
          /\ UNCHANGED <<course, winner, held, snapshot>>
      BY <1>2, <2>1, Sizes DEF Close, MayRecord, results, Writers
    <3>. HIDE DEF g
    <3>2. \A v \in Writers : AtWork(v)' => doing'[v] \in Games /\ course'[doing'[v]] = "finished"
      BY <3>1 DEF ThreadsFit, AtWork, Typed, ThreadsTyped
    <3>3. \A v \in Writers : at'[v] \in Rating => Won(doing[v])'
      BY <3>1 DEF ThreadsFit, Won, Typed, ThreadsTyped, Rating
    <3>. QED
      BY <3>1, <3>2, <3>3 DEF ThreadsFit, Typed, ThreadsTyped, Writers
  <2>2. CASE ~MayRecord(s)
    BY <1>2, <2>2, MoveFits, Sizes DEF Close, results, Points, Writers, Rating, History
  <2>. QED
    BY <2>1, <2>2
<1>3. CASE Reap
  <2>1. /\ at' = [at EXCEPT ![Reaper] = "remove"] /\ snapshot' \subseteq held
        /\ \A g \in snapshot' : course[g] = "finished"
        /\ UNCHANGED <<course, winner, held, doing, recorded>>
    BY <1>3 DEF Reap, results
  <2>. QED
    BY <2>1, Sizes DEF ThreadsFit, AtWork, Won, Typed, ThreadsTyped, Rating, History, Writers
<1>4. CASE Remove
  <2>1. ASSUME NEW g \in snapshot, snapshot' = snapshot \ {g}, held' = held \ {g},
               doing' = [doing EXCEPT ![Reaper] = g],
               at' = [at EXCEPT ![Reaper] = FirstJob(g)]
        PROVE  ThreadsFit'
    <3>1. /\ course[g] = "finished" /\ g \in Games /\ Reaper \notin Streams /\ Reaper \in Writers
          /\ UNCHANGED <<course, winner, recorded>>
      BY <1>4, Sizes DEF Remove, ThreadsFit, Typed, ThreadsTyped, Writers
    <3>2. FirstJob(g) \in {"rating", "history"} /\ (FirstJob(g) = "rating" => Won(g))
      BY DEF FirstJob
    <3>3. \A v \in Writers : AtWork(v)' => doing'[v] \in Games /\ course'[doing'[v]] = "finished"
      BY <2>1, <3>1, <3>2 DEF ThreadsFit, AtWork, Typed, ThreadsTyped
    <3>4. \A v \in Writers : at'[v] \in Rating => Won(doing[v])'
      BY <2>1, <3>1, <3>2 DEF ThreadsFit, Won, Typed, ThreadsTyped, Rating
    <3>. QED
      BY <2>1, <3>1, <3>2, <3>3, <3>4 DEF ThreadsFit, Typed, ThreadsTyped, Writers
  <2>2. CASE at' = [at EXCEPT ![Reaper] = "idle"] /\ UNCHANGED <<snapshot, held, doing>>
    BY <1>4, <2>2, MoveFits DEF Remove, Points, Writers, Rating, History
  <2>. QED
    BY <1>4, <2>1, <2>2 DEF Remove
<1>5. ASSUME NEW w \in Writers, Acquire(w)
      PROVE  ThreadsFit'
  <2>. DEFINE x == IF at[w] = "history" THEN "insert" ELSE "select"
  <2>1. x \in Points /\ AtWork(w) /\ (x \in Rating => at[w] \in Rating)
        /\ at' = [at EXCEPT ![w] = x] /\ x \notin {"idle", "remove", "open", "closed"}
    BY <1>5 DEF Acquire, Waiting, Points, Holding, AtWork, Rating, History
  <2>. HIDE DEF x
  <2>. QED
    BY <1>5, <2>1, MoveFits DEF Acquire, results, ThreadsFit
<1>6. ASSUME NEW w \in Writers, SelectLoser(w) \/ UpdateWinner(w)
      PROVE  ThreadsFit'
  BY <1>6, MoveFits DEF SelectLoser, UpdateWinner, results, Points, Holding, AtWork, Rating,
     History, ThreadsFit
<1>7. ASSUME NEW w \in Writers, CommitRating(w) \/ CommitHistory(w) \/ DatabaseFails(w)
                                \/ Deadlock(w)
      PROVE  ThreadsFit'
  <2>1. /\ AtWork(w) /\ NextJob(w) /\ UNCHANGED <<held, doing, snapshot, recorded>>
    BY <1>7 DEF CommitRating, CommitHistory, DatabaseFails, Deadlock, RollBack, Holding, AtWork,
       Rating, History, results
  <2>. QED
    BY <2>1, JobEnds
<1>8. ASSUME NEW w \in Writers, Busy(w) \/ LoseSlot(w)
      PROVE  ThreadsFit'
  <2>1. UNCHANGED <<held, doing, snapshot, recorded>>
    BY <1>8 DEF Busy, LoseSlot, Thrown, results
  <2>2. CASE UNCHANGED at
    BY <2>1, <2>2, SameThreadsFit
  <2>3. CASE w # Reaper /\ at' = [at EXCEPT ![w] = "closed"]
    BY <2>1, <2>3, MoveFits DEF Points, Rating, History
  <2>. QED
    BY <1>8, <2>2, <2>3 DEF Busy, LoseSlot, Thrown
<1>9. ASSUME NEW g \in Games, Play(g) \/ Finish(g) \/ StopGame(g)
      PROVE  ThreadsFit'
  BY <1>9, SameThreadsFit DEF Play, Finish, StopGame, threads
<1>10. CASE Signal \/ JoinReaper \/ GamesStopped \/ CloseServer \/ EndOfMain
  BY <1>10, SameThreadsFit DEF Signal, JoinReaper, GamesStopped, CloseServer, EndOfMain, threads,
     results
<1>. QED
  BY <1>1, <1>2, <1>3, <1>4, <1>5, <1>6, <1>7, <1>8, <1>9, <1>10 DEF Next, Writes, Mishap, ShutDown

LEMMA CountedFitNext ==
  ASSUME Typed, ThreadsFit, CountedFit, Next
  PROVE  CountedFit'
<1>1. ASSUME UNCHANGED tally
      PROVE  CountedFit'
  <2>1. Committed' = Committed /\ \A u \in Committed : u[1] \in Games
    BY <1>1, SameCommitted DEF Typed, DatabaseTyped, Tally, Committed, Updates
  <2>. QED
    BY <2>1, FinishedStays DEF CountedFit
<1>2. ASSUME NEW w \in Writers, CommitRating(w)
      PROVE  CountedFit'
  <2>1. Committed' = Committed \cup {Update(w)}
    BY <1>2, CommitAdds
  <2>3. \A u \in Committed : u[1] \in Games
    BY DEF Typed, DatabaseTyped, Tally, Committed, Updates
  <2>2. /\ Update(w)[1] = doing[w] /\ doing[w] \in Games
        /\ course[doing[w]] = "finished" /\ Won(doing[w])
    BY <1>2 DEF CommitRating, Update, ThreadsFit, AtWork, Rating
  <2>. QED
    BY <2>1, <2>2, <2>3, FinishedStays DEF CountedFit
<1>. QED
  BY <1>1, <1>2, TallyChanges

-----------------------------------------------------------------------------
(* Nothing is written twice *)

(* Two threads at work write different things. *)
LEMMA OtherUpdate ==
  ASSUME ThreadsFit, OneWriter, NEW v \in Writers, NEW w \in Writers, AtWork(v), AtWork(w), v # w
  PROVE  Update(v) # Update(w)
<1>1. doing[v] \in Games /\ doing[w] \in Games
  BY DEF ThreadsFit
<1>2. CASE v \in Streams /\ w \in Streams
  BY <1>1, <1>2, Sizes DEF OneWriter, Update
<1>3. CASE v = Reaper \/ w = Reaper
  BY <1>3 DEF Update, Way
<1>. QED
  BY <1>2, <1>3 DEF Writers

LEMMA SameOneWriter ==
  ASSUME OneWriter, UNCHANGED <<doing, recorded, held>>, AtWork(Reaper)' => AtWork(Reaper)
  PROVE  OneWriter'
BY DEF OneWriter

LEMMA OneWriterNext ==
  ASSUME Typed, ThreadsFit, OneWriter, Next
  PROVE  OneWriter'
<1>. USE DEF Typed, ThreadsTyped
<1>1. ASSUME NEW s \in Streams, Open(s)
      PROVE  OneWriter'
  BY <1>1, SameOneWriter, Sizes DEF Open, results, AtWork, Writers
<1>2. ASSUME NEW s \in Streams, Close(s)
      PROVE  OneWriter'
  <2>1. CASE MayRecord(s)
    <3>. DEFINE g == gameOf[s]
    <3>1. /\ g \in Games /\ g \notin recorded /\ g # NoGame /\ s # Reaper /\ s \in Writers
          /\ at' = [at EXCEPT ![s] = "history"] /\ doing' = [doing EXCEPT ![s] = g]
          /\ recorded' = recorded \cup {g} /\ UNCHANGED held
      BY <1>2, <2>1, Sizes DEF Close, MayRecord, results, Writers
    <3>2. \A t \in Streams : doing'[t] # NoGame => doing'[t] = gameOf[t] /\ doing'[t] \in recorded'
      BY <3>1 DEF OneWriter, Writers
    <3>3. \A t \in Streams : doing[t] # g
      BY <3>1 DEF OneWriter
    <3>. HIDE DEF g
    <3>4. \A t, u \in Streams : doing'[t] = doing'[u] /\ doing'[t] # NoGame => t = u
      BY <3>1, <3>3 DEF OneWriter, Writers
    <3>5. AtWork(Reaper)' => doing'[Reaper] \notin held'
      BY <3>1 DEF OneWriter, Writers, AtWork
    <3>. QED
      BY <3>2, <3>4, <3>5 DEF OneWriter
  <2>2. CASE ~MayRecord(s)
    BY <1>2, <2>2, SameOneWriter, Sizes DEF Close, results, AtWork, Writers
  <2>. QED
    BY <2>1, <2>2
<1>3. CASE Reap
  BY <1>3, SameOneWriter DEF Reap, results, AtWork, Rating, History, Writers
<1>4. CASE Remove
  <2>1. ASSUME NEW g \in snapshot, held' = held \ {g},
               doing' = [doing EXCEPT ![Reaper] = g]
        PROVE  OneWriter'
    BY <1>4, <2>1, Sizes DEF OneWriter, Remove, Writers
  <2>2. CASE at' = [at EXCEPT ![Reaper] = "idle"] /\ UNCHANGED <<snapshot, held, doing>>
    BY <1>4, <2>2, SameOneWriter DEF Remove, AtWork, Rating, History, Writers
  <2>. QED
    BY <1>4, <2>1, <2>2 DEF Remove
<1>5. ASSUME NEW w \in Writers, Writes(w) \/ Mishap(w)
      PROVE  OneWriter'
  <2>1. UNCHANGED <<doing, recorded, held>>
    BY <1>5 DEF Writes, Mishap, Acquire, SelectLoser, UpdateWinner, CommitRating, CommitHistory,
      Deadlock, Busy, DatabaseFails, LoseSlot, RollBack, Thrown, results, threads
  <2>2. AtWork(w)
    BY <1>5 DEF Writes, Mishap, Acquire, SelectLoser, UpdateWinner, CommitRating, CommitHistory,
      Deadlock, Busy, DatabaseFails, LoseSlot, Waiting, Holding, AtWork, Rating, History
  <2>3. at' = [at EXCEPT ![w] = at'[w]] \/ UNCHANGED at
    BY <1>5 DEF Writes, Mishap, Acquire, SelectLoser, UpdateWinner, CommitRating, CommitHistory,
      Deadlock, Busy, DatabaseFails, LoseSlot, RollBack, Thrown, NextJob
  <2>. QED
    BY <2>1, <2>2, <2>3, SameOneWriter DEF AtWork, Writers
<1>6. ASSUME NEW g \in Games, Play(g) \/ Finish(g) \/ StopGame(g)
      PROVE  OneWriter'
  BY <1>6, SameOneWriter DEF Play, Finish, StopGame, threads, AtWork
<1>7. CASE Signal \/ JoinReaper \/ GamesStopped \/ CloseServer \/ EndOfMain
  BY <1>7, SameOneWriter DEF Signal, JoinReaper, GamesStopped, CloseServer, EndOfMain, threads,
     results, AtWork
<1>. QED
  BY <1>1, <1>2, <1>3, <1>4, <1>5, <1>6, <1>7 DEF Next, ShutDown

(* The records stay, and no thread gets more to write. *)
LEMMA SameUnwritten ==
  ASSUME Unwritten, UNCHANGED <<rows, tally>>, held' \subseteq held, recorded \subseteq recorded',
         \A w \in Writers : AtWork(w)' => Update(w)' = Update(w),
         \A w \in Writers : RowAhead(w)' => RowAhead(w),
         \A w \in Writers : UpdateAhead(w)' => UpdateAhead(w)
  PROVE  Unwritten'
<1>1. \A w \in Writers : RowAhead(w) \/ UpdateAhead(w) => AtWork(w)
  BY DEF RowAhead, UpdateAhead, AtWork
<1>2. \A w \in Writers : RowAhead(w)' \/ UpdateAhead(w)' => AtWork(w)'
  BY DEF RowAhead, UpdateAhead, AtWork
<1>. QED
  BY <1>1, <1>2, SameCommitted DEF Unwritten

(* A thread moves on to a point where it has no more to write. *)
LEMMA MoveUnwritten ==
  ASSUME Typed, Unwritten, UNCHANGED <<rows, tally, doing>>, held' \subseteq held,
         recorded \subseteq recorded', NEW w \in Writers, NEW x, at' = [at EXCEPT ![w] = x],
         x \in History => at[w] \in History \/ (w = Reaper /\ AtWork(w)),
         x \in Rating => AtWork(w) /\ (w = Reaper => at[w] \in Rating)
  PROVE  Unwritten'
<1>. USE DEF Typed, ThreadsTyped
<1>1. \A v \in Writers : AtWork(v)' => Update(v)' = Update(v)
  BY DEF Update
<1>2. \A v \in Writers : RowAhead(v)' => RowAhead(v)
  BY DEF RowAhead, AtWork, Rating, History
<1>3. \A v \in Writers : UpdateAhead(v)' => UpdateAhead(v)
  BY DEF UpdateAhead, AtWork, Rating, History
<1>. QED
  BY <1>1, <1>2, <1>3, SameUnwritten

(* What each writer has ahead when it comes from one of its jobs. *)
LEMMA JobUnwritten ==
  ASSUME Typed, Unwritten, UNCHANGED <<rows, tally, doing, held, recorded>>,
         NEW w \in Writers, AtWork(w), NextJob(w)
  PROVE  Unwritten'
<1>. DEFINE x == AfterJob(w, PoolOf(w))
<1>1. /\ x \in History => at[w] \in History \/ (w = Reaper /\ AtWork(w))
      /\ x \in Rating => AtWork(w) /\ (w = Reaper => at[w] \in Rating)
  BY AfterJobIs DEF PoolOf, Rating, History
<1>. HIDE DEF x
<1>. QED
  BY <1>1, MoveUnwritten DEF NextJob, x

LEMMA UnwrittenNext ==
  ASSUME Typed, ThreadsFit, OneWriter, Unwritten, Next
  PROVE  Unwritten'
<1>. USE DEF Typed, ThreadsTyped
<1>1. ASSUME NEW s \in Streams, Open(s)
      PROVE  Unwritten'
  BY <1>1, MoveUnwritten, Sizes DEF Open, results, database, Writers, Rating, History
<1>2. ASSUME NEW s \in Streams, Close(s)
      PROVE  Unwritten'
  <2>1. CASE MayRecord(s)
    <3>. DEFINE g == gameOf[s]
    <3>1. /\ g \in Games /\ g \notin recorded /\ s # Reaper /\ s \in Writers
          /\ at' = [at EXCEPT ![s] = "history"] /\ doing' = [doing EXCEPT ![s] = g]
          /\ recorded' = recorded \cup {g} /\ UNCHANGED <<held, rows, tally>>
      BY <1>2, <2>1, Sizes DEF Close, MayRecord, results, database, Writers
    <3>. HIDE DEF g
    <3>2. Update(s)' = <<g, "stream">> /\ \A v \in Writers \ {s} : Update(v)' = Update(v)
      BY <3>1 DEF Update, Way
    <3>3. rows[<<g, "stream">>] = 0 /\ <<g, "stream">> \notin Committed
      BY <3>1 DEF Unwritten
    <3>4. \A v \in Writers \ {s} : /\ RowAhead(v)' <=> RowAhead(v)
                                   /\ UpdateAhead(v)' <=> UpdateAhead(v)
      BY <3>1 DEF RowAhead, UpdateAhead, AtWork
    <3>. QED
      BY <3>1, <3>2, <3>3, <3>4, SameCommitted DEF Unwritten
  <2>2. CASE ~MayRecord(s)
    BY <1>2, <2>2, MoveUnwritten, Sizes
       DEF Close, results, database, Writers, Rating, History
  <2>. QED
    BY <2>1, <2>2
<1>3. CASE Reap
  BY <1>3, MoveUnwritten DEF Reap, results, database, Rating, History, Writers
<1>4. CASE Remove
  <2>1. ASSUME NEW g \in snapshot, held' = held \ {g}, doing' = [doing EXCEPT ![Reaper] = g],
               at' = [at EXCEPT ![Reaper] = FirstJob(g)]
        PROVE  Unwritten'
    <3>1. g \in held /\ Reaper \in Writers /\ UNCHANGED <<recorded, rows, tally>>
      BY <1>4 DEF Remove, ThreadsFit, database, Writers
    <3>2. Update(Reaper)' = <<g, "reaper">> /\ \A v \in Writers \ {Reaper} : Update(v)' = Update(v)
      BY <2>1, <3>1 DEF Update, Way
    <3>3. rows[<<g, "reaper">>] = 0 /\ <<g, "reaper">> \notin Committed
      BY <3>1 DEF Unwritten
    <3>4. \A v \in Writers \ {Reaper} : /\ RowAhead(v)' <=> RowAhead(v)
                                        /\ UpdateAhead(v)' <=> UpdateAhead(v)
      BY <2>1, <3>1 DEF RowAhead, UpdateAhead, AtWork
    <3>. QED
      BY <2>1, <3>1, <3>2, <3>3, <3>4, SameCommitted DEF Unwritten
  <2>2. CASE at' = [at EXCEPT ![Reaper] = "idle"] /\ UNCHANGED <<snapshot, held, doing>>
    BY <1>4, <2>2, MoveUnwritten DEF Remove, database, Rating, History, Writers
  <2>. QED
    BY <1>4, <2>1, <2>2 DEF Remove
<1>5. ASSUME NEW w \in Writers, Acquire(w) \/ SelectLoser(w) \/ UpdateWinner(w)
      PROVE  Unwritten'
  <2>1. UNCHANGED <<rows, tally, doing, held, recorded>>
    BY <1>5 DEF Acquire, SelectLoser, UpdateWinner, results, database
  <2>2. \/ at[w] = "history" /\ at' = [at EXCEPT ![w] = "insert"]
        \/ at[w] \in Rating /\ \E x \in Rating : at' = [at EXCEPT ![w] = x]
    BY <1>5 DEF Acquire, SelectLoser, UpdateWinner, Waiting, Rating
  <2>. QED
    BY <2>1, <2>2, MoveUnwritten DEF AtWork, Rating, History
<1>6. ASSUME NEW w \in Writers, CommitRating(w)
      PROVE  Unwritten'
  <2>1. /\ at[w] \in Rating /\ AtWork(w) /\ UNCHANGED <<rows, doing, held, recorded>>
        /\ NextJob(w) /\ PoolOf(w) = "rating" /\ Committed' = Committed \cup {Update(w)}
    BY <1>6, CommitAdds DEF CommitRating, Rating, AtWork, results, PoolOf
  <2>2. \A v \in Writers : Update(v)' = Update(v)
    BY <2>1 DEF Update
  <2>3. at' = [at EXCEPT ![w] = IF w = Reaper THEN "history" ELSE "closed"]
    BY <2>1, AfterJobIs DEF NextJob
  <2>4. \A v \in Writers : /\ RowAhead(v)' => RowAhead(v)
                           /\ UpdateAhead(v)' => UpdateAhead(v) /\ AtWork(v) /\ v # w
    BY <2>1, <2>3 DEF RowAhead, UpdateAhead, AtWork, Rating, History
  <2>5. \A v \in Writers : UpdateAhead(v)' => Update(v) \notin Committed'
    BY <2>1, <2>4, OtherUpdate DEF Unwritten
  <2>6. \A g \in Games \ recorded : <<g, "stream">> # Update(w)
    BY <2>1, Sizes DEF Update, Way, OneWriter, ThreadsFit, Writers
  <2>7. \A g \in held : <<g, "reaper">> # Update(w)
    BY <2>1 DEF Update, Way, OneWriter, Writers
  <2>. QED
    BY <2>1, <2>2, <2>4, <2>5, <2>6, <2>7 DEF Unwritten
<1>7. ASSUME NEW w \in Writers, CommitHistory(w)
      PROVE  Unwritten'
  <2>1. /\ at[w] = "insert" /\ AtWork(w) /\ UNCHANGED <<tally, doing, held, recorded>>
        /\ NextJob(w) /\ PoolOf(w) = "history"
        /\ rows' = [rows EXCEPT ![Update(w)] = @ + 1]
    BY <1>7 DEF CommitHistory, History, AtWork, results, PoolOf
  <2>2. \A v \in Writers : Update(v)' = Update(v)
    BY <2>1 DEF Update
  <2>3. \E x \in {"rating", "closed", "remove"} :
          at' = [at EXCEPT ![w] = x] /\ (w = Reaper => x = "remove")
    BY <2>1, AfterJobIs DEF NextJob
  <2>4. \A v \in Writers : /\ RowAhead(v)' => RowAhead(v) /\ AtWork(v) /\ v # w
                           /\ UpdateAhead(v)' => UpdateAhead(v)
    BY <2>1, <2>3 DEF RowAhead, UpdateAhead, AtWork, Rating, History
  <2>5. \A v \in Writers : RowAhead(v)' => rows'[Update(v)] = 0
    BY <2>1, <2>4, OtherUpdate, AtWorkOn DEF Unwritten, DatabaseTyped
  <2>6. \A g \in Games \ recorded : <<g, "stream">> # Update(w)
    BY <2>1, Sizes DEF Update, Way, OneWriter, ThreadsFit, Writers
  <2>7. \A g \in held : <<g, "reaper">> # Update(w)
    BY <2>1 DEF Update, Way, OneWriter, Writers
  <2>8. \A u \in Updates : u # Update(w) => rows'[u] = rows[u]
    BY <2>1 DEF DatabaseTyped
  <2>9. \A g \in Games : <<g, "stream">> \in Updates /\ <<g, "reaper">> \in Updates
    BY DEF Updates, Ways
  <2>10. /\ \A g \in Games \ recorded' : rows'[<<g, "stream">>] = 0
         /\ \A g \in held' : rows'[<<g, "reaper">>] = 0
    BY <2>1, <2>6, <2>7, <2>8, <2>9 DEF Unwritten, GamesTyped
  <2>. QED
    BY <2>1, <2>2, <2>4, <2>5, <2>10, SameCommitted DEF Unwritten
<1>8. ASSUME NEW w \in Writers, DatabaseFails(w) \/ Deadlock(w)
      PROVE  Unwritten'
  <2>1. AtWork(w) /\ NextJob(w) /\ UNCHANGED <<rows, tally, doing, held, recorded>>
    BY <1>8 DEF DatabaseFails, Deadlock, RollBack, Holding, AtWork, Rating, History, results
  <2>. QED
    BY <2>1, JobUnwritten
<1>9. ASSUME NEW w \in Writers, Busy(w) \/ LoseSlot(w)
      PROVE  Unwritten'
  <2>1. UNCHANGED <<rows, tally, doing, held, recorded>>
    BY <1>9 DEF Busy, LoseSlot, Thrown, results, database
  <2>2. CASE UNCHANGED at
    BY <2>1, <2>2, SameUnwritten DEF Update, RowAhead, UpdateAhead, AtWork
  <2>3. CASE at' = [at EXCEPT ![w] = "closed"]
    BY <2>1, <2>3, MoveUnwritten DEF Rating, History
  <2>. QED
    BY <1>9, <2>2, <2>3 DEF Busy, LoseSlot, Thrown
<1>10. ASSUME NEW g \in Games, Play(g) \/ Finish(g) \/ StopGame(g)
       PROVE  Unwritten'
  BY <1>10, SameUnwritten DEF Play, Finish, StopGame, threads, database, Update, RowAhead,
     UpdateAhead, AtWork
<1>11. CASE Signal \/ JoinReaper \/ GamesStopped \/ CloseServer \/ EndOfMain
  BY <1>11, SameUnwritten DEF Signal, JoinReaper, GamesStopped, CloseServer, EndOfMain, threads,
     results, database, Update, RowAhead, UpdateAhead, AtWork
<1>. QED
  BY <1>1, <1>2, <1>3, <1>4, <1>5, <1>6, <1>7, <1>8, <1>9, <1>10, <1>11
     DEF Next, Writes, Mishap, ShutDown

LEMMA RowsNext ==
  ASSUME Typed, ThreadsFit, Unwritten, OneRowPerWay, Next
  PROVE  OneRowPerWay'
<1>1. ASSUME NEW w \in Writers, CommitHistory(w)
      PROVE  OneRowPerWay'
  <2>1. rows[Update(w)] = 0 /\ Update(w) \in Updates
    BY <1>1, AtWorkOn DEF CommitHistory, Unwritten, RowAhead, AtWork, History
  <2>. QED
    BY <1>1, <2>1 DEF CommitHistory, OneRowPerWay, Typed, DatabaseTyped
<1>2. ASSUME NEW w \in Writers, Writes(w) \/ Mishap(w), ~CommitHistory(w)
      PROVE  UNCHANGED rows
  BY <1>2 DEF Writes, Mishap, Acquire, SelectLoser, UpdateWinner, CommitRating,
    Deadlock, Busy, DatabaseFails, LoseSlot, RollBack, Thrown, database
<1>3. ASSUME NEW s \in Streams, Open(s) \/ Close(s)
      PROVE  UNCHANGED rows
  BY <1>3 DEF Open, Close, database
<1>4. ASSUME NEW g \in Games, Play(g) \/ Finish(g) \/ StopGame(g)
      PROVE  UNCHANGED rows
  BY <1>4 DEF Play, Finish, StopGame, database
<1>5. ASSUME Reap \/ Remove \/ Signal \/ JoinReaper \/ GamesStopped \/ CloseServer \/ EndOfMain
      PROVE  UNCHANGED rows
  BY <1>5 DEF Reap, Remove, Signal, JoinReaper, GamesStopped, CloseServer, EndOfMain, database
<1>6. UNCHANGED rows => OneRowPerWay'
  BY DEF OneRowPerWay
<1>. QED
  BY <1>1, <1>2, <1>3, <1>4, <1>5, <1>6 DEF Next, ShutDown

-----------------------------------------------------------------------------
(* Wins and losses *)

LEMMA CountsForIsTally ==
  ASSUME Typed, CountedFit, CountsFor
  PROVE  TallyMatches
<1>1. SUFFICES ASSUME NEW p \in Players
               PROVE  /\ tally[p].wins =
                           UNION {Counted(g) : g \in {h \in Games : winner[h] = p}}
                      /\ tally[p].losses =
                           UNION {Counted(g) : g \in {h \in Games : Won(h) /\ Loser(h) = p}}
  BY DEF TallyMatches
<1>2. tally[p].wins \subseteq Updates /\ tally[p].losses \subseteq Updates
  BY DEF Typed, DatabaseTyped, Tally
<1>3. \A u \in Committed : u \in Updates /\ u[1] \in Games
  BY DEF Typed, DatabaseTyped, Tally, Committed, Updates
<1>4. tally[p].wins = {u \in Committed : winner[u[1]] = p}
  BY <1>2, <1>3 DEF CountsFor
<1>5. tally[p].losses = {u \in Committed : Won(u[1]) /\ Loser(u[1]) = p}
  BY <1>2, <1>3 DEF CountsFor, CountedFit
<1>6. UNION {Counted(g) : g \in {h \in Games : winner[h] = p}} =
        {u \in Committed : winner[u[1]] = p}
  BY <1>3 DEF Counted
<1>7. UNION {Counted(g) : g \in {h \in Games : Won(h) /\ Loser(h) = p}} =
        {u \in Committed : Won(u[1]) /\ Loser(u[1]) = p}
  BY <1>3 DEF Counted
<1>. QED
  BY <1>4, <1>5, <1>6, <1>7

LEMMA CountsForNext ==
  ASSUME Typed, ThreadsFit, CountedFit, CountsFor, Next
  PROVE  CountsFor'
<1>1. \A u \in Committed : /\ u \in Updates /\ winner'[u[1]] = winner[u[1]]
                           /\ Loser(u[1])' = Loser(u[1])
  <2>1. \A u \in Committed : u \in Updates /\ u[1] \in Games
    BY DEF Typed, DatabaseTyped, Tally, Committed, Updates
  <2>. QED
    BY <2>1, FinishedStays DEF CountedFit, Loser
<1>2. ASSUME UNCHANGED tally
      PROVE  CountsFor'
  BY <1>1, <1>2, SameCommitted DEF CountsFor
<1>3. ASSUME NEW w \in Writers, CommitRating(w)
      PROVE  CountsFor'
  <2>1. /\ Update(w)[1] = doing[w] /\ winner'[doing[w]] = WinnerOf(w)
        /\ Loser(doing[w])' = LoserOf(w) /\ UNCHANGED doing
    BY <1>3 DEF CommitRating, results, Update, WinnerOf, LoserOf, Loser
  <2>2. /\ Committed' = Committed \cup {Update(w)}
        /\ \A p \in Players :
             /\ tally'[p].wins = tally[p].wins \cup
                                   (IF p = WinnerOf(w) THEN {Update(w)} ELSE {})
             /\ tally'[p].losses = tally[p].losses \cup
                                   (IF p = LoserOf(w) THEN {Update(w)} ELSE {})
    BY <1>3, CommitAdds
  <2>3. SUFFICES ASSUME NEW p \in Players, NEW u \in Updates
                 PROVE  /\ u \in tally'[p].wins <=> u \in Committed' /\ winner'[u[1]] = p
                        /\ u \in tally'[p].losses <=> u \in Committed' /\ Loser(u[1])' = p
    BY DEF CountsFor
  <2>4. CASE u = Update(w)
    <3>1. /\ u \in tally[p].wins => winner[u[1]] = p /\ u \in Committed
          /\ u \in tally[p].losses => Loser(u[1]) = p /\ u \in Committed
      BY DEF CountsFor
    <3>2. winner'[u[1]] = WinnerOf(w) /\ Loser(u[1])' = LoserOf(w) /\ u \in Committed'
      <4>1. u[1] = doing[w]
        BY <2>1, <2>4
      <4>. QED
        BY <2>1, <2>2, <2>4, <4>1 DEF Loser
    <3>3. /\ u \in tally'[p].wins <=> u \in tally[p].wins \/ p = WinnerOf(w)
          /\ u \in tally'[p].losses <=> u \in tally[p].losses \/ p = LoserOf(w)
      BY <2>2, <2>4
    <3>4. /\ u \in tally[p].wins => p = WinnerOf(w)
          /\ u \in tally[p].losses => p = LoserOf(w)
      BY <1>1, <3>1, <3>2
    <3>. QED
      BY <3>2, <3>3, <3>4
  <2>5. CASE u # Update(w)
    <3>1. /\ u \in tally[p].wins <=> winner[u[1]] = p /\ u \in Committed
          /\ u \in tally[p].losses <=> Loser(u[1]) = p /\ u \in Committed
      BY DEF CountsFor
    <3>. QED
      BY <1>1, <2>2, <2>5, <3>1
  <2>. QED
    BY <2>4, <2>5
<1>. QED
  BY <1>2, <1>3, TallyChanges

-----------------------------------------------------------------------------
(* What an elo forgets *)

(* A commit changes what is known of no update but its own. *)
LEMMA CommittedKept ==
  ASSUME Typed, ThreadsFit, Unwritten, Next
  PROVE  Committed \subseteq Committed' /\ \A u \in Committed : known'[u] = known[u]
<1>1. ASSUME NEW w \in Writers, CommitRating(w)
      PROVE  Committed \subseteq Committed' /\ \A u \in Committed : known'[u] = known[u]
  <2>1. Committed \subseteq Committed'
    BY <1>1, CommitAdds
  <2>2. Update(w) \notin Committed
    BY <1>1 DEF CommitRating, Unwritten, UpdateAhead, Rating
  <2>3. Committed \subseteq Updates
    BY DEF Typed, DatabaseTyped, Tally, Committed
  <2>. QED
    BY <1>1, <2>1, <2>2, <2>3 DEF CommitRating, Typed, DatabaseTyped
<1>. QED
  BY <1>1, TallyChanges, SameCommitted
(* What a step makes of what a thread has selected. *)
SeenStep(w) ==
  \/ /\ seen'[w] = seen[w]
     /\ at'[w] \in {"select", "winner", "loser"} =>
          at[w] \in {"select", "winner", "loser"} /\ (at'[w] = "select" <=> at[w] = "select")
  \/ seen'[w] = NothingSeen /\ at'[w] \notin {"select", "winner", "loser"}
  \/ /\ at'[w] = "select"
     /\ seen'[w] = [seen[w] EXCEPT !["winner"] = Select(WinnerOf(w))]
  \/ /\ at[w] = "select" /\ at'[w] = "winner"
     /\ seen'[w] = [seen[w] EXCEPT !["loser"] = Select(LoserOf(w))]

LEMMA SeenNext ==
  ASSUME Typed, ThreadsFit, Next, NEW v \in Writers
  PROVE  SeenStep(v)
<1>. USE DEF SeenStep, Typed, ThreadsTyped, DatabaseTyped, Points, Holding
<1>1. ASSUME UNCHANGED <<at, seen>>
      PROVE  SeenStep(v)
  BY <1>1
<1>2. ASSUME NEW s \in Streams, Open(s) \/ Close(s)
      PROVE  SeenStep(v)
  BY <1>2 DEF Open, Close, database, Writers
<1>3. CASE Reap \/ Remove
  BY <1>3 DEF Reap, Remove, FirstJob, database, Writers
<1>4. ASSUME NEW w \in Writers, Acquire(w)
      PROVE  SeenStep(v)
  BY <1>4 DEF Acquire, Waiting, Roles
<1>5. ASSUME NEW w \in Writers, SelectLoser(w)
      PROVE  SeenStep(v)
  BY <1>5 DEF SelectLoser, Roles
<1>6. ASSUME NEW w \in Writers, UpdateWinner(w)
      PROVE  SeenStep(v)
  BY <1>6 DEF UpdateWinner, database
<1>7. ASSUME NEW w \in Writers, CommitRating(w) \/ DatabaseFails(w) \/ Deadlock(w)
      PROVE  SeenStep(v)
  <2>1. /\ seen' = [seen EXCEPT ![w] = NothingSeen] /\ NextJob(w)
    BY <1>7 DEF CommitRating, DatabaseFails, Deadlock, RollBack
  <2>2. AfterJob(w, PoolOf(w)) \notin {"select", "winner", "loser"}
    BY AfterJobIs
  <2>. QED
    BY <2>1, <2>2 DEF NextJob
<1>8. ASSUME NEW w \in Writers, CommitHistory(w)
      PROVE  SeenStep(v)
  <2>1. seen' = seen /\ NextJob(w)
    BY <1>8 DEF CommitHistory
  <2>2. AfterJob(w, PoolOf(w)) \notin {"select", "winner", "loser"}
    BY AfterJobIs
  <2>. QED
    BY <2>1, <2>2 DEF NextJob
<1>9. ASSUME NEW w \in Writers, Busy(w) \/ LoseSlot(w)
      PROVE  SeenStep(v)
  BY <1>9 DEF Busy, LoseSlot, Thrown, database
<1>10. ASSUME NEW g \in Games, Play(g) \/ Finish(g) \/ StopGame(g)
      PROVE  SeenStep(v)
  BY <1>1, <1>10 DEF Play, Finish, StopGame, threads, database
<1>11. CASE Signal \/ JoinReaper \/ GamesStopped \/ CloseServer \/ EndOfMain
  BY <1>1, <1>11 DEF Signal, JoinReaper, GamesStopped, CloseServer, EndOfMain, threads, database
<1>. QED
  BY <1>2, <1>3, <1>4, <1>5, <1>6, <1>7, <1>8, <1>9, <1>10, <1>11
     DEF Next, Writes, Mishap, ShutDown

LEMMA CameAfterNext ==
  ASSUME Typed, ThreadsFit, Unwritten, CameAfter, Next
  PROVE  CameAfter'
<1>1. ASSUME NEW w \in Writers, NEW r \in Roles
      PROVE  seen'[w][r].after \subseteq Committed
  <2>1. /\ seen[w] \in [Roles -> Seen] /\ seen[w][r].after \subseteq Committed
    BY DEF CameAfter, Typed, DatabaseTyped
  <2>2. \A p : Select(p).after = Committed
    BY DEF Select
  <2>3. NothingSeen[r].after = {}
    BY DEF NothingSeen
  <2>4. SeenStep(w)
    BY SeenNext
  <2>. QED
    BY <2>1, <2>2, <2>3, <2>4 DEF SeenStep
<1>2. ASSUME NEW u \in Committed', NEW r \in Roles
      PROVE  known'[u][r] \subseteq Committed'
  <2>1. CASE u \in Committed
    BY <2>1, CommittedKept DEF CameAfter
  <2>2. CASE u \notin Committed
    <3>1. PICK w \in Writers : CommitRating(w)
      BY <2>2, TallyChanges, SameCommitted
    <3>2. u = Update(w) /\ u \in Updates
      <4>1. Committed' = Committed \cup {Update(w)}
        BY <3>1, CommitAdds
      <4>2. Update(w) \in Updates
        BY <3>1, Rated DEF CommitRating, Rating
      <4>. QED
        BY <1>2, <2>2, <4>1, <4>2
    <3>3. known'[u][r] = seen[w][r].after
      BY <3>1, <3>2 DEF CommitRating, Typed, DatabaseTyped
    <3>. QED
      BY <3>3, CommittedKept DEF CameAfter
  <2>. QED
    BY <2>1, <2>2
<1>. QED
  BY <1>1, <1>2, CommittedKept DEF CameAfter

(* What is about a player, and what overlaps, stays. *)
LEMMA RemembersStays ==
  ASSUME Typed, ThreadsFit, CountedFit, Unwritten, Next,
         NEW p, NEW e, NEW after, after \subseteq Committed, Remembers(p, e, after)
  PROVE  Remembers(p, e, after)'
<1>1. \A u \in Committed : u[1] \in Games /\ course[u[1]] = "finished"
  BY DEF CountedFit, Typed, DatabaseTyped, Tally, Committed, Updates
<1>2. \A u \in Committed : winner'[u[1]] = winner[u[1]] /\ (Won(u[1])' <=> Won(u[1]))
  BY <1>1, FinishedStays
<1>3. \A u \in Committed : (About(u, p)' <=> About(u, p)) /\ RoleOf(u, p)' = RoleOf(u, p)
  BY <1>2 DEF About, RoleOf, Loser
<1>4. \A u, v \in Committed : Overlap(u, v, p)' <=> Overlap(u, v, p)
  BY <1>3, CommittedKept DEF Overlap
<1>5. SUFFICES ASSUME NEW u \in after, About(u, p)', u \notin e
               PROVE  \E v \in Committed' \ {u} : About(v, p)' /\ Overlap(u, v, p)'
  BY DEF Remembers
<1>6. PICK v \in Committed \ {u} : About(v, p) /\ Overlap(u, v, p)
  BY <1>3, <1>5 DEF Remembers
<1>. QED
  BY <1>3, <1>4, <1>5, <1>6, CommittedKept

LEMMA ForgottenIsRemembers ==
  ForgottenOnlyInARace <=> \A p \in Players : Remembers(p, elo[p], Committed)
BY DEF ForgottenOnlyInARace, Remembers

(* The elo that a commit writes lacks nothing but what the update overlapped. *)
LEMMA CommitRemembers ==
  ASSUME Typed, ThreadsFit, CountedFit, Unwritten, CameAfter, SeenRemembers, Next,
         NEW w \in Writers, CommitRating(w), NEW p \in Players, NEW r \in Roles,
         r = "winner" => p = WinnerOf(w), r = "loser" => p = LoserOf(w)
  PROVE  \A u \in Committed' : About(u, p)' /\ u \notin NewElo(w, r)
           => \E v \in Committed' \ {u} : About(v, p)' /\ Overlap(u, v, p)'
<1>0. PICK x : x = Update(w)
  OBVIOUS
<1>1. /\ at[w] = "loser" /\ doing[w] \in Games /\ Won(doing[w]) /\ x \in Updates
      /\ course[doing[w]] = "finished" /\ UNCHANGED <<winner, doing>>
  BY <1>0, Rated DEF CommitRating, Rating, ThreadsFit, AtWork, results
<1>2. Committed' = Committed \cup {x} /\ x \notin Committed /\ x[1] = doing[w]
  BY <1>0, <1>1, CommitAdds DEF Unwritten, UpdateAhead, Rating, Update
<1>3. WinnerOf(w) = winner[doing[w]] /\ LoserOf(w) = Loser(doing[w]) /\ LoserOf(w) # WinnerOf(w)
  BY <1>1, TwoSeats DEF WinnerOf, LoserOf, Loser
<1>4. About(x, p)' /\ RoleOf(x, p)' = r
  <2>1. winner'[x[1]] = WinnerOf(w) /\ Loser(x[1])' = LoserOf(w)
    BY <1>1, <1>2, <1>3 DEF Loser
  <2>2. Won(x[1])'
    BY <1>1, <1>2 DEF Won
  <2>. QED
    BY <1>3, <2>1, <2>2 DEF About, RoleOf, Roles
<1>5. known'[x][r] = seen[w][r].after
  BY <1>0, <1>1 DEF CommitRating, Typed, DatabaseTyped
<1>6. SUFFICES ASSUME NEW u \in Committed', About(u, p)', u \notin NewElo(w, r)
               PROVE  \E v \in Committed' \ {u} : About(v, p)' /\ Overlap(u, v, p)'
  OBVIOUS
<1>7. u # x /\ u \in Committed /\ u \notin seen[w][r].elo
  BY <1>0, <1>2, <1>6 DEF NewElo
<1>8. CASE u \in seen[w][r].after
  <2>1. Remembers(p, seen[w][r].elo, seen[w][r].after)
    BY <1>1, <1>3 DEF SeenRemembers, Roles
  <2>2. seen[w][r].after \subseteq Committed
    BY DEF CameAfter
  <2>. DEFINE e == seen[w][r].elo
              after == seen[w][r].after
  <2>3. \A a \in after : About(a, p)' /\ a \notin e
          => \E v \in Committed' \ {a} : About(v, p)' /\ Overlap(a, v, p)'
    <3>. HIDE DEF e, after
    <3>. QED
      BY <2>1, <2>2, RemembersStays DEF Remembers, e, after
  <2>. QED
    BY <1>6, <1>7, <1>8, <2>3
<1>9. CASE u \notin seen[w][r].after
  <2>1. RoleOf(u, p)' \in Roles
    BY DEF RoleOf, Roles
  <2>2. known'[u][RoleOf(u, p)'] \subseteq Committed
    BY <1>7, <2>1, CommittedKept DEF CameAfter
  <2>3. Overlap(u, x, p)'
    BY <1>2, <1>4, <1>5, <1>9, <2>2 DEF Overlap
  <2>. QED
    BY <1>2, <1>4, <1>7, <2>3
<1>. QED
  BY <1>8, <1>9

LEMMA ForgottenNext ==
  ASSUME Typed, ThreadsFit, CountedFit, Unwritten, CameAfter, SeenRemembers,
         ForgottenOnlyInARace, Next
  PROVE  ForgottenOnlyInARace'
<1>1. SUFFICES ASSUME NEW p \in Players, NEW u \in Committed', About(u, p)', u \notin elo'[p]
               PROVE  \E v \in Committed' \ {u} : About(v, p)' /\ Overlap(u, v, p)'
  BY DEF ForgottenOnlyInARace
<1>2. ASSUME UNCHANGED elo, Committed' = Committed
      PROVE  \E v \in Committed' \ {u} : About(v, p)' /\ Overlap(u, v, p)'
  <2>. DEFINE e == elo[p]
              after == Committed
  <2>1. Remembers(p, e, after)
    BY ForgottenIsRemembers
  <2>2. \A a \in after : About(a, p)' /\ a \notin e
          => \E v \in Committed' \ {a} : About(v, p)' /\ Overlap(a, v, p)'
    <3>1. after \subseteq Committed
      OBVIOUS
    <3>. HIDE DEF e, after
    <3>. QED
      BY <2>1, <3>1, RemembersStays DEF Remembers, e, after
  <2>. QED
    BY <1>1, <1>2, <2>2
<1>3. ASSUME NEW w \in Writers, CommitRating(w)
      PROVE  \E v \in Committed' \ {u} : About(v, p)' /\ Overlap(u, v, p)'
  <2>1. /\ WinnerOf(w) \in Players /\ LoserOf(w) \in Players
        /\ LoserOf(w) # WinnerOf(w)
    BY <1>3, Rated, TwoSeats DEF CommitRating, Rating, WinnerOf, LoserOf, Loser
  <2>2. elo' = [elo EXCEPT ![WinnerOf(w)] = NewElo(w, "winner"),
                           ![LoserOf(w)] = NewElo(w, "loser")]
    BY <1>3 DEF CommitRating
  <2>3. CASE p = WinnerOf(w)
    <3>1. elo'[p] = NewElo(w, "winner")
      BY <2>1, <2>2, <2>3 DEF Typed, DatabaseTyped
    <3>. QED
      BY <1>1, <1>3, <2>3, <3>1, CommitRemembers DEF Roles
  <2>4. CASE p = LoserOf(w)
    <3>1. elo'[p] = NewElo(w, "loser")
      BY <2>1, <2>2, <2>4 DEF Typed, DatabaseTyped
    <3>. QED
      BY <1>1, <1>3, <2>4, <3>1, CommitRemembers DEF Roles
  <2>5. CASE p # WinnerOf(w) /\ p # LoserOf(w)
    <3>1. elo'[p] = elo[p]
      BY <2>1, <2>2, <2>5 DEF Typed, DatabaseTyped
    <3>2. u \in Committed
      <4>1. Committed' = Committed \cup {Update(w)}
        BY <1>3, CommitAdds
      <4>2. \A x : x = Update(w) => ~About(x, p)'
        <5>1. /\ UNCHANGED <<winner, doing>> /\ WinnerOf(w) = winner[doing[w]]
              /\ LoserOf(w) = Loser(doing[w]) /\ Update(w)[1] = doing[w]
          BY <1>3 DEF CommitRating, results, WinnerOf, LoserOf, Update
        <5>. QED
          BY <2>5, <5>1 DEF About, Loser
      <4>. QED
        BY <1>1, <4>1, <4>2
    <3>. DEFINE e == elo[p]
                after == Committed
    <3>3. Remembers(p, e, after)
      BY ForgottenIsRemembers
    <3>4. \A a \in after : About(a, p)' /\ a \notin e
            => \E v \in Committed' \ {a} : About(v, p)' /\ Overlap(a, v, p)'
      <4>1. after \subseteq Committed
        OBVIOUS
      <4>. HIDE DEF e, after
      <4>. QED
        BY <3>3, <4>1, RemembersStays DEF Remembers, e, after
    <3>. QED
      BY <1>1, <3>1, <3>2, <3>4
  <2>. QED
    BY <2>3, <2>4, <2>5
<1>. QED
  BY <1>2, <1>3, TallyChanges, SameCommitted

(* A rating transaction is about the same game as before. *)
LEMMA SameGame ==
  ASSUME Typed, ThreadsFit, Next, NEW v \in Writers, at'[v] \in {"select", "winner", "loser"}
  PROVE  /\ at[v] \in Rating /\ WinnerOf(v) \in Players /\ LoserOf(v) \in Players
         /\ WinnerOf(v)' = WinnerOf(v) /\ LoserOf(v)' = LoserOf(v)
<1>. USE DEF Typed, ThreadsTyped
<1>1. at[v] \in Rating /\ doing'[v] = doing[v]
  <2>1. ASSUME UNCHANGED <<at, doing>>
        PROVE  at[v] \in Rating /\ doing'[v] = doing[v]
    BY <2>1 DEF Rating
  <2>2. ASSUME NEW s \in Streams, Open(s) \/ Close(s)
        PROVE  at[v] \in Rating /\ doing'[v] = doing[v]
    BY <2>2 DEF Open, Close, Rating, Writers
  <2>3. CASE Reap \/ Remove
    BY <2>3 DEF Reap, Remove, FirstJob, Rating, Writers
  <2>4. ASSUME NEW w \in Writers, Acquire(w) \/ SelectLoser(w) \/ UpdateWinner(w)
        PROVE  at[v] \in Rating /\ doing'[v] = doing[v]
    BY <2>4 DEF Acquire, SelectLoser, UpdateWinner, Waiting, Rating
  <2>5. ASSUME NEW w \in Writers, CommitRating(w) \/ CommitHistory(w) \/ DatabaseFails(w)
                                  \/ Deadlock(w)
        PROVE  at[v] \in Rating /\ doing'[v] = doing[v]
    <3>1. NextJob(w) /\ UNCHANGED doing
      BY <2>5 DEF CommitRating, CommitHistory, DatabaseFails, Deadlock, RollBack
    <3>2. AfterJob(w, PoolOf(w)) \notin {"select", "winner", "loser"}
      BY AfterJobIs DEF Holding
    <3>. QED
      BY <3>1, <3>2 DEF NextJob, Rating
  <2>6. ASSUME NEW w \in Writers, Busy(w) \/ LoseSlot(w)
        PROVE  at[v] \in Rating /\ doing'[v] = doing[v]
    BY <2>6 DEF Busy, LoseSlot, Thrown, Rating
  <2>7. ASSUME NEW g \in Games, Play(g) \/ Finish(g) \/ StopGame(g)
        PROVE  at[v] \in Rating /\ doing'[v] = doing[v]
    BY <2>1, <2>7 DEF Play, Finish, StopGame, threads
  <2>8. CASE Signal \/ JoinReaper \/ GamesStopped \/ CloseServer \/ EndOfMain
    BY <2>1, <2>8 DEF Signal, JoinReaper, GamesStopped, CloseServer, EndOfMain, threads
  <2>. QED
    BY <2>2, <2>3, <2>4, <2>5, <2>6, <2>7, <2>8 DEF Next, Writes, Mishap, ShutDown
<1>2. doing[v] \in Games /\ course[doing[v]] = "finished"
  BY <1>1 DEF ThreadsFit, AtWork
<1>3. winner'[doing[v]] = winner[doing[v]]
  BY <1>2, FinishedStays
<1>. QED
  BY <1>1, <1>3, Rated DEF WinnerOf, LoserOf, Loser

LEMMA SeenRemembersNext ==
  ASSUME Typed, ThreadsFit, CountedFit, Unwritten, CameAfter, SeenRemembers,
         ForgottenOnlyInARace, Next
  PROVE  SeenRemembers'
<1>1. ASSUME NEW p \in Players, NEW e, NEW after, e = elo[p], after = Committed
      PROVE  Remembers(p, e, after)'
  <2>1. Remembers(p, e, after) /\ after \subseteq Committed
    BY <1>1, ForgottenIsRemembers
  <2>. QED
    BY <2>1, RemembersStays
<1>2. ASSUME NEW w \in Writers, at'[w] \in {"select", "winner", "loser"}
      PROVE  Remembers(WinnerOf(w), seen[w]["winner"].elo, seen[w]["winner"].after)'
  <2>1. PICK p, e, after : /\ p = WinnerOf(w) /\ e = seen'[w]["winner"].elo
                           /\ after = seen'[w]["winner"].after
    OBVIOUS
  <2>2. p = WinnerOf(w)' /\ p \in Players /\ seen[w] \in [Roles -> Seen]
    BY <1>2, <2>1, SameGame DEF Typed, DatabaseTyped
  <2>3. CASE at[w] \in {"select", "winner", "loser"} /\ seen'[w]["winner"] = seen[w]["winner"]
    <3>1. Remembers(p, e, after)
      BY <2>1, <2>3 DEF SeenRemembers
    <3>2. after \subseteq Committed
      BY <2>1, <2>3 DEF CameAfter, Roles
    <3>3. Remembers(p, e, after)'
      BY <3>1, <3>2, RemembersStays
    <3>. QED
      BY <2>1, <2>2, <3>3 DEF Remembers
  <2>4. CASE seen'[w]["winner"] = Select(p)
    <3>1. e = elo[p] /\ after = Committed
      BY <2>1, <2>4 DEF Select
    <3>2. Remembers(p, e, after)'
      BY <1>1, <2>2, <3>1
    <3>. QED
      BY <2>1, <2>2, <3>2 DEF Remembers
  <2>5. SeenStep(w)
    BY SeenNext
  <2>. QED
    BY <1>2, <2>1, <2>2, <2>3, <2>4, <2>5 DEF SeenStep, Roles
<1>3. ASSUME NEW w \in Writers, at'[w] \in {"winner", "loser"}
      PROVE  Remembers(LoserOf(w), seen[w]["loser"].elo, seen[w]["loser"].after)'
  <2>1. PICK p, e, after : /\ p = LoserOf(w) /\ e = seen'[w]["loser"].elo
                           /\ after = seen'[w]["loser"].after
    OBVIOUS
  <2>2. p = LoserOf(w)' /\ p \in Players /\ seen[w] \in [Roles -> Seen]
    BY <1>3, <2>1, SameGame DEF Typed, DatabaseTyped
  <2>3. CASE at[w] \in {"winner", "loser"} /\ seen'[w]["loser"] = seen[w]["loser"]
    <3>1. Remembers(p, e, after)
      BY <2>1, <2>3 DEF SeenRemembers
    <3>2. after \subseteq Committed
      BY <2>1, <2>3 DEF CameAfter, Roles
    <3>3. Remembers(p, e, after)'
      BY <3>1, <3>2, RemembersStays
    <3>. QED
      BY <2>1, <2>2, <3>3 DEF Remembers
  <2>4. CASE seen'[w]["loser"] = Select(p)
    <3>1. e = elo[p] /\ after = Committed
      BY <2>1, <2>4 DEF Select
    <3>2. Remembers(p, e, after)'
      BY <1>1, <2>2, <3>1
    <3>. QED
      BY <2>1, <2>2, <3>2 DEF Remembers
  <2>5. SeenStep(w)
    BY SeenNext
  <2>. QED
    BY <1>3, <2>1, <2>2, <2>3, <2>4, <2>5 DEF SeenStep, Roles
<1>. QED
  BY <1>2, <1>3 DEF SeenRemembers

-----------------------------------------------------------------------------
(* What was decided before a client's eyes *)

(* The threads and the records stay, or come closer to writing. *)
LEMMA SameKept ==
  ASSUME Kept, UNCHANGED <<recorded, rows, spoilt, watched>>,
         \A s \in Streams : at'[s] = at[s] /\ doing'[s] = doing[s],
         server' = "down" => server = "down" \/ Quiet
  PROVE  Kept'
BY DEF Kept, Watching, RowComes, Recorded, Quiet

(* A game that is decided is not yet written, and has an open stream if it is *)
(* watched.                                                                   *)
LEMMA DecideKept ==
  ASSUME Typed, ThreadsFit, Kept, NEW g \in Games, NEW o, Decide(g, o),
         UNCHANGED <<at, doing, recorded, rows, spoilt, server>>
  PROVE  Kept'
BY DEF Decide, OpenStream, Kept, Watching, RowComes, Recorded, ThreadsFit

(* A thread other than a stream about to write a row moves. *)
LEMMA MoveKept ==
  ASSUME Typed, Kept, UNCHANGED <<doing, recorded, watched>>, server' = "down" => server = "down",
         \A u \in Updates : rows'[u] > 0 \/ ~(rows[u] > 0), spoilt \subseteq spoilt',
         NEW w \in Writers, NEW x, at' = [at EXCEPT ![w] = x],
         w \in Streams => at[w] # "open" /\ (x = "closed" \/ at[w] # "closed"),
         w \in Streams /\ at[w] \in History =>
           x \in History \/ Recorded(doing[w])' \/ doing[w] \in spoilt'
  PROVE  Kept'
<1>. USE DEF Typed, ThreadsTyped
<1>1. ASSUME NEW g \in watched' \ recorded'
      PROVE  Watching(g)'
  <2>1. PICK s \in Streams : gameOf[s] = g /\ at[s] = "open"
    BY <1>1 DEF Kept, Watching
  <2>2. at'[s] = "open" /\ s \in Writers
    BY <2>1 DEF Writers
  <2>. QED
    BY <2>1, <2>2 DEF Watching
<1>2. ASSUME NEW g \in recorded'
      PROVE  Recorded(g)' \/ g \in spoilt' \/ RowComes(g)'
  <2>1. g \in Games /\ \A way \in Ways : <<g, way>> \in Updates
    BY <1>2 DEF Updates
  <2>2. CASE Recorded(g) \/ g \in spoilt
    BY <2>1, <2>2 DEF Recorded
  <2>3. CASE RowComes(g)
    <3>1. PICK s \in Streams : doing[s] = g /\ at[s] \in History
      BY <2>3 DEF RowComes
    <3>2. CASE s = w
      <4>1. x \in History \/ Recorded(g)' \/ g \in spoilt'
        BY <3>1, <3>2 DEF Recorded
      <4>2. x \in History => at'[s] \in History /\ doing'[s] = g
        BY <3>1, <3>2
      <4>. QED
        BY <4>1, <4>2 DEF RowComes
    <3>3. CASE s # w
      BY <3>1, <3>3 DEF RowComes, Writers
    <3>. QED
      BY <3>2, <3>3
  <2>. QED
    BY <1>2, <2>2, <2>3 DEF Kept
<1>3. server' = "down" => \A s \in Streams : at'[s] = "closed"
  BY DEF Kept, Writers, History
<1>. QED
  BY <1>1, <1>2, <1>3 DEF Kept

LEMMA WatchedFitNext ==
  ASSUME Typed, WatchedFit, Next
  PROVE  WatchedFit'
<1>1. UNCHANGED watched => WatchedFit'
  BY FinishedStays DEF WatchedFit, Typed, GamesTyped
<1>2. ASSUME NEW g \in Games, NEW o, Decide(g, o)
      PROVE  WatchedFit'
  <2>1. course'[g] = "finished" /\ watched' \subseteq watched \cup {g}
    BY <1>2 DEF Decide, Typed, GamesTyped
  <2>. QED
    BY <2>1, FinishedStays DEF WatchedFit, Typed, GamesTyped
<1>3. ASSUME NEW g \in Games, Play(g) \/ Finish(g) \/ StopGame(g)
      PROVE  WatchedFit'
  BY <1>1, <1>2, <1>3 DEF Play, Finish, StopGame
<1>4. ASSUME NEW w \in Writers, Writes(w) \/ Mishap(w)
      PROVE  UNCHANGED watched
  BY <1>4 DEF Writes, Mishap, Acquire, SelectLoser, UpdateWinner, CommitRating, CommitHistory,
    Deadlock, Busy, DatabaseFails, LoseSlot, RollBack, Thrown, results
<1>5. ASSUME NEW s \in Streams, Open(s) \/ Close(s)
      PROVE  UNCHANGED watched
  BY <1>5 DEF Open, Close, results
<1>6. ASSUME Reap \/ Remove \/ Signal \/ JoinReaper \/ GamesStopped \/ CloseServer \/ EndOfMain
      PROVE  UNCHANGED watched
  BY <1>6 DEF Reap, Remove, Signal, JoinReaper, GamesStopped, CloseServer, EndOfMain, results
<1>. QED
  BY <1>1, <1>3, <1>4, <1>5, <1>6 DEF Next, ShutDown

LEMMA KeptNext ==
  ASSUME Typed, ThreadsFit, OneWriter, Unwritten, WatchedFit, Kept, Next
  PROVE  Kept'
<1>. USE DEF Typed, ThreadsTyped
<1>1. ASSUME NEW s \in Streams, Open(s)
      PROVE  Kept'
  <2>1. /\ at[s] = "closed" /\ at' = [at EXCEPT ![s] = "open"] /\ server # "down" /\ s \in Writers
        /\ UNCHANGED <<doing, recorded, rows, spoilt, watched, server>>
    BY <1>1 DEF Open, Accepting, results, database, pools, Writers
  <2>2. \A g \in watched' \ recorded' : Watching(g)'
    BY <2>1 DEF Kept, Watching, Writers
  <2>3. \A g \in recorded' : Recorded(g)' \/ g \in spoilt' \/ RowComes(g)'
    BY <2>1 DEF Kept, Recorded, RowComes, Writers, History
  <2>. QED
    BY <2>1, <2>2, <2>3 DEF Kept
<1>2. ASSUME NEW s \in Streams, Close(s)
      PROVE  Kept'
  <2>. DEFINE g == gameOf[s]
  <2>1. /\ at[s] = "open" /\ s \in Writers /\ g \in Games
        /\ UNCHANGED <<rows, spoilt, watched, server>>
    BY <1>2, Sizes DEF Close, results, database, pools, Writers
  <2>2. CASE MayRecord(s)
    <3>1. /\ at' = [at EXCEPT ![s] = "history"] /\ doing' = [doing EXCEPT ![s] = g]
          /\ recorded' = recorded \cup {g} /\ doing[s] = NoGame
      <4>1. g \notin recorded
        BY <2>2 DEF MayRecord
      <4>. QED
        BY <1>2, <2>2, <4>1 DEF Close, OneWriter
    <3>. HIDE DEF g
    <3>2. \A h \in watched' \ recorded' : Watching(h)'
      BY <2>1, <3>1 DEF Kept, Watching, Writers, g
    <3>3. RowComes(g)'
      BY <2>1, <3>1 DEF RowComes, History
    <3>4. \A h \in recorded : RowComes(h) => RowComes(h)'
      BY <2>1, <3>1 DEF RowComes, History, Writers
    <3>5. \A h \in recorded' : Recorded(h)' \/ h \in spoilt' \/ RowComes(h)'
      BY <2>1, <3>1, <3>3, <3>4 DEF Kept, Recorded
    <3>6. server' # "down"
      BY <2>1 DEF Kept
    <3>. QED
      BY <3>2, <3>5, <3>6 DEF Kept
  <2>3. CASE ~MayRecord(s)
    <3>1. at' = [at EXCEPT ![s] = "closed"] /\ UNCHANGED <<doing, recorded>>
      BY <1>2, <2>3 DEF Close
    <3>2. \A h \in watched' \ recorded' : Watching(h)'
      <4>1. SUFFICES ASSUME NEW h \in watched \ recorded PROVE Watching(h)'
        BY <2>1, <3>1
      <4>2. h # g
        BY <2>3, <4>1 DEF MayRecord, WatchedFit
      <4>3. PICK t \in Streams : gameOf[t] = h /\ at[t] = "open"
        BY DEF Kept, Watching
      <4>. QED
        BY <3>1, <4>2, <4>3 DEF Watching, Writers
    <3>3. \A h \in recorded' : Recorded(h)' \/ h \in spoilt' \/ RowComes(h)'
      BY <2>1, <3>1 DEF Kept, Recorded, RowComes, Writers, History
    <3>4. server' # "down"
      BY <2>1 DEF Kept
    <3>. QED
      BY <3>2, <3>3, <3>4 DEF Kept
  <2>. QED
    BY <2>2, <2>3
<1>3. CASE Reap \/ Remove
  <2>1. /\ \A s \in Streams : at'[s] = at[s] /\ doing'[s] = doing[s]
        /\ UNCHANGED <<recorded, rows, spoilt, watched, server>>
    BY <1>3, Sizes DEF Reap, Remove, results, database, pools, Writers
  <2>. QED
    BY <2>1, SameKept
<1>4. ASSUME NEW w \in Writers, Acquire(w) \/ SelectLoser(w) \/ UpdateWinner(w)
      PROVE  Kept'
  <2>1. UNCHANGED <<doing, recorded, rows, spoilt, watched, server>>
    BY <1>4 DEF Acquire, SelectLoser, UpdateWinner, results, database, pools
  <2>2. \/ at[w] = "history" /\ at' = [at EXCEPT ![w] = "insert"]
        \/ at[w] \in Rating /\ \E x \in Rating : at' = [at EXCEPT ![w] = x]
    BY <1>4 DEF Acquire, SelectLoser, UpdateWinner, Waiting, Rating
  <2>. QED
    BY <2>1, <2>2, MoveKept DEF Rating, History
<1>5. ASSUME NEW w \in Writers, CommitRating(w)
      PROVE  Kept'
  <2>1. UNCHANGED <<doing, recorded, rows, spoilt, watched, server>> /\ at[w] = "loser"
        /\ NextJob(w)
    BY <1>5 DEF CommitRating, results
  <2>. QED
    BY <2>1, MoveKept DEF NextJob, History
<1>6. ASSUME NEW w \in Writers, CommitHistory(w)
      PROVE  Kept'
  <2>1. /\ UNCHANGED <<doing, recorded, spoilt, watched, server>> /\ at[w] = "insert"
        /\ NextJob(w) /\ rows' = [rows EXCEPT ![Update(w)] = @ + 1]
        /\ Update(w) \in Updates
    BY <1>6, AtWorkOn DEF CommitHistory, results, AtWork, History
  <2>2. rows'[Update(w)] > 0 /\ \A u \in Updates : rows'[u] > 0 \/ ~(rows[u] > 0)
    BY <2>1 DEF DatabaseTyped
  <2>3. Recorded(doing[w])'
    BY <2>1, <2>2 DEF Recorded, Update, Way, Ways
  <2>. QED
    BY <2>1, <2>2, <2>3, MoveKept DEF NextJob
<1>7. ASSUME NEW w \in Writers, DatabaseFails(w) \/ Deadlock(w)
      PROVE  Kept'
  <2>1. /\ UNCHANGED <<doing, recorded, rows, watched, server>> /\ at[w] \in Holding
        /\ NextJob(w) /\ spoilt' = IF at[w] = "insert" THEN spoilt \cup {doing[w]} ELSE spoilt
    BY <1>7 DEF DatabaseFails, Deadlock, RollBack, Holding, results
  <2>. QED
    BY <2>1, MoveKept DEF NextJob, Holding, History
<1>8. ASSUME NEW w \in Writers, Busy(w) \/ LoseSlot(w)
      PROVE  Kept'
  <2>1. /\ UNCHANGED <<doing, recorded, rows, watched>> /\ Waiting(w)
        /\ spoilt' = spoilt \cup {doing[w]}
    BY <1>8 DEF Busy, LoseSlot, Thrown, results, database
  <2>2. CASE w = Reaper
    <3>1. UNCHANGED at /\ server' = "dead"
      BY <1>8, <2>2 DEF Busy, LoseSlot, Thrown
    <3>. QED
      BY <2>1, <3>1 DEF Kept, Watching, RowComes, Recorded
  <2>3. CASE w # Reaper
    <3>1. at' = [at EXCEPT ![w] = "closed"] /\ UNCHANGED server
      BY <1>8, <2>3 DEF Busy, LoseSlot, Thrown
    <3>. QED
      BY <2>1, <3>1, MoveKept DEF Waiting
  <2>. QED
    BY <2>2, <2>3
<1>9. ASSUME NEW g \in Games, Play(g) \/ Finish(g) \/ StopGame(g)
      PROVE  Kept'
  <2>1. UNCHANGED <<at, doing, recorded, rows, spoilt, server>>
    BY <1>9 DEF Play, Finish, StopGame, threads, database, pools
  <2>2. UNCHANGED watched \/ \E o : Decide(g, o)
    BY <1>9 DEF Play, Finish, StopGame
  <2>. QED
    BY <2>1, <2>2, DecideKept, SameKept
<1>10. CASE Signal \/ JoinReaper \/ GamesStopped \/ CloseServer \/ EndOfMain
  <2>1. UNCHANGED <<at, doing, recorded, rows, spoilt, watched>>
    BY <1>10 DEF Signal, JoinReaper, GamesStopped, CloseServer, EndOfMain, results, threads,
       database, pools
  <2>2. server' = "down" => Quiet
    BY <1>10 DEF Signal, JoinReaper, GamesStopped, CloseServer, EndOfMain, Stage
  <2>. QED
    BY <2>1, <2>2, SameKept
<1>. QED
  BY <1>1, <1>2, <1>3, <1>4, <1>5, <1>6, <1>7, <1>8, <1>9, <1>10
     DEF Next, Writes, Mishap, ShutDown

LEMMA KeptIsWatched ==
  ASSUME Kept
  PROVE  WatchedIsKept
<1>1. SUFFICES ASSUME server = "down", NEW g \in watched
               PROVE  Recorded(g) \/ g \in spoilt
  BY DEF WatchedIsKept
<1>2. \A s \in Streams : at[s] = "closed"
  BY <1>1 DEF Kept
<1>3. g \in recorded
  BY <1>2 DEF Kept, Watching
<1>. QED
  BY <1>2, <1>3 DEF Kept, RowComes, History

-----------------------------------------------------------------------------
(* The theorems *)

(* The inductive invariant: the parts that the proofs above need of each other. *)
ResultsInv ==
  /\ Typed /\ Marked /\ ThreadsFit /\ CountedFit /\ OneWriter /\ Unwritten /\ OneRowPerWay
  /\ CountsFor /\ CameAfter /\ SeenRemembers /\ ForgottenOnlyInARace /\ WatchedFit /\ Kept

LEMMA InitResults == Init => ResultsInv
<1>1. SUFFICES ASSUME Init PROVE ResultsInv
  OBVIOUS
<1>. USE <1>1 DEF Init
<1>2. Committed = {}
  BY DEF Committed
<1>3. Typed
  <2>1. GamesTyped
    BY DEF GamesTyped, Courses
  <2>2. ThreadsTyped
    BY DEF ThreadsTyped, Points, Holding
  <2>3. DatabaseTyped
    <3>1. NothingSeen \in [Roles -> Seen]
      BY DEF NothingSeen, Seen
    <3>. QED
      BY <3>1 DEF DatabaseTyped, Tally
  <2>4. PoolsTyped
    BY Sizes DEF PoolsTyped, Pools, PoolSize
  <2>. QED
    BY <2>1, <2>2, <2>3, <2>4 DEF Typed, Shutdown
<1>4. Marked
  <2>1. \A k : Holders(k) = {}
    BY DEF Holders, Holding
  <2>2. \A k \in Pools : slots[k] = 0
    BY DEF Pools
  <2>3. \A k \in Pools : Cardinality(Holders(k)) = 0
    BY <2>1, FS_EmptySet
  <2>. QED
    BY <2>2, <2>3 DEF Marked
<1>5. ThreadsFit /\ CountedFit
  BY <1>2, Sizes DEF ThreadsFit, CountedFit, AtWork, Rating, History, Writers
<1>6. OneWriter
  BY DEF OneWriter, AtWork, Rating, History, Writers
<1>7. Unwritten
  BY <1>2 DEF Unwritten, RowAhead, UpdateAhead, AtWork, Rating, History, Updates, Ways
<1>8. OneRowPerWay
  BY DEF OneRowPerWay
<1>9. CountsFor /\ ForgottenOnlyInARace
  BY <1>2 DEF CountsFor, ForgottenOnlyInARace
<1>10. CameAfter
  BY <1>2 DEF CameAfter, NothingSeen
<1>11. SeenRemembers
  BY DEF SeenRemembers
<1>12. WatchedFit /\ Kept
  BY DEF WatchedFit, Kept
<1>. QED
  BY <1>3, <1>4, <1>5, <1>6, <1>7, <1>8, <1>9, <1>10, <1>11, <1>12 DEF ResultsInv

LEMMA NextResults == ResultsInv /\ Next => ResultsInv'
BY TypedNext, MarkedNext, ThreadsFitNext, CountedFitNext, OneWriterNext, UnwrittenNext, RowsNext,
   CountsForNext, CameAfterNext, SeenRemembersNext, ForgottenNext, WatchedFitNext, KeptNext
   DEF ResultsInv

LEMMA SameResults == ResultsInv /\ UNCHANGED vars => ResultsInv'
<1>1. SUFFICES ASSUME ResultsInv, UNCHANGED vars PROVE ResultsInv'
  OBVIOUS
<1>. USE <1>1 DEF ResultsInv, vars, results, threads, database, pools
<1>2. Typed'
  BY SameTypes DEF Typed
<1>3. Marked'
  BY DEF Marked, Holders, PoolOf
<1>4. ThreadsFit' /\ CountedFit' /\ OneWriter'
  BY SameCommitted DEF ThreadsFit, CountedFit, OneWriter, AtWork, Won
<1>5. Unwritten' /\ OneRowPerWay'
  BY SameCommitted DEF Unwritten, OneRowPerWay, RowAhead, UpdateAhead, AtWork, Update
<1>6. CountsFor' /\ CameAfter'
  BY SameCommitted DEF CountsFor, CameAfter, Loser
<1>7. SeenRemembers' /\ ForgottenOnlyInARace'
  BY SameCommitted DEF SeenRemembers, ForgottenOnlyInARace, Remembers, About, Overlap, RoleOf,
     WinnerOf, LoserOf, Loser, Won
<1>8. WatchedFit' /\ Kept'
  BY DEF WatchedFit, Kept, Watching, RowComes, Recorded
<1>. QED
  BY <1>2, <1>3, <1>4, <1>5, <1>6, <1>7, <1>8

(* Each part is kept by every step, as long as all of them hold. *)
THEOREM ResultsInvariant == Spec => []ResultsInv
<1>1. ResultsInv /\ [Next]_vars => ResultsInv'
  BY NextResults, SameResults
<1>. QED
  BY InitResults, <1>1, PTL DEF Spec

(* The types; in particular release never gives back a connection that is not *)
(* marked in use, and no pool has more of them marked than it has.            *)
THEOREM ResultsTypeOK == Spec => []TypeOK
<1>1. ResultsInv => TypeOK
  BY TypedIsTypeOK DEF ResultsInv
<1>. QED
  BY ResultsInvariant, <1>1, PTL

(* However many streams of a game end at once and whatever the database does, *)
(* record_game_result and on_game_finish leave at most one row each, and every *)
(* update_after_game that counts as a win counts as the loss of the other      *)
(* player of the same game, for nobody else.                                   *)
THEOREM ResultsAreWhole == Spec => []RecordsWhole
<1>1. ResultsInv => RecordsWhole
  BY CountsForIsTally DEF ResultsInv, RecordsWhole
<1>. QED
  BY ResultsInvariant, <1>1, PTL

(* An elo that lacks a committed update lost it to another update whose select *)
(* did not see it and which it did not see: nothing but the unlocked SELECT of *)
(* update_after_game loses a rating change.                                    *)
THEOREM ForgottenOnlyWhenRacing == Spec => []ForgottenOnlyInARace
<1>1. ResultsInv => ForgottenOnlyInARace
  BY DEF ResultsInv
<1>. QED
  BY ResultsInvariant, <1>1, PTL

(* When main has ended, the result of a game that was decided while one of its *)
(* streams was open is in the history, unless an attempt to write it failed.   *)
THEOREM WatchedResultIsKept == Spec => []WatchedIsKept
<1>1. ResultsInv => WatchedIsKept
  BY KeptIsWatched DEF ResultsInv
<1>. QED
  BY ResultsInvariant, <1>1, PTL
================================================================================
