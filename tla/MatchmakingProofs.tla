------------------------- MODULE MatchmakingProofs -------------------------
(***************************************************************************)
(* Proofs about Matchmaking, for any players, ratings and limits: type     *)
(* correctness, and every player is where her requests and the matches put *)
(* her.                                                                    *)
(*                                                                         *)
(* The inductive invariant MatchInv says for each step of the match loop   *)
(* what it holds (MakerShape), and what has become of its pair in the game *)
(* it was created for (Pairing): that is what makes a result a seat, since *)
(* the loop takes the queue's, the manager's and the game's mutex one after*)
(* another and looks at no result of add_player.                           *)
(***************************************************************************)
EXTENDS Matchmaking, TLAPS, FiniteSetTheorems, SequenceTheorems, WellFoundedInduction

-----------------------------------------------------------------------------
(* The inductive invariant *)

Entries == [player : Players, waited : 0..MaxWait]

(* Nobody is in s twice. *)
Distinct(s) == \A i, j \in DOMAIN s : s[i].player = s[j].player => i = j

PlayersOf(s) == {s[i].player : i \in DOMAIN s}

QueueShape ==
  /\ queue \in Seq(Entries) /\ Len(queue) <= MaxQueue
  /\ Distinct(queue)

(* The steps in which the loop has created a game for its pair. *)
Seating == {"seat", "second", "tell"}

(* What the match loop holds in each of its steps. *)
MakerShape ==
  /\ maker \in [step : {"idle", "matched", "requeue"} \cup Seating,
                pair : Seq(Entries), game : Ids \cup {NoGame}]
  /\ maker.step = "idle" => maker.pair = <<>>
  /\ maker.step \in {"matched"} \cup Seating => Len(maker.pair) = 2
  /\ maker.step = "requeue" => Len(maker.pair) \in {1, 2}
  /\ Len(maker.pair) = 2 => maker.pair[1].player # maker.pair[2].player
  /\ maker.step \in Seating => maker.game \in Ids /\ games[maker.game] # "none"

(* Results name games that were created. *)
NoteShape ==
  /\ matched \in [Ids -> SUBSET Players]
  /\ wish \in [Players -> {"none", "expects", "dropped"}]
  /\ results \in [Players -> Ids \cup {NoGame}]
  /\ \A p \in Players : results[p] # NoGame => games[results[p]] # "none"

(* The limits of the manager and of a game: a full one has two players, an open
   one nobody or one. *)
RoomShape ==
  /\ games \in [Ids -> GameStates] /\ seats \in [Ids -> SUBSET Players]
  /\ Cardinality(Held) <= MaxGames
  /\ \A g \in Ids : IF games[g] = "full"
                    THEN \E p, q \in Players : p # q /\ seats[g] = {p, q}
                    ELSE seats[g] = {} \/ \E p \in Players : seats[g] = {p}

(* What add_player leaves of p in a game that is held: a seat, unless somebody it
   was not made for sits there. *)
Placed(p, g) == p \in seats[g] \/ seats[g] \ matched[g] # {}

(* The game of the pair, and who of them has been seated. *)
Pairing ==
  maker.step \in Seating /\ maker.game \in Held =>
    /\ matched[maker.game] = InHand
    /\ maker.step \in {"second", "tell"} => Placed(maker.pair[1].player, maker.game)
    /\ maker.step = "tell" => Placed(maker.pair[2].player, maker.game)

MatchInv ==
  /\ QueueShape /\ MakerShape /\ NoteShape /\ RoomShape
  /\ Pairing /\ NobodyForgotten /\ SeatsKept

-----------------------------------------------------------------------------
(* Sequences of entries *)

LEMMA RemoveAtFacts ==
  ASSUME NEW s \in Seq(Entries), NEW i \in 1..Len(s)
  PROVE  /\ RemoveAt(s, i) \in Seq(Entries) /\ Len(RemoveAt(s, i)) = Len(s) - 1
         /\ \A k \in 1..(Len(s) - 1) : RemoveAt(s, i)[k] = IF k < i THEN s[k] ELSE s[k + 1]
<1>. DEFINE a == SubSeq(s, 1, i - 1)
            b == SubSeq(s, i + 1, Len(s))
<1>1. Len(s) \in Nat /\ \A k \in 1..Len(s) : s[k] \in Entries
  OBVIOUS
<1>2. /\ a \in Seq(Entries) /\ Len(a) = i - 1
      /\ \A k \in 1..(i - 1) : a[k] = s[k]
  BY <1>1
<1>3. /\ b \in Seq(Entries) /\ Len(b) = Len(s) - i
      /\ \A k \in 1..(Len(s) - i) : b[k] = s[i + k]
  BY <1>1
<1>. HIDE DEF a, b
<1>4. /\ a \o b \in Seq(Entries) /\ Len(a \o b) = Len(s) - 1
      /\ \A k \in 1..(Len(s) - 1) : (a \o b)[k] = IF k <= i - 1 THEN a[k] ELSE b[k - (i - 1)]
  <2>1. /\ a \o b \in Seq(Entries) /\ Len(a \o b) = Len(a) + Len(b)
        /\ \A k \in 1..(Len(a) + Len(b)) :
             (a \o b)[k] = IF k <= Len(a) THEN a[k] ELSE b[k - Len(a)]
    BY <1>2, <1>3, ConcatProperties
  <2>2. Len(a) + Len(b) = Len(s) - 1
    BY <1>1, <1>2, <1>3
  <2>. QED
    BY <1>2, <2>1, <2>2
<1>5. RemoveAt(s, i) = a \o b
  BY DEF RemoveAt, a, b
<1>6. ASSUME NEW k \in 1..(Len(s) - 1)
      PROVE  (a \o b)[k] = IF k < i THEN s[k] ELSE s[k + 1]
  <2>1. CASE k < i
    <3>1. k \in 1..(i - 1) /\ k <= i - 1
      BY <1>1, <2>1
    <3>. QED
      BY <1>2, <1>4, <2>1, <3>1
  <2>2. CASE ~(k < i)
    <3>1. /\ ~(k <= i - 1) /\ k - (i - 1) \in 1..(Len(s) - i)
          /\ i + (k - (i - 1)) = k + 1
      BY <1>1, <2>2
    <3>2. (a \o b)[k] = b[k - (i - 1)]
      BY <1>4, <3>1
    <3>. QED
      BY <1>3, <2>2, <3>1, <3>2
  <2>. QED
    BY <2>1, <2>2
<1>. QED
  BY <1>4, <1>5, <1>6

(* Taking an entry out takes her player out, and leaves nobody twice. *)
LEMMA RemoveAtDistinct ==
  ASSUME NEW s \in Seq(Entries), NEW i \in DOMAIN s, Distinct(s)
  PROVE  /\ RemoveAt(s, i) \in Seq(Entries) /\ Len(RemoveAt(s, i)) = Len(s) - 1
         /\ Distinct(RemoveAt(s, i))
         /\ PlayersOf(RemoveAt(s, i)) = PlayersOf(s) \ {s[i].player}
<1>. DEFINE t == RemoveAt(s, i)
            Old(k) == IF k < i THEN k ELSE k + 1
<1>1. DOMAIN s = 1..Len(s) /\ Len(s) \in Nat
  OBVIOUS
<1>2. /\ t \in Seq(Entries) /\ Len(t) = Len(s) - 1
      /\ \A k \in 1..(Len(s) - 1) : t[k] = s[Old(k)]
  BY <1>1, RemoveAtFacts
<1>. HIDE DEF t
<1>3. DOMAIN t = 1..(Len(s) - 1)
  BY <1>2
<1>4. \A k \in DOMAIN t : Old(k) \in DOMAIN s /\ Old(k) # i
  BY <1>1, <1>3
<1>5. Distinct(t)
  <2>1. \A k, l \in DOMAIN t : Old(k) = Old(l) => k = l
    BY <1>1, <1>3
  <2>2. \A k \in DOMAIN t : t[k] = s[Old(k)]
    BY <1>2, <1>3
  <2>. HIDE DEF Old
  <2>. QED
    BY <1>4, <2>1, <2>2 DEF Distinct
<1>6. PlayersOf(t) \subseteq PlayersOf(s) \ {s[i].player}
  BY <1>1, <1>2, <1>3, <1>4 DEF PlayersOf, Distinct
<1>7. ASSUME NEW j \in DOMAIN s, s[j].player # s[i].player
      PROVE  s[j].player \in PlayersOf(t)
  <2>1. PICK k \in DOMAIN t : Old(k) = j
    <3>1. CASE j < i
      BY <1>1, <1>3, <3>1
    <3>2. CASE j > i
      <4>1. j - 1 \in DOMAIN t /\ Old(j - 1) = j
        BY <1>1, <1>3, <3>2
      <4>. QED
        BY <4>1
    <3>. QED
      BY <1>1, <1>7, <3>1, <3>2
  <2>. QED
    BY <1>2, <1>3, <2>1 DEF PlayersOf
<1>8. PlayersOf(s) \ {s[i].player} \subseteq PlayersOf(t)
  BY <1>7 DEF PlayersOf
<1>. QED
  BY <1>2, <1>5, <1>6, <1>8 DEF t

(* So does putting back a player who is not there. *)
LEMMA AppendDistinct ==
  ASSUME NEW s \in Seq(Entries), NEW e \in Entries, Distinct(s), e.player \notin PlayersOf(s)
  PROVE  /\ Append(s, e) \in Seq(Entries) /\ Len(Append(s, e)) = Len(s) + 1
         /\ Distinct(Append(s, e))
         /\ PlayersOf(Append(s, e)) = PlayersOf(s) \cup {e.player}
<1>1. DOMAIN s = 1..Len(s) /\ Len(s) \in Nat
  OBVIOUS
<1>. DEFINE t == Append(s, e)
<1>2. /\ t \in Seq(Entries) /\ Len(t) = Len(s) + 1
      /\ \A k \in 1..Len(s) : t[k] = s[k]
      /\ t[Len(s) + 1] = e
  BY AppendProperties
<1>. HIDE DEF t
<1>3. DOMAIN t = 1..(Len(s) + 1)
  BY <1>2
<1>4. Distinct(t)
  BY <1>1, <1>2, <1>3 DEF Distinct, PlayersOf
<1>5. PlayersOf(t) = PlayersOf(s) \cup {e.player}
  <2>1. PlayersOf(t) \subseteq PlayersOf(s) \cup {e.player}
    BY <1>1, <1>2, <1>3 DEF PlayersOf
  <2>2. \A k \in DOMAIN s : k \in DOMAIN t /\ t[k] = s[k]
    BY <1>1, <1>2, <1>3
  <2>3. Len(s) + 1 \in DOMAIN t
    BY <1>1, <1>3
  <2>. QED
    BY <1>2, <2>1, <2>2, <2>3 DEF PlayersOf
<1>. QED
  BY <1>2, <1>4, <1>5 DEF t

(* remove leaves a queue without p. *)
LEMMA WithoutFacts ==
  ASSUME QueueShape, NEW p
  PROVE  /\ Without(p) \in Seq(Entries) /\ Len(Without(p)) <= MaxQueue
         /\ Distinct(Without(p)) /\ PlayersOf(Without(p)) = Queued \ {p}
<1>1. CASE p \in Queued
  <2>. DEFINE i == CHOOSE i \in DOMAIN queue : queue[i].player = p
  <2>1. i \in DOMAIN queue /\ queue[i].player = p
    BY <1>1 DEF Queued
  <2>2. Without(p) = RemoveAt(queue, i)
    BY <1>1 DEF Without
  <2>. HIDE DEF i
  <2>. QED
    <3>1. queue \in Seq(Entries) /\ Distinct(queue) /\ Len(queue) \in Nat /\ Len(queue) <= MaxQueue
      BY DEF QueueShape
    <3>2. /\ Without(p) \in Seq(Entries) /\ Len(Without(p)) = Len(queue) - 1
          /\ Distinct(Without(p)) /\ PlayersOf(Without(p)) = PlayersOf(queue) \ {p}
      BY <2>1, <2>2, <3>1, RemoveAtDistinct
    <3>3. PlayersOf(queue) = Queued
      BY DEF PlayersOf, Queued
    <3>. QED
      BY <3>1, <3>2, <3>3, LimitsAreNumbers
<1>2. CASE p \notin Queued
  BY <1>2 DEF Without, QueueShape, PlayersOf, Queued
<1>. QED
  BY <1>1, <1>2

-----------------------------------------------------------------------------
(* The queue *)

LEMMA Members ==
  Queued = PlayersOf(queue) /\ InHand = PlayersOf(maker.pair)
BY DEF Queued, InHand, PlayersOf

(* What stays true when neither the rooms nor the results change. *)
LEMMA SameRooms ==
  ASSUME MatchInv, UNCHANGED <<rooms, matched, results>>
  PROVE  RoomShape' /\ SeatsKept' /\ matched' \in [Ids -> SUBSET Players]
         /\ results' \in [Players -> Ids \cup {NoGame}]
         /\ \A q \in Players : results'[q] # NoGame => games'[results'[q]] # "none"
BY DEF MatchInv, RoomShape, Held, SeatsKept, NoteShape, rooms

(* What stays true when the match loop takes no step. *)
LEMMA SameMaker ==
  ASSUME MatchInv, UNCHANGED <<maker, rooms, matched>>
  PROVE  MakerShape' /\ Pairing'
BY DEF MatchInv, MakerShape, Pairing, Held, Placed, InHand, rooms

LEMMA WishFacts ==
  ASSUME NoteShape, NEW S, NEW w \in {"none", "expects", "dropped"}, Wish(S, w)
  PROVE  /\ wish' \in [Players -> {"none", "expects", "dropped"}]
         /\ \A q \in Players : wish'[q] = IF q \in S THEN w ELSE wish[q]
         /\ w # "expects" => expecting' = expecting \ S
         /\ w = "expects" => expecting' \subseteq expecting \cup S
BY DEF NoteShape, Wish, expecting

LEMMA JoinQueueStep ==
  ASSUME MatchInv, NEW p \in Players, JoinQueue(p)
  PROVE  MatchInv'
<1>. USE DEF MatchInv
<1>1. Entry(p) \in Entries /\ Entry(p).player = p
  BY LimitsAreNumbers DEF Entry, Entries
<1>2. /\ queue' = Append(queue, Entry(p)) /\ p \notin PlayersOf(queue) /\ Len(queue) < MaxQueue
      /\ Wish({p}, "expects") /\ UNCHANGED <<maker, results, rooms, matched>>
  BY Members DEF JoinQueue, MayAdd
<1>3. /\ queue' \in Seq(Entries) /\ Len(queue') = Len(queue) + 1 /\ Distinct(queue')
      /\ PlayersOf(queue') = PlayersOf(queue) \cup {p}
  BY <1>1, <1>2, AppendDistinct DEF QueueShape
<1>4. QueueShape'
  BY <1>2, <1>3, LimitsAreNumbers DEF QueueShape, Distinct
<1>5. NoteShape' /\ expecting' \subseteq expecting \cup {p}
  BY <1>2, SameRooms, WishFacts DEF NoteShape
<1>6. NobodyForgotten'
  BY <1>2, <1>3, <1>5, Members DEF NobodyForgotten, Queued, InHand, PlayersOf
<1>. QED
  BY <1>2, <1>4, <1>5, <1>6, SameRooms, SameMaker

LEMMA LeaveQueueStep ==
  ASSUME MatchInv, NEW p \in Players, LeaveQueue(p)
  PROVE  MatchInv'
<1>. USE DEF MatchInv
<1>1. /\ queue' = Without(p) /\ Wish({p}, "none")
      /\ UNCHANGED <<maker, results, rooms, matched>>
  BY DEF LeaveQueue
<1>2. QueueShape' /\ PlayersOf(queue') = Queued \ {p}
  BY <1>1, WithoutFacts DEF QueueShape, Distinct
<1>3. NoteShape' /\ expecting' = expecting \ {p}
  BY <1>1, SameRooms, WishFacts DEF NoteShape
<1>4. NobodyForgotten'
  BY <1>1, <1>2, <1>3 DEF NobodyForgotten, Queued, InHand, PlayersOf
<1>. QED
  BY <1>1, <1>2, <1>3, <1>4, SameRooms, SameMaker

LEMMA HearMatchStep ==
  ASSUME MatchInv, NEW p \in Players, HearMatch(p)
  PROVE  MatchInv'
<1>. USE DEF MatchInv
<1>1. /\ results' = [results EXCEPT ![p] = NoGame] /\ Wish({p}, "none")
      /\ UNCHANGED <<queue, maker, rooms, matched>>
  BY DEF HearMatch
<1>2. QueueShape' /\ RoomShape'
  BY <1>1 DEF QueueShape, Distinct, RoomShape, Held, rooms
<1>3. NoteShape' /\ expecting' = expecting \ {p}
  BY <1>1, WishFacts DEF NoteShape, rooms
<1>4. NobodyForgotten'
  BY <1>1, <1>3 DEF NobodyForgotten, NoteShape, Queued, InHand
<1>5. SeatsKept'
  <2>1. NoGame \notin Held
    BY DEF Held, Ids, NoGame
  <2>2. \A q \in Players : results'[q] \in Held' => results'[q] = results[q]
    BY <1>1, <2>1 DEF NoteShape, Held, rooms
  <2>. QED
    BY <1>1, <2>2 DEF SeatsKept, Held, rooms
<1>. QED
  BY <1>1, <1>2, <1>3, <1>4, <1>5, SameMaker

LEMMA TimePassesStep ==
  ASSUME MatchInv, TimePasses
  PROVE  MatchInv'
<1>. USE DEF MatchInv
<1>. DEFINE Wider(i) == [queue[i] EXCEPT !.waited = IF @ < MaxWait THEN @ + 1 ELSE @]
<1>1. queue' = [i \in DOMAIN queue |-> Wider(i)] /\ UNCHANGED <<maker, results, rooms, notes>>
  BY DEF TimePasses
<1>2. \A i \in DOMAIN queue : Wider(i) \in Entries /\ Wider(i).player = queue[i].player
  <2>1. TAKE i \in DOMAIN queue
  <2>2. queue[i] \in Entries
    BY DEF QueueShape
  <2>3. queue[i].waited + 1 \in 0..MaxWait \/ ~(queue[i].waited < MaxWait)
    BY <2>2, LimitsAreNumbers DEF Entries
  <2>. QED
    BY <2>2, <2>3, LimitsAreNumbers DEF Entries
<1>. HIDE DEF Wider
<1>3. /\ queue' \in Seq(Entries) /\ Len(queue') = Len(queue) /\ DOMAIN queue' = DOMAIN queue
      /\ \A i \in DOMAIN queue : queue'[i].player = queue[i].player
  <2>1. DOMAIN queue = 1..Len(queue) /\ Len(queue) \in Nat
    BY DEF QueueShape
  <2>2. queue' \in Seq(Entries) /\ Len(queue') = Len(queue)
    BY <1>1, <1>2, <2>1, IsASeq
  <2>. QED
    BY <1>1, <1>2, <2>1, <2>2
<1>4. QueueShape' /\ PlayersOf(queue') = PlayersOf(queue)
  BY <1>3 DEF QueueShape, Distinct, PlayersOf
<1>5. NobodyForgotten'
  BY <1>1, <1>4 DEF NobodyForgotten, Queued, InHand, PlayersOf, expecting, notes
<1>6. NoteShape'
  BY <1>1 DEF NoteShape, notes, rooms
<1>. QED
  BY <1>1, <1>4, <1>5, <1>6, SameRooms, SameMaker DEF notes

-----------------------------------------------------------------------------
(* The match loop *)

LEMMA TwoEntries ==
  ASSUME NEW d \in Entries, NEW e \in Entries
  PROVE  /\ <<d, e>> \in Seq(Entries) /\ Len(<<d, e>>) = 2
         /\ <<d, e>>[1] = d /\ <<d, e>>[2] = e
         /\ PlayersOf(<<d, e>>) = {d.player, e.player}
<1>1. /\ <<d, e>> \in Seq(Entries) /\ Len(<<d, e>>) = 2 /\ DOMAIN <<d, e>> = {1, 2}
      /\ <<d, e>>[1] = d /\ <<d, e>>[2] = e
  OBVIOUS
<1>. QED
  BY <1>1 DEF PlayersOf

LEMMA FindMatchStep ==
  ASSUME MatchInv, FindMatch
  PROVE  MatchInv'
<1>. USE DEF MatchInv
<1>1. PICK c \in Candidates :
        /\ maker' = [Idle EXCEPT !.step = "matched", !.pair = <<queue[c[1]], queue[c[2]]>>]
        /\ queue' = RemoveAt(RemoveAt(queue, c[2]), c[1])
  BY DEF FindMatch
<1>. DEFINE i == c[1]
            j == c[2]
            rest == RemoveAt(queue, j)
<1>2. i \in DOMAIN queue /\ j \in DOMAIN queue /\ i < j
  BY DEF Candidates
<1>3. /\ maker' = [step |-> "matched", pair |-> <<queue[i], queue[j]>>, game |-> NoGame]
      /\ queue' = RemoveAt(rest, i) /\ UNCHANGED <<results, rooms, notes>>
  BY <1>1 DEF Idle, FindMatch
<1>4. /\ DOMAIN queue = 1..Len(queue) /\ Len(queue) \in Nat /\ queue \in Seq(Entries)
      /\ Distinct(queue) /\ Len(queue) <= MaxQueue
      /\ queue[i] \in Entries /\ queue[j] \in Entries
  BY <1>2 DEF QueueShape
<1>. HIDE DEF i, j
<1>5. /\ rest \in Seq(Entries) /\ Len(rest) = Len(queue) - 1 /\ Distinct(rest)
      /\ PlayersOf(rest) = PlayersOf(queue) \ {queue[j].player}
  BY <1>2, <1>4, RemoveAtDistinct
<1>6. rest[i] = queue[i] /\ i \in DOMAIN rest
  <2>1. i \in 1..(Len(queue) - 1) /\ j \in 1..Len(queue)
    BY <1>2, <1>4
  <2>2. rest[i] = queue[i]
    BY <1>2, <1>4, <2>1, RemoveAtFacts
  <2>. QED
    BY <1>5, <2>1, <2>2
<1>. HIDE DEF rest
<1>7. /\ queue' \in Seq(Entries) /\ Len(queue') = Len(queue) - 2 /\ Distinct(queue')
      /\ PlayersOf(queue') = PlayersOf(queue) \ {queue[i].player, queue[j].player}
  <2>1. /\ queue' \in Seq(Entries) /\ Len(queue') = Len(rest) - 1 /\ Distinct(queue')
        /\ PlayersOf(queue') = PlayersOf(rest) \ {rest[i].player}
    BY <1>3, <1>5, <1>6, RemoveAtDistinct
  <2>. QED
    BY <1>4, <1>5, <1>6, <2>1
<1>8. QueueShape'
  BY <1>4, <1>7, LimitsAreNumbers DEF QueueShape, Distinct
<1>9. queue[i].player # queue[j].player
  BY <1>2, <1>4 DEF Distinct
<1>10. MakerShape' /\ PlayersOf(maker'.pair) = {queue[i].player, queue[j].player}
  BY <1>3, <1>4, <1>9, TwoEntries DEF MakerShape, Seating
<1>11. NobodyForgotten'
  <2>1. Queued' = PlayersOf(queue') /\ InHand' = PlayersOf(maker'.pair)
    BY DEF Queued, InHand, PlayersOf
  <2>2. Queued \subseteq Queued' \cup InHand'
    BY <1>7, <1>10, <2>1, Members
  <2>3. InHand = {}
    BY DEF FindMatch, Idle, InHand
  <2>4. expecting' = expecting /\ results' = results
    BY <1>3 DEF expecting, notes
  <2>. HIDE DEF MatchInv
  <2>5. NobodyForgotten
    BY DEF MatchInv
  <2>. QED
    BY <2>2, <2>3, <2>4, <2>5 DEF NobodyForgotten
<1>12. NoteShape' /\ Pairing'
  BY <1>3 DEF NoteShape, Pairing, Seating, notes, rooms
<1>. QED
  BY <1>3, <1>8, <1>10, <1>11, <1>12, SameRooms DEF notes

LEMMA LeastNumber ==
  ASSUME NEW T, T \subseteq Nat, T # {}
  PROVE  \E x \in T : \A y \in T : x <= y
<1>. DEFINE R == {ss \in Nat \X Nat : ss[1] < ss[2]}
<1>1. IsWellFoundedOn(R, Nat)
  BY NatLessThanWellFounded DEF OpToRel
<1>2. \A x, y \in Nat : y < x => <<y, x>> \in R
  OBVIOUS
<1>. HIDE DEF R
<1>3. PICK x \in T : \A y \in T : <<y, x>> \notin R
  BY <1>1, WFMin
<1>4. ASSUME NEW y \in T PROVE x <= y
  <2>1. ~(y < x)
    BY <1>2, <1>3
  <2>. QED
    BY <2>1
<1>. QED
  BY <1>4

(* next_id_ names no game that was created before. *)
LEMMA NextIdIsFresh ==
  ASSUME Fresh # {}
  PROVE  NextId \in Ids /\ games[NextId] = "none"
<1>1. Fresh \subseteq Nat
  BY DEF Fresh, Ids
<1>2. \E g \in Fresh : \A h \in Fresh : g <= h
  BY <1>1, LeastNumber
<1>3. NextId \in Fresh
  BY <1>2 DEF NextId
<1>. QED
  BY <1>3 DEF Fresh

LEMMA HeldIsFinite ==
  IsFiniteSet(Held) /\ Cardinality(Held) \in Nat
<1>1. IsFiniteSet(Ids) /\ Held \in SUBSET Ids
  BY FS_Interval, LimitsAreNumbers DEF Ids, Held
<1>. QED
  BY <1>1, FS_Subset, FS_CardinalityType

(* create_game keeps max_games and disturbs no other game. *)
LEMMA CreateFacts ==
  ASSUME MatchInv, HasRoom, Fresh # {}, Create(NextId), UNCHANGED seats
  PROVE  /\ RoomShape' /\ Held' = Held \cup {NextId} /\ NextId \notin Held
         /\ \A g \in Ids : games[g] # "none" => games'[g] = games[g] /\ g # NextId
         /\ games'[NextId] # "none" /\ NextId \in Ids
<1>. USE DEF MatchInv
<1>. DEFINE n == NextId
<1>1. n \in Ids /\ games[n] = "none"
  BY NextIdIsFresh
<1>2. games' = [games EXCEPT ![n] = "open"]
  BY DEF Create
<1>. HIDE DEF n
<1>3. /\ games' \in [Ids -> GameStates] /\ games'[n] = "open"
      /\ \A g \in Ids : g # n => games'[g] = games[g]
  BY <1>1, <1>2 DEF RoomShape, GameStates
<1>4. Held' = Held \cup {n} /\ n \notin Held
  BY <1>1, <1>3 DEF Held
<1>5. Cardinality(Held') <= MaxGames
  <2>1. Cardinality(Held') = Cardinality(Held) + 1
    BY <1>4, HeldIsFinite, FS_AddElement
  <2>. QED
    BY <2>1, HeldIsFinite, LimitsAreNumbers DEF HasRoom
<1>6. RoomShape'
  BY <1>1, <1>3, <1>5 DEF RoomShape
<1>. QED
  BY <1>1, <1>3, <1>4, <1>6 DEF n

LEMMA CreateMatchStep ==
  ASSUME MatchInv, CreateMatch
  PROVE  MatchInv'
<1>. USE DEF MatchInv
<1>1. maker.step = "matched" /\ Len(maker.pair) = 2 /\ UNCHANGED <<queue, results, seats, wish>>
  BY DEF CreateMatch, MakerShape
<1>2. CASE /\ HasRoom /\ Fresh # {} /\ Create(NextId)
           /\ maker' = [maker EXCEPT !.step = "seat", !.game = NextId]
           /\ matched' = [matched EXCEPT ![NextId] = InHand]
  <2>1. /\ RoomShape' /\ Held' = Held \cup {NextId} /\ NextId \notin Held
        /\ \A g \in Ids : games[g] # "none" => games'[g] = games[g] /\ g # NextId
        /\ games'[NextId] # "none" /\ NextId \in Ids
    BY <1>1, <1>2, CreateFacts
  <2>. DEFINE n == NextId
  <2>. HIDE DEF n
  <2>2. /\ maker' = [maker EXCEPT !.step = "seat", !.game = n]
        /\ matched' = [matched EXCEPT ![n] = InHand]
    BY <1>2 DEF n
  <2>3. MakerShape' /\ maker'.pair = maker.pair
    BY <1>1, <2>1, <2>2 DEF MakerShape, Seating, n
  <2>4. InHand \in SUBSET Players /\ InHand' = InHand
    <3>1. \A i \in DOMAIN maker.pair : maker.pair[i] \in Entries
      BY DEF MakerShape
    <3>. QED
      BY <2>3, <3>1 DEF InHand, Entries
  <2>5. /\ NoteShape' /\ matched'[n] = InHand
        /\ \A g \in Ids : g # n => matched'[g] = matched[g]
    BY <1>1, <2>1, <2>2, <2>4 DEF NoteShape, n
  <2>6. Pairing'
    BY <2>2, <2>3, <2>4, <2>5 DEF Pairing, MakerShape
  <2>7. NobodyForgotten'
    BY <1>1, <2>4 DEF NobodyForgotten, Queued, expecting
  <2>8. SeatsKept'
    <3>1. ASSUME NEW p \in Players, results'[p] \in Held'
          PROVE  results[p] \in Held /\ results[p] # n
      BY <1>1, <2>1, <3>1 DEF NoteShape, Held, Ids, NoGame, n
    <3>. QED
      BY <1>1, <2>5, <3>1 DEF SeatsKept, Held
  <2>9. QueueShape'
    BY <1>1 DEF QueueShape, Distinct
  <2>. QED
    BY <2>1, <2>3, <2>5, <2>6, <2>7, <2>8, <2>9
<1>3. CASE /\ maker' = [maker EXCEPT !.step = "requeue"]
           /\ UNCHANGED <<games, matched>>
  <2>1. QueueShape' /\ NoteShape' /\ UNCHANGED <<rooms, matched, results>>
    BY <1>1, <1>3 DEF QueueShape, Distinct, NoteShape, rooms
  <2>2. MakerShape' /\ maker'.pair = maker.pair /\ maker'.step = "requeue"
    BY <1>1, <1>3 DEF MakerShape, Seating
  <2>3. Pairing' /\ NobodyForgotten'
    BY <1>1, <2>2 DEF Pairing, Seating, NobodyForgotten, InHand, Queued, expecting
  <2>. QED
    BY <2>1, <2>2, <2>3, SameRooms
<1>. QED
  BY <1>2, <1>3 DEF CreateMatch

LEMMA RequeueStep ==
  ASSUME MatchInv, Requeue
  PROVE  MatchInv'
<1>. USE DEF MatchInv
<1>. DEFINE e == Head(maker.pair)
<1>1. /\ maker.step = "requeue" /\ UNCHANGED <<results, rooms, matched>>
      /\ maker' = IF Len(maker.pair) = 1 THEN Idle ELSE [maker EXCEPT !.pair = Tail(@)]
      /\ \/ MayAdd(e.player) /\ queue' = Append(queue, e) /\ UNCHANGED wish
         \/ ~MayAdd(e.player) /\ UNCHANGED queue /\ Drop({e.player} \ Queued)
  BY DEF Requeue
<1>2. maker.pair \in Seq(Entries) /\ Len(maker.pair) \in {1, 2} /\ maker.pair # <<>>
  BY <1>1 DEF MakerShape
<1>3. /\ e \in Entries /\ e = maker.pair[1]
      /\ Len(maker.pair) = 2 => /\ Tail(maker.pair) \in Seq(Entries) /\ Len(Tail(maker.pair)) = 1
                                /\ Tail(maker.pair)[1] = maker.pair[2]
  BY <1>2, HeadTailProperties
<1>. HIDE DEF e
<1>4. /\ MakerShape' /\ maker'.step \in {"idle", "requeue"}
      /\ \A q \in InHand : q = e.player \/ q \in PlayersOf(maker'.pair)
  <2>1. CASE Len(maker.pair) = 1
    <3>1. maker' = Idle
      BY <1>1, <2>1
    <3>2. MakerShape' /\ maker'.step = "idle"
      BY <3>1 DEF MakerShape, Idle, NoGame, Seating
    <3>3. \A q \in InHand : q = e.player
      BY <1>2, <1>3, <2>1 DEF InHand
    <3>. QED
      BY <3>2, <3>3
  <2>2. CASE Len(maker.pair) = 2
    <3>1. maker' = [maker EXCEPT !.pair = Tail(maker.pair)]
      BY <1>1, <2>2
    <3>2. MakerShape' /\ maker'.step = "requeue" /\ maker'.pair = Tail(maker.pair)
      BY <1>1, <1>3, <2>2, <3>1 DEF MakerShape, Seating
    <3>3. DOMAIN maker.pair = {1, 2} /\ 1 \in DOMAIN Tail(maker.pair)
      BY <1>2, <1>3, <2>2
    <3>4. \A q \in InHand : q = e.player \/ q \in PlayersOf(maker'.pair)
      BY <1>3, <2>2, <3>2, <3>3 DEF InHand, PlayersOf
    <3>. QED
      BY <3>2, <3>4
  <2>. QED
    BY <1>2, <2>1, <2>2
<1>5. Pairing'
  BY <1>4 DEF Pairing, Seating
<1>6. CASE MayAdd(e.player) /\ queue' = Append(queue, e) /\ UNCHANGED wish
  <2>1. /\ queue' \in Seq(Entries) /\ Len(queue') = Len(queue) + 1 /\ Distinct(queue')
        /\ PlayersOf(queue') = PlayersOf(queue) \cup {e.player}
    BY <1>3, <1>6, AppendDistinct, Members DEF QueueShape, MayAdd
  <2>2. QueueShape'
    BY <1>6, <2>1, LimitsAreNumbers DEF QueueShape, Distinct, MayAdd
  <2>3. NobodyForgotten'
    <3>1. Queued' = Queued \cup {e.player} /\ InHand' = PlayersOf(maker'.pair)
      BY <2>1, Members DEF Queued, InHand, PlayersOf
    <3>2. expecting' = expecting
      BY <1>6 DEF expecting
    <3>. QED
      BY <1>1, <1>4, <3>1, <3>2 DEF NobodyForgotten
  <2>4. NoteShape'
    BY <1>1, <1>6 DEF NoteShape, rooms
  <2>. QED
    BY <1>1, <1>4, <1>5, <2>2, <2>3, <2>4, SameRooms
<1>7. CASE UNCHANGED queue /\ Drop({e.player} \ Queued)
  <2>1. QueueShape'
    BY <1>7 DEF QueueShape, Distinct
  <2>2. NoteShape' /\ expecting' = expecting \ (({e.player} \ Queued) \cap expecting)
    BY <1>1, <1>7, WishFacts, SameRooms DEF Drop, NoteShape
  <2>3. NobodyForgotten'
    <3>1. Queued' = Queued /\ InHand' = PlayersOf(maker'.pair)
      BY <1>7 DEF Queued, InHand, PlayersOf
    <3>. QED
      BY <1>1, <1>4, <2>2, <3>1 DEF NobodyForgotten
  <2>. QED
    BY <1>1, <1>4, <1>5, <2>1, <2>2, <2>3, SameRooms
<1>. QED
  BY <1>1, <1>6, <1>7

(* add_player takes no seat away, and places p or finds the game full of others. *)
LEMMA JoinFacts ==
  ASSUME MatchInv, NEW p \in Players, NEW g \in Ids, Join(p, g)
  PROVE  /\ RoomShape' /\ Held' = Held
         /\ \A h \in Ids : seats[h] \subseteq seats'[h] /\ (games[h] # "none" => games'[h] # "none")
         /\ \A q \in Players : g \in Held => p \in seats'[g] \/ seats'[g] \ {p, q} # {}
<1>. USE DEF MatchInv
<1>1. CASE MayJoin(p, g)
  <2>1. seats' = [seats EXCEPT ![g] = @ \cup {p}] /\ games[g] = "open" /\ p \notin seats[g]
    BY <1>1 DEF Join, MayJoin
  <2>2. /\ seats' \in [Ids -> SUBSET Players] /\ seats'[g] = seats[g] \cup {p}
        /\ \A h \in Ids : h # g => seats'[h] = seats[h]
    BY <2>1 DEF RoomShape
  <2>3. /\ games' \in [Ids -> GameStates]
        /\ games'[g] = IF seats[g] # {} THEN "full" ELSE "open"
        /\ \A h \in Ids : h # g => games'[h] = games[h]
    BY <1>1, <2>1 DEF Join, RoomShape, GameStates
  <2>4. Held' = Held
    BY <2>1, <2>3 DEF Held
  <2>5. seats[g] = {} \/ \E q \in Players : seats[g] = {q}
    BY <2>1 DEF RoomShape
  <2>6. RoomShape'
    <3>1. IF games'[g] = "full" THEN \E q, r \in Players : q # r /\ seats'[g] = {q, r}
                                ELSE \E q \in Players : seats'[g] = {q}
      BY <2>1, <2>2, <2>3, <2>5
    <3>. QED
      BY <2>2, <2>3, <2>4, <3>1 DEF RoomShape
  <2>. QED
    BY <2>1, <2>2, <2>3, <2>4, <2>6
<1>2. CASE ~MayJoin(p, g)
  <2>1. UNCHANGED <<seats, games>>
    BY <1>2 DEF Join
  <2>2. RoomShape' /\ Held' = Held
    BY <2>1 DEF RoomShape, Held
  <2>3. ASSUME NEW q \in Players, g \in Held, p \notin seats[g] PROVE seats[g] \ {p, q} # {}
    <3>1. games[g] = "full"
      BY <1>2, <2>3 DEF MayJoin, Held, RoomShape, GameStates
    <3>2. PICK a, b \in Players : a # b /\ seats[g] = {a, b}
      BY <3>1 DEF RoomShape
    <3>. QED
      BY <2>3, <3>2
  <2>. QED
    BY <2>1, <2>2, <2>3
<1>. QED
  BY <1>1, <1>2

(* What stays true when seats are taken. *)
LEMMA SeatsTaken ==
  ASSUME MatchInv, RoomShape', Held' = Held, UNCHANGED <<matched, results, wish>>,
         \A h \in Ids : seats[h] \subseteq seats'[h] /\ (games[h] # "none" => games'[h] # "none")
  PROVE  NoteShape' /\ SeatsKept'
<1>1. NoteShape'
  BY DEF MatchInv, NoteShape
<1>2. Held \subseteq Ids
  BY DEF Held
<1>3. SeatsKept'
  BY <1>2 DEF MatchInv, SeatsKept
<1>. QED
  BY <1>1, <1>3

LEMMA SeatFirstStep ==
  ASSUME MatchInv, SeatFirst
  PROVE  MatchInv'
<1>. USE DEF MatchInv
<1>1. /\ maker.step = "seat" /\ Len(maker.pair) = 2 /\ maker.game \in Ids
      /\ maker.pair[1] \in Entries /\ maker.pair[2] \in Entries
      /\ UNCHANGED <<queue, results, matched>>
  BY DEF SeatFirst, MakerShape, Seating
<1>2. QueueShape'
  BY <1>1 DEF QueueShape, Distinct
<1>. DEFINE p == maker.pair[1].player
            q == maker.pair[2].player
<1>3. p \in Players /\ q \in Players /\ InHand = {p, q}
  BY <1>1 DEF Entries, InHand, MakerShape
<1>4. CASE /\ maker.game \in Held /\ Join(p, maker.game)
           /\ maker' = [maker EXCEPT !.step = "second"] /\ UNCHANGED wish
  <2>1. /\ RoomShape' /\ Held' = Held
        /\ \A h \in Ids : seats[h] \subseteq seats'[h] /\ (games[h] # "none" => games'[h] # "none")
        /\ p \in seats'[maker.game] \/ seats'[maker.game] \ {p, q} # {}
    <3>. HIDE DEF p, q
    <3>. QED
      BY <1>1, <1>3, <1>4, JoinFacts
  <2>2. NoteShape' /\ SeatsKept'
    BY <1>1, <1>4, <2>1, SeatsTaken
  <2>3. /\ MakerShape' /\ maker'.pair = maker.pair /\ maker'.game = maker.game
        /\ maker'.step = "second"
    BY <1>1, <1>4, <2>1 DEF MakerShape, Seating
  <2>4. matched[maker.game] = {p, q}
    BY <1>1, <1>3, <1>4 DEF Pairing, Seating
  <2>5. Pairing'
    BY <1>1, <1>3, <2>1, <2>3, <2>4 DEF Pairing, Placed, InHand
  <2>6. NobodyForgotten'
    BY <1>1, <1>4, <2>3 DEF NobodyForgotten, Queued, InHand, expecting
  <2>. QED
    BY <1>2, <2>1, <2>2, <2>3, <2>5, <2>6
<1>5. CASE maker' = Idle /\ Drop(InHand) /\ UNCHANGED <<seats, games>>
  <2>1. MakerShape' /\ Pairing' /\ InHand' = {}
    BY <1>5 DEF MakerShape, Pairing, Idle, NoGame, Seating, InHand
  <2>2. UNCHANGED <<rooms, matched, results>>
    BY <1>1, <1>5 DEF rooms
  <2>3. NoteShape' /\ expecting' = expecting \ (InHand \cap expecting)
    BY <1>5, <2>2, WishFacts, SameRooms DEF Drop, NoteShape
  <2>4. NobodyForgotten'
    <3>1. Queued' = Queued /\ results' = results
      BY <1>1 DEF Queued
    <3>. QED
      BY <2>1, <2>3, <3>1 DEF NobodyForgotten
  <2>. QED
    BY <1>2, <2>1, <2>2, <2>3, <2>4, SameRooms
<1>. QED
  BY <1>4, <1>5 DEF SeatFirst

LEMMA SeatSecondStep ==
  ASSUME MatchInv, SeatSecond
  PROVE  MatchInv'
<1>. USE DEF MatchInv
<1>1. /\ maker.step = "second" /\ Len(maker.pair) = 2 /\ maker.game \in Ids
      /\ maker.pair[1] \in Entries /\ maker.pair[2] \in Entries
      /\ maker' = [maker EXCEPT !.step = "tell"] /\ UNCHANGED <<queue, results, notes>>
  BY DEF SeatSecond, MakerShape, Seating
<1>2. QueueShape' /\ UNCHANGED <<matched, wish>>
  BY <1>1 DEF QueueShape, Distinct, notes
<1>. DEFINE p == maker.pair[1].player
            q == maker.pair[2].player
<1>3. p \in Players /\ q \in Players /\ InHand = {p, q}
  BY <1>1 DEF Entries, InHand, MakerShape
<1>4. /\ RoomShape' /\ Held' = Held
      /\ \A h \in Ids : seats[h] \subseteq seats'[h] /\ (games[h] # "none" => games'[h] # "none")
      /\ maker.game \in Held => q \in seats'[maker.game] \/ seats'[maker.game] \ {q, p} # {}
  <2>1. Join(q, maker.game)
    BY DEF SeatSecond
  <2>. HIDE DEF p, q
  <2>. QED
    BY <1>1, <1>3, <2>1, JoinFacts
<1>5. NoteShape' /\ SeatsKept'
  BY <1>1, <1>2, <1>4, SeatsTaken
<1>6. MakerShape' /\ maker'.pair = maker.pair /\ maker'.game = maker.game /\ maker'.step = "tell"
  BY <1>1, <1>4 DEF MakerShape, Seating
<1>7. Pairing'
  <2>1. maker.game \in Held => matched[maker.game] = {p, q} /\ Placed(p, maker.game)
    BY <1>1, <1>3 DEF Pairing, Seating
  <2>. QED
    BY <1>1, <1>2, <1>3, <1>4, <1>6, <2>1 DEF Pairing, Placed, InHand
<1>8. NobodyForgotten'
  BY <1>1, <1>2, <1>6 DEF NobodyForgotten, Queued, InHand, expecting
<1>. QED
  BY <1>2, <1>4, <1>5, <1>6, <1>7, <1>8

LEMMA TellStep ==
  ASSUME MatchInv, Tell
  PROVE  MatchInv'
<1>. USE DEF MatchInv
<1>1. PICK old \in SUBSET {p \in Players : results[p] # NoGame} :
        /\ results' = [p \in Players |-> IF p \in ToTell THEN maker.game
                                         ELSE IF p \in old THEN NoGame ELSE results[p]]
        /\ Wish(old \ (Queued \cup ToTell), "none")
  BY DEF Tell
<1>2. /\ maker.step = "tell" /\ Len(maker.pair) = 2 /\ maker.game \in Ids
      /\ games[maker.game] # "none" /\ maker.game # NoGame
      /\ maker.pair[1] \in Entries /\ maker.pair[2] \in Entries
      /\ maker' = Idle /\ UNCHANGED <<queue, rooms, matched>>
  BY DEF Tell, MakerShape, Seating, Ids, NoGame
<1>. DEFINE p == maker.pair[1].player
            q == maker.pair[2].player
<1>3. p \in Players /\ q \in Players /\ ToTell = {p, q} /\ InHand = {p, q}
  BY <1>2 DEF Entries, InHand, ToTell, MakerShape
<1>4. QueueShape' /\ RoomShape' /\ MakerShape' /\ Pairing' /\ InHand' = {} /\ Queued' = Queued
      /\ Held' = Held
  BY <1>2 DEF QueueShape, Distinct, RoomShape, Held, rooms, MakerShape, Pairing, Idle, NoGame,
              Seating, InHand, Queued
<1>5. /\ results' \in [Players -> Ids \cup {NoGame}]
      /\ \A r \in Players : \/ r \in {p, q} /\ results'[r] = maker.game
                            \/ r \notin {p, q} /\ results'[r] \in {NoGame, results[r]}
  BY <1>1, <1>2, <1>3 DEF NoteShape
<1>6. NoteShape' /\ expecting' = expecting \ (old \ (Queued \cup ToTell))
  <2>1. /\ wish' \in [Players -> {"none", "expects", "dropped"}]
        /\ expecting' = expecting \ (old \ (Queued \cup ToTell))
    BY <1>1, WishFacts
  <2>2. \A r \in Players : results'[r] # NoGame => games'[results'[r]] # "none"
    BY <1>2, <1>5 DEF NoteShape, rooms
  <2>. QED
    BY <1>2, <1>5, <2>1, <2>2 DEF NoteShape
<1>7. NobodyForgotten'
  <2>1. ASSUME NEW r \in expecting', r \notin Queued PROVE results'[r] # NoGame
    <3>1. r \in Players /\ r \in expecting /\ (r \notin old \/ r \in ToTell)
      BY <1>6, <2>1 DEF expecting
    <3>2. CASE r \in ToTell
      BY <1>2, <1>3, <1>5, <3>1, <3>2
    <3>3. CASE r \notin ToTell
      BY <1>1, <1>3, <2>1, <3>1, <3>3 DEF NobodyForgotten
    <3>. QED
      BY <3>2, <3>3
  <2>. QED
    BY <1>4, <2>1 DEF NobodyForgotten, expecting
<1>8. SeatsKept'
  <2>1. NoGame \notin Held /\ UNCHANGED <<seats, matched>>
    BY <1>2 DEF Held, Ids, NoGame, rooms
  <2>2. ASSUME NEW r \in Players, results'[r] \in Held
        PROVE  r \in matched[results'[r]] /\ Placed(r, results'[r])
    <3>1. CASE r \in {p, q}
      BY <1>2, <1>3, <1>5, <2>2, <3>1 DEF Pairing, Seating
    <3>2. CASE r \notin {p, q}
      BY <1>5, <2>1, <2>2, <3>2 DEF SeatsKept, Placed
    <3>. QED
      BY <3>1, <3>2
  <2>. QED
    BY <1>4, <2>1, <2>2 DEF SeatsKept, Placed
<1>. QED
  BY <1>4, <1>6, <1>7, <1>8

-----------------------------------------------------------------------------
(* Games *)

(* What stays true when the queue, the match loop and the wishes do not change. *)
LEMMA SameMatching ==
  ASSUME MatchInv, UNCHANGED <<queue, maker, results, wish>>
  PROVE  QueueShape' /\ NobodyForgotten' /\ InHand' = InHand
BY DEF MatchInv, QueueShape, Distinct, NobodyForgotten, Queued, InHand, expecting

LEMMA CreateGameStep ==
  ASSUME MatchInv, CreateGame
  PROVE  MatchInv'
<1>. USE DEF MatchInv
<1>1. /\ HasRoom /\ Fresh # {} /\ Create(NextId)
      /\ UNCHANGED <<queue, maker, results, seats, matched, wish>>
  BY DEF CreateGame, notes
<1>2. /\ RoomShape' /\ Held' = Held \cup {NextId} /\ NextId \notin Held
      /\ \A g \in Ids : games[g] # "none" => games'[g] = games[g] /\ g # NextId
  BY <1>1, CreateFacts
<1>. DEFINE n == NextId
<1>. HIDE DEF n
<1>3. NoteShape' /\ MakerShape'
  BY <1>1, <1>2 DEF NoteShape, MakerShape
<1>4. ASSUME NEW g \in Ids, games[g] # "none", g \in Held' PROVE g \in Held
  BY <1>2, <1>4
<1>5. Pairing'
  BY <1>1, <1>4 DEF Pairing, MakerShape, Placed, InHand, Seating
<1>6. SeatsKept'
  <2>1. ASSUME NEW p \in Players, results'[p] \in Held' PROVE results[p] \in Held
    BY <1>1, <1>4, <2>1 DEF NoteShape, Held, Ids, NoGame
  <2>. QED
    BY <1>1, <2>1 DEF SeatsKept
<1>. QED
  BY <1>1, <1>2, <1>3, <1>5, <1>6, SameMatching

LEMMA JoinGameStep ==
  ASSUME MatchInv, NEW p \in Players, NEW g \in Ids, JoinGame(p, g)
  PROVE  MatchInv'
<1>. USE DEF MatchInv
<1>1. Join(p, g) /\ UNCHANGED <<queue, maker, results, matched, wish>>
  BY DEF JoinGame, notes
<1>2. /\ RoomShape' /\ Held' = Held
      /\ \A h \in Ids : seats[h] \subseteq seats'[h] /\ (games[h] # "none" => games'[h] # "none")
  BY <1>1, JoinFacts
<1>3. NoteShape' /\ SeatsKept'
  BY <1>1, <1>2, SeatsTaken
<1>4. MakerShape'
  BY <1>1, <1>2 DEF MakerShape
<1>5. Pairing'
  BY <1>1, <1>2 DEF Pairing, Placed, InHand, MakerShape
<1>. QED
  BY <1>1, <1>2, <1>3, <1>4, <1>5, SameMatching

LEMMA RemoveGameStep ==
  ASSUME MatchInv, NEW g \in Ids, RemoveGame(g)
  PROVE  MatchInv'
<1>. USE DEF MatchInv
<1>1. /\ games' = [games EXCEPT ![g] = "removed"] /\ seats' = [seats EXCEPT ![g] = {}]
      /\ matched' = [matched EXCEPT ![g] = {}] /\ UNCHANGED <<queue, maker, results, wish>>
  BY DEF RemoveGame
<1>2. /\ games' \in [Ids -> GameStates] /\ games'[g] = "removed"
      /\ seats' \in [Ids -> SUBSET Players] /\ seats'[g] = {}
      /\ matched' \in [Ids -> SUBSET Players]
      /\ \A h \in Ids : h # g => /\ games'[h] = games[h] /\ seats'[h] = seats[h]
                                 /\ matched'[h] = matched[h]
  BY <1>1 DEF RoomShape, NoteShape, GameStates
<1>3. Held' \subseteq Held /\ g \notin Held' /\ Held' \subseteq Ids
  BY <1>2 DEF Held
<1>4. Cardinality(Held') <= MaxGames
  <2>1. Cardinality(Held') <= Cardinality(Held) /\ IsFiniteSet(Held')
    BY <1>3, HeldIsFinite, FS_Subset
  <2>2. Cardinality(Held') \in Nat
    BY <2>1, FS_CardinalityType
  <2>. QED
    BY <2>1, <2>2, HeldIsFinite, LimitsAreNumbers DEF RoomShape
<1>5. RoomShape'
  BY <1>2, <1>4 DEF RoomShape
<1>6. NoteShape' /\ MakerShape'
  BY <1>1, <1>2 DEF NoteShape, MakerShape
<1>7. Pairing'
  BY <1>1, <1>2, <1>3 DEF Pairing, Placed, InHand, MakerShape
<1>8. SeatsKept'
  BY <1>1, <1>2, <1>3 DEF SeatsKept
<1>. QED
  BY <1>1, <1>5, <1>6, <1>7, <1>8, SameMatching

-----------------------------------------------------------------------------
(* The theorems *)

LEMMA InitMatchInv == Init => MatchInv
<1>1. SUFFICES ASSUME Init PROVE MatchInv
  OBVIOUS
<1>2. Held = {} /\ Cardinality({}) = 0
  BY <1>1, FS_EmptySet DEF Init, Held
<1>3. QueueShape /\ MakerShape /\ NoteShape
  BY <1>1, LimitsAreNumbers
  DEF Init, QueueShape, Distinct, MakerShape, NoteShape, Idle, NoGame, Seating
<1>4. RoomShape
  BY <1>1, <1>2, LimitsAreNumbers DEF Init, RoomShape, GameStates
<1>5. Pairing /\ NobodyForgotten /\ SeatsKept
  BY <1>1, <1>2 DEF Init, Pairing, NobodyForgotten, SeatsKept, Idle, Seating, expecting
<1>. QED
  BY <1>3, <1>4, <1>5 DEF MatchInv

LEMMA NextMatchInv == MatchInv /\ [Next]_vars => MatchInv'
<1>1. SUFFICES ASSUME MatchInv, [Next]_vars PROVE MatchInv'
  OBVIOUS
<1>. USE <1>1
<1>2. CASE TimePasses
  BY <1>2, TimePassesStep
<1>3. CASE MatchLoop
  BY <1>3, FindMatchStep, CreateMatchStep, RequeueStep, SeatFirstStep, SeatSecondStep, TellStep
     DEF MatchLoop
<1>4. CASE CreateGame
  BY <1>4, CreateGameStep
<1>5. CASE \E p \in Players : JoinQueue(p) \/ LeaveQueue(p) \/ HearMatch(p)
  BY <1>5, JoinQueueStep, LeaveQueueStep, HearMatchStep
<1>6. CASE \E g \in Ids : RemoveGame(g) \/ \E p \in Players : JoinGame(p, g)
  BY <1>6, RemoveGameStep, JoinGameStep
<1>7. CASE UNCHANGED vars
  <2>1. UNCHANGED <<queue, maker, results, rooms, matched, wish>>
    BY <1>7 DEF vars, notes
  <2>2. NoteShape'
    BY <2>1, SameRooms DEF MatchInv, NoteShape
  <2>. QED
    BY <2>1, <2>2, SameRooms, SameMaker, SameMatching DEF MatchInv
<1>. QED
  BY <1>2, <1>3, <1>4, <1>5, <1>6, <1>7 DEF Next

(* The inductive invariant holds in every reachable state. *)
THEOREM MatchmakingInvariant == Spec => []MatchInv
BY InitMatchInv, NextMatchInv, PTL DEF Spec

(* Types: the queue, the manager and every game keep within their limits
   (MatchmakingQueue::add, GameManager::create_game, Game::add_player). *)
THEOREM MatchmakingTypeCorrect == Spec => []TypeOK
<1>1. MatchInv => TypeOK
  <2>1. SUFFICES ASSUME MatchInv PROVE TypeOK
    OBVIOUS
  <2>. USE <2>1 DEF MatchInv
  <2>2. queue \in Seq([player : Players, waited : 0 .. MaxWait]) /\ Len(queue) <= MaxQueue
    BY DEF QueueShape, Entries
  <2>3. /\ maker.step \in {"idle", "matched", "requeue", "seat", "second", "tell"}
        /\ maker.pair \in Seq([player : Players, waited : 0 .. MaxWait])
        /\ maker.game \in Ids \cup {NoGame}
    BY DEF MakerShape, Seating, Entries
  <2>4. ASSUME NEW g \in Ids PROVE seats[g] \subseteq Players /\ Cardinality(seats[g]) <= 2
    <3>1. seats[g] = {} \/ \E p, q \in Players : seats[g] = {p, q}
      BY DEF RoomShape
    <3>2. Cardinality({}) <= 2
      BY FS_EmptySet
    <3>3. \A p, q \in Players : Cardinality({p, q}) <= 2
      <4>1. TAKE p, q \in Players
      <4>2. {p, q} = {p} \cup {q} /\ IsFiniteSet({p}) /\ Cardinality({p}) = 1
        BY FS_Singleton
      <4>3. Cardinality({p} \cup {q}) = IF q \in {p} THEN 1 ELSE 2
        BY <4>2, FS_AddElement
      <4>. QED
        BY <4>2, <4>3
    <3>. QED
      BY <3>1, <3>2, <3>3
  <2>. QED
    BY <2>2, <2>3, <2>4 DEF TypeOK, NoteShape, RoomShape
<1>. QED
  BY <1>1, MatchmakingInvariant, PTL

(* Nobody is queued twice or matched with herself, nobody who expects a game is
   lost between the queue, the match loop and the results, and a result is a seat
   (MatchmakingQueue, Matchmaker::match_loop, MatchmakingServiceImpl). *)
THEOREM EveryPlayerAccounted == Spec => []PlayersAccounted
<1>1. MatchInv => PlayersAccounted
  BY DEF MatchInv, PlayersAccounted, QueuedOnce, QueueShape, Distinct, MakerShape
<1>. QED
  BY <1>1, MatchmakingInvariant, PTL

=============================================================================
