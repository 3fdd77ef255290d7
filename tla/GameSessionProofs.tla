--------------------------- MODULE GameSessionProofs ---------------------------
(***************************************************************************)
(* Proofs about GameSession, for any two players, lengths of queue and     *)
(* numbers of streams, calls and retries: type correctness, the state and  *)
(* the result of a game fit its players, nothing is done in the name of a  *)
(* player that he did not ask for, a finished game stays finished, and     *)
(* only the absent lose for absence.                                       *)
(*                                                                         *)
(* The inductive invariant SessionInv says what the state of the game has  *)
(* to do with its thread (Lives), and that everything asked for was meant  *)
(* already in the queues, in the action that has been taken, and in the    *)
(* open requests (AllMeant).  That the game only evolves, its losses being *)
(* for good and its outcome changing only by its end, is a relation of two *)
(* games (Evolves), proved once of each operator and composed.             *)
(***************************************************************************)
EXTENDS GameSession, FiniteSetTheorems, SequenceTheorems, WellFoundedInduction, TLAPS

-----------------------------------------------------------------------------
(* The inductive invariant *)

AnyGame ==
  [state : {"WaitingForPlayers", "WaitingForDecks", "InProgress", "Paused", "Finished"},
   running : BOOLEAN, cause : [Players -> Causes], pending : SUBSET Players,
   offer : Players \cup {None}, result : Players \cup {"none", "draw", "agreed"},
   auto : SUBSET Players]

(* Types of the lobby, the connections and the queues. *)
LobbyTyped ==
  /\ joined \in SUBSET Players /\ decks \in SUBSET joined
  /\ starting \in SUBSET decks /\ leaving \in SUBSET joined

LinksTyped ==
  /\ streams \in [Players -> 0 .. MaxStreams]
  /\ \A p \in Players : streams[p] > 0 => p \in joined
  /\ connected \in SUBSET joined /\ away \in SUBSET (joined \ connected)
  /\ stale \in SUBSET away

AnyQueues == {q \in [Players -> Seq(Actions)] : \A p \in Players : Len(q[p]) <= MaxPending}

(* In these steps the game thread waits for holder, and has not yet discarded *)
(* as many stale actions as it may.                                           *)
Waits == {"connect", "paused", "take", "answer"}

Points == {"idle", "head", "combat", "connect", "paused", "take", "clock", "ask", "answer",
           "state", "end", "over"}

ThreadTyped ==
  /\ pc \in Points /\ purpose \in {"priority", "combat"}
  /\ holder \in Players \cup {None} /\ prompt \in Players \cup {None}
  /\ attempt \in 0 .. MaxStale /\ action \in Actions
  /\ pc \in Waits \cup {"clock"} => holder \in Players
  /\ pc \in Waits => attempt < MaxStale

Asked == [Players -> SUBSET (Requests \cup {"reaped"})]

Typed ==
  /\ game \in AnyGame /\ LobbyTyped /\ queue \in AnyQueues /\ LinksTyped /\ ThreadTyped
  /\ expired \in SUBSET Players /\ stopped \in BOOLEAN /\ calls \in 0 .. MaxCalls
  /\ meant \in Asked

(* What the state of a game says, and what its thread does. *)
Lives ==
  /\ pc = "idle" <=> game.state \in {"WaitingForPlayers", "WaitingForDecks"}
  /\ pc \in {"idle", "over"} => ~game.running
  /\ game.state = "WaitingForPlayers" <=> joined # Players
  /\ game.state = "Finished" => ~game.running
  /\ pc # "idle" /\ ~game.running /\ ~stopped => game.state = "Finished" /\ game.result # "none"

(* An action in a player's queue that asks for something was asked for by him, *)
(* a forced concession by the reaper.                                          *)
MeantBy(p, a, asked) ==
  /\ a.kind \in Requests => a.kind \in asked[p]
  /\ a.kind = "forced" => "reaped" \in asked[p]

QueueMeant(q, asked) == \A p \in Players : \A i \in 1 .. Len(q[p]) : MeantBy(p, q[p][i], asked)

(* So were the requests that have been processed, and what came of them. *)
GameMeant(g, asked) ==
  /\ \A p \in g.pending : "concede_request" \in asked[p]
  /\ g.offer # None => "draw_offer" \in asked[g.offer]
  /\ \A p \in Players : g.cause[p] = "conceded" => "concede_request" \in asked[p]
  /\ \A p \in Players : g.cause[p] = "forced" => "reaped" \in asked[p]
  /\ g.result = "agreed" =>
       \E p \in Players : "draw_offer" \in asked[p] /\ "accept" \in asked[Other(p)]

AllMeant ==
  /\ GameMeant(game, meant) /\ QueueMeant(queue, meant)
  /\ pc = "clock" => MeantBy(holder, action, meant)

SessionInv == Typed /\ Lives /\ StartsWhenReady /\ ResultFitsLosses /\ AllMeant

-----------------------------------------------------------------------------
(* The two players *)

(* A game has two players, each the other's opponent. *)
LEMMA TwoPlayers ==
  /\ \A p \in Players : /\ Other(p) \in Players /\ Other(p) # p
                        /\ \A q \in Players : q = p \/ q = Other(p)
  /\ \A p \in Players : Other(Other(p)) = p
<1>. IsFiniteSet(Players) /\ Cardinality(Players) = 2
  BY PlayersAssumption
<1>1. ASSUME NEW p \in Players
      PROVE  \E q \in Players : q # p /\ Players \ {p} = {q}
  <2>1. IsFiniteSet(Players \ {p}) /\ Cardinality(Players \ {p}) = 1
    BY FS_RemoveElement
  <2>. QED
    BY <2>1, FS_Singleton
<1>2. \A p \in Players : /\ Other(p) \in Players /\ Other(p) # p
                         /\ \A q \in Players : q = p \/ q = Other(p)
  BY <1>1 DEF Other
<1>. QED
  BY <1>2

(* The win check finds somebody out whenever not everybody is in. *)
LEMMA FewAlive ==
  ASSUME NEW g \in AnyGame
  PROVE  Cardinality(Alive(g)) <= 1 <=> \E p \in Players : g.cause[p] # "in"
<1>. IsFiniteSet(Players) /\ Cardinality(Players) = 2
  BY PlayersAssumption
<1>1. Alive(g) \in SUBSET Players
  BY DEF Alive
<1>2. /\ Cardinality(Alive(g)) \in Nat /\ Cardinality(Alive(g)) <= 2
      /\ Cardinality(Alive(g)) = 2 => Alive(g) = Players
  BY <1>1, FS_Subset, FS_CardinalityType
<1>3. Cardinality(Alive(g)) <= 1 <=> Alive(g) # Players
  BY <1>2
<1>. QED
  BY <1>3 DEF Alive

-----------------------------------------------------------------------------
(* How the game object evolves *)

(* The results that are no players are not taken for one. *)
LEMMA NoSuchPlayer == {None, "none", "draw", "agreed"} \cap Players = {}
BY PlayersAssumption

(* A loss is for good, new ones are among why, and the state, whether the game *)
(* runs and the result change only together, to a finished game whose winner's *)
(* opponent has lost.                                                          *)
SameOutcome(g, h) == h.state = g.state /\ h.running = g.running /\ h.result = g.result

HasEnded(h) ==
  /\ h.state = "Finished" /\ ~h.running /\ h.result # "none"
  /\ h.result \in Players => h.cause[Other(h.result)] # "in"

NewLosses(g, h, why) ==
  \A p \in Players : h.cause[p] # g.cause[p] => g.cause[p] = "in" /\ h.cause[p] \in why

Evolves(g, h, why) == NewLosses(g, h, why) /\ (SameOutcome(g, h) \/ HasEnded(h))

(* Causes of a loss that any thread may come upon, the other being absence. *)
Fair == {"rules", "conceded", "forced", "clock", "left"}

LEMMA EvolvesSame ==
  ASSUME NEW g, NEW why
  PROVE  Evolves(g, g, why)
BY DEF Evolves, NewLosses, SameOutcome

LEMMA EvolvesTwice ==
  ASSUME NEW g \in AnyGame, NEW h \in AnyGame, NEW k \in AnyGame, NEW why,
         "in" \notin why, Evolves(g, h, why), Evolves(h, k, why)
  PROVE  Evolves(g, k, why)
<1>1. NewLosses(g, k, why)
  BY DEF Evolves, NewLosses
<1>2. CASE HasEnded(k)
  BY <1>1, <1>2 DEF Evolves
<1>3. CASE SameOutcome(h, k) /\ SameOutcome(g, h)
  BY <1>1, <1>3 DEF Evolves, SameOutcome
<1>4. CASE SameOutcome(h, k) /\ HasEnded(h)
  <2>1. k.result \in Players => k.cause[Other(k.result)] # "in"
    BY <1>4, TwoPlayers DEF Evolves, NewLosses, SameOutcome, HasEnded
  <2>. QED
    BY <1>1, <1>4, <2>1 DEF Evolves, SameOutcome, HasEnded
<1>. QED
  BY <1>2, <1>3, <1>4 DEF Evolves

LEMMA EliminateEvolves ==
  ASSUME NEW g \in AnyGame, NEW p \in Players, NEW why \in Causes \ {"in"}
  PROVE  /\ Eliminate(g, p, why) \in AnyGame
         /\ Eliminate(g, p, why).cause[p] # "in"
         /\ Evolves(g, Eliminate(g, p, why), {why})
         /\ SameOutcome(g, Eliminate(g, p, why))
         /\ Eliminate(g, p, why).pending = g.pending
         /\ Eliminate(g, p, why).offer = g.offer
         /\ \A q \in Players \ {p} : Eliminate(g, p, why).cause[q] = g.cause[q]
BY DEF Eliminate, AnyGame, Causes, Evolves, NewLosses, SameOutcome

LEMMA WinnerIsIn ==
  ASSUME NEW g \in AnyGame
  PROVE  Winner(g) = "draw" \/ (Winner(g) \in Players /\ g.cause[Winner(g)] = "in")
<1>1. CASE Alive(g) = {}
  BY <1>1 DEF Winner
<1>2. CASE \E p \in Players : p \in Alive(g)
  BY <1>2 DEF Winner, Alive
<1>. QED
  BY <1>1, <1>2 DEF Alive

(* The win check leaves a game in which everybody is in; it ends any other, *)
(* with the player who is still in, if there is one, as its winner.         *)
LEMMA CheckWinEvolves ==
  ASSUME NEW g \in AnyGame
  PROVE  /\ CheckWin(g) \in AnyGame
         /\ Evolves(g, CheckWin(g), {})
         /\ CheckWin(g).cause = g.cause
         /\ CheckWin(g).pending = g.pending /\ CheckWin(g).offer = g.offer
         /\ (\A p \in Players : g.cause[p] = "in") => CheckWin(g) = g
         /\ (\E p \in Players : g.cause[p] # "in") =>
              /\ HasEnded(CheckWin(g)) /\ CheckWin(g).result = Winner(g)
<1>. DEFINE w == Winner(g)
            ended == [g EXCEPT !.result = w, !.state = "Finished", !.running = FALSE]
<1>1. w = "draw" \/ (w \in Players /\ g.cause[w] = "in")
  BY WinnerIsIn
<1>2. CASE \A p \in Players : g.cause[p] = "in"
  <2>1. CheckWin(g) = g
    BY <1>2, FewAlive DEF CheckWin
  <2>. QED
    BY <1>2, <2>1, EvolvesSame
<1>3. CASE \E p \in Players : g.cause[p] # "in"
  <2>1. CheckWin(g) = ended
    BY <1>3, FewAlive DEF CheckWin
  <2>2. w \in Players => g.cause[Other(w)] # "in"
    BY <1>1, <1>3, TwoPlayers, NoSuchPlayer
  <2>. HIDE DEF w
  <2>3. ended \in AnyGame /\ ended.cause = g.cause /\ HasEnded(ended)
    BY <1>1, <2>2, NoSuchPlayer DEF AnyGame, HasEnded
  <2>4. Evolves(g, ended, {}) /\ ended.result = w
    BY <2>3 DEF Evolves, NewLosses, AnyGame
  <2>5. ended.pending = g.pending /\ ended.offer = g.offer
    BY DEF AnyGame
  <2>. QED
    BY <1>3, <2>1, <2>3, <2>4, <2>5 DEF w
<1>. QED
  BY <1>2, <1>3

-----------------------------------------------------------------------------
(* What the players asked for, through process_action *)

(* Whatever neither concedes for anybody, nor asks for anything, nor agrees on *)
(* a draw leaves GameMeant true.                                               *)
LEMMA MeantKept ==
  ASSUME NEW g \in AnyGame, NEW h \in AnyGame, NEW asked \in Asked,
         GameMeant(g, asked), h.pending \subseteq g.pending, h.offer \in {g.offer, None},
         \A p \in Players : h.cause[p] \in {"conceded", "forced"} => h.cause[p] = g.cause[p],
         h.result = "agreed" => g.result = "agreed"
  PROVE  GameMeant(h, asked)
BY DEF GameMeant, AnyGame

LEMMA CheckWinMeant ==
  ASSUME NEW g \in AnyGame, NEW asked \in Asked, GameMeant(g, asked)
  PROVE  GameMeant(CheckWin(g), asked)
<1>. DEFINE h == CheckWin(g)
<1>1. h \in AnyGame /\ h.cause = g.cause /\ h.pending = g.pending /\ h.offer = g.offer
  BY CheckWinEvolves
<1>2. h.result = "agreed" => g.result = "agreed"
  BY CheckWinEvolves, WinnerIsIn, NoSuchPlayer
<1>. HIDE DEF h
<1>3. GameMeant(h, asked)
  BY <1>1, <1>2, MeantKept
<1>. QED
  BY <1>3 DEF h

(* A player's own loss, which may be his concession. *)
LEMMA EliminateMeant ==
  ASSUME NEW g \in AnyGame, NEW asked \in Asked, GameMeant(g, asked),
         NEW p \in Players, NEW why \in Causes \ {"in"},
         why = "conceded" => "concede_request" \in asked[p],
         why = "forced" => "reaped" \in asked[p]
  PROVE  GameMeant(Eliminate(g, p, why), asked)
BY DEF Eliminate, GameMeant, AnyGame, Causes

LEMMA LosesEvolves ==
  ASSUME NEW g \in AnyGame, NEW p \in Players, NEW why \in Causes \ {"in"}
  PROVE  /\ Loses(g, p, why) \in AnyGame
         /\ Evolves(g, Loses(g, p, why), {why})
         /\ \A q \in Players \ {p} : Loses(g, p, why).cause[q] = g.cause[q]
<1>. DEFINE e == Eliminate(g, p, why)
<1>1. /\ e \in AnyGame /\ Evolves(g, e, {why})
      /\ \A q \in Players \ {p} : e.cause[q] = g.cause[q]
  BY EliminateEvolves
<1>. HIDE DEF e
<1>2. CheckWin(e) \in AnyGame /\ Evolves(e, CheckWin(e), {why}) /\ CheckWin(e).cause = e.cause
  BY <1>1, CheckWinEvolves DEF Evolves, NewLosses
<1>3. Evolves(g, CheckWin(e), {why})
  BY <1>1, <1>2, EvolvesTwice
<1>4. Loses(g, p, why) \in {g, CheckWin(e)}
  BY DEF Loses, e
<1>. QED
  BY <1>1, <1>2, <1>3, <1>4, EvolvesSame

LEMMA LosesMeant ==
  ASSUME NEW g \in AnyGame, NEW asked \in Asked, GameMeant(g, asked),
         NEW p \in Players, NEW why \in {"absent", "clock"}
  PROVE  GameMeant(Loses(g, p, why), asked)
<1>. DEFINE e == Eliminate(g, p, why)
<1>1. why \in Causes \ {"in"}
  BY DEF Causes
<1>2. e \in AnyGame /\ GameMeant(e, asked)
  BY <1>1, EliminateEvolves, EliminateMeant
<1>. HIDE DEF e
<1>3. GameMeant(CheckWin(e), asked)
  BY <1>2, CheckWinMeant
<1>. QED
  BY <1>3 DEF Loses, e

LEMMA ConcedeEvolves ==
  ASSUME NEW g \in AnyGame, NEW p \in Players, NEW forced \in BOOLEAN
  PROVE  /\ Concede(g, p, forced) \in AnyGame
         /\ Evolves(g, Concede(g, p, forced), Fair)
         /\ \A asked \in Asked :
              /\ GameMeant(g, asked)
              /\ forced => "reaped" \in asked[p]
              => GameMeant(Concede(g, p, forced), asked)
<1>. DEFINE f == [g EXCEPT !.pending = @ \ {p}]
            why == IF forced THEN "forced" ELSE "conceded"
            e == Eliminate(f, p, why)
<1>1. f \in AnyGame /\ NewLosses(g, f, Fair) /\ SameOutcome(g, f)
  BY DEF AnyGame, NewLosses, SameOutcome
<1>2. why \in Causes \ {"in"} /\ why \in Fair
  BY DEF Causes, Fair
<1>. HIDE DEF f, why
<1>3. e \in AnyGame /\ Evolves(f, e, Fair)
  BY <1>1, <1>2, EliminateEvolves DEF Evolves, NewLosses
<1>. HIDE DEF e
<1>4. CheckWin(e) \in AnyGame /\ Evolves(e, CheckWin(e), Fair)
  BY <1>3, CheckWinEvolves DEF Evolves, NewLosses
<1>5. Evolves(g, CheckWin(e), Fair)
  <2>1. "in" \notin Fair /\ Evolves(g, f, Fair)
    BY <1>1 DEF Fair, Evolves
  <2>. QED
    BY <1>1, <1>3, <1>4, <2>1, EvolvesTwice
<1>6. Concede(g, p, forced) = IF ~forced /\ p \notin g.pending THEN g ELSE CheckWin(e)
  BY DEF Concede, e, f, why
<1>7. ASSUME NEW asked \in Asked, GameMeant(g, asked), forced => "reaped" \in asked[p],
             forced \/ p \in g.pending
      PROVE  GameMeant(CheckWin(e), asked)
  <2>1. GameMeant(f, asked)
    BY <1>7, <1>1, MeantKept DEF f, AnyGame
  <2>2. why = "conceded" => "concede_request" \in asked[p]
    BY <1>7 DEF why, GameMeant
  <2>3. why = "forced" => "reaped" \in asked[p]
    BY <1>7 DEF why
  <2>4. GameMeant(e, asked)
    BY <1>1, <1>2, <2>1, <2>2, <2>3, EliminateMeant DEF e
  <2>. QED
    BY <1>3, <2>4, CheckWinMeant
<1>8. CASE ~forced /\ p \notin g.pending
  BY <1>6, <1>8, EvolvesSame
<1>9. CASE forced \/ p \in g.pending
  BY <1>4, <1>5, <1>6, <1>7, <1>9
<1>. QED
  BY <1>8, <1>9

LEMMA RespondEvolves ==
  ASSUME NEW g \in AnyGame, NEW p \in Players, NEW accepted \in BOOLEAN
  PROVE  /\ Respond(g, p, accepted) \in AnyGame
         /\ Evolves(g, Respond(g, p, accepted), Fair)
         /\ \A asked \in Asked :
              /\ GameMeant(g, asked)
              /\ accepted => "accept" \in asked[p]
              => GameMeant(Respond(g, p, accepted), asked)
<1>. DEFINE agreed == [g EXCEPT !.result = "agreed", !.state = "Finished", !.running = FALSE]
            declined == [g EXCEPT !.offer = None]
<1>1. CASE g.offer \in {None, p}
  BY <1>1, EvolvesSame DEF Respond
<1>2. CASE g.offer \notin {None, p} /\ accepted
  <2>1. Respond(g, p, accepted) = agreed
    BY <1>2 DEF Respond
  <2>2. agreed \in AnyGame /\ Evolves(g, agreed, Fair)
    BY NoSuchPlayer DEF AnyGame, Evolves, NewLosses, HasEnded
  <2>3. g.offer \in Players /\ p = Other(g.offer)
    BY <1>2, TwoPlayers DEF AnyGame
  <2>4. ASSUME NEW asked \in Asked, GameMeant(g, asked), "accept" \in asked[p]
        PROVE  GameMeant(agreed, asked)
    BY <1>2, <2>3, <2>4 DEF GameMeant, AnyGame
  <2>. HIDE DEF agreed
  <2>. QED
    BY <1>2, <2>1, <2>2, <2>4
<1>3. CASE g.offer \notin {None, p} /\ ~accepted
  <2>1. Respond(g, p, accepted) = declined
    BY <1>3 DEF Respond
  <2>2. declined \in AnyGame /\ Evolves(g, declined, Fair)
    BY DEF AnyGame, Evolves, NewLosses, SameOutcome
  <2>3. ASSUME NEW asked \in Asked, GameMeant(g, asked)
        PROVE  GameMeant(declined, asked)
    BY <2>2, <2>3, MeantKept DEF AnyGame
  <2>. HIDE DEF declined
  <2>. QED
    BY <2>1, <2>2, <2>3
<1>. QED
  BY <1>1, <1>2, <1>3

LEMMA ProcessIs ==
  ASSUME NEW g, NEW p, NEW a
  PROVE  \/ a.kind = "concede_request" /\ Process(g, p, a) = [g EXCEPT !.pending = @ \cup {p}]
         \/ Process(g, p, a) = Concede(g, p, FALSE)
         \/ Process(g, p, a) = [g EXCEPT !.pending = @ \ {p}]
         \/ a.kind = "forced" /\ Process(g, p, a) = Concede(g, p, TRUE)
         \/ /\ a.kind = "draw_offer"
            /\ Process(g, p, a) = IF g.offer = None THEN [g EXCEPT !.offer = p] ELSE g
         \/ a.kind = "accept" /\ Process(g, p, a) = Respond(g, p, TRUE)
         \/ Process(g, p, a) = Respond(g, p, FALSE)
         \/ Process(g, p, a) = [g EXCEPT !.auto = @ \cup {p}]
         \/ Process(g, p, a) = [g EXCEPT !.auto = @ \ {p}]
         \/ Process(g, p, a) = g
BY Zenon DEF Process

(* An action that the players meant, and what process_action makes of it. *)
LEMMA ProcessEvolves ==
  ASSUME NEW g \in AnyGame, NEW p \in Players, NEW a \in Actions
  PROVE  /\ Process(g, p, a) \in AnyGame
         /\ Evolves(g, Process(g, p, a), Fair)
         /\ \A asked \in Asked :
              GameMeant(g, asked) /\ MeantBy(p, a, asked) => GameMeant(Process(g, p, a), asked)
<1>. DEFINE h == Process(g, p, a)
<1>1. CASE a.kind = "concede_request" /\ h = [g EXCEPT !.pending = @ \cup {p}]
  <2>1. h \in AnyGame /\ Evolves(g, h, Fair)
    BY <1>1 DEF AnyGame, Evolves, NewLosses, SameOutcome
  <2>2. ASSUME NEW asked \in Asked, GameMeant(g, asked), MeantBy(p, a, asked)
        PROVE  GameMeant(h, asked)
    BY <1>1, <2>2 DEF GameMeant, MeantBy, Requests, AnyGame
  <2>. QED
    BY <2>1, <2>2
<1>2. CASE h = Concede(g, p, FALSE)
  BY <1>2, ConcedeEvolves
<1>3. CASE h \in {[g EXCEPT !.pending = @ \ {p}], [g EXCEPT !.auto = @ \cup {p}],
                  [g EXCEPT !.auto = @ \ {p}], g}
  <2>1. h \in AnyGame /\ Evolves(g, h, Fair)
    BY <1>3 DEF AnyGame, Evolves, NewLosses, SameOutcome
  <2>2. /\ h.pending \subseteq g.pending /\ h.offer = g.offer /\ h.cause = g.cause
        /\ h.result = g.result
    BY <1>3 DEF AnyGame
  <2>. HIDE DEF h
  <2>3. ASSUME NEW asked \in Asked, GameMeant(g, asked)
        PROVE  GameMeant(h, asked)
    BY <2>1, <2>2, <2>3, MeantKept
  <2>. QED
    BY <2>1, <2>3 DEF h
<1>4. CASE a.kind = "forced" /\ h = Concede(g, p, TRUE)
  BY <1>4, ConcedeEvolves DEF MeantBy
<1>5. CASE a.kind = "draw_offer" /\ h = IF g.offer = None THEN [g EXCEPT !.offer = p] ELSE g
  <2>1. h \in AnyGame /\ Evolves(g, h, Fair)
    BY <1>5 DEF AnyGame, Evolves, NewLosses, SameOutcome
  <2>2. ASSUME NEW asked \in Asked, GameMeant(g, asked), MeantBy(p, a, asked)
        PROVE  GameMeant(h, asked)
    BY <1>5, <2>2 DEF GameMeant, MeantBy, Requests, AnyGame
  <2>. QED
    BY <2>1, <2>2
<1>6. CASE a.kind = "accept" /\ h = Respond(g, p, TRUE)
  BY <1>6, RespondEvolves DEF MeantBy, Requests
<1>7. CASE h = Respond(g, p, FALSE)
  BY <1>7, RespondEvolves
<1>8. \/ a.kind = "concede_request" /\ h = [g EXCEPT !.pending = @ \cup {p}]
      \/ h = Concede(g, p, FALSE)
      \/ h \in {[g EXCEPT !.pending = @ \ {p}], [g EXCEPT !.auto = @ \cup {p}],
                [g EXCEPT !.auto = @ \ {p}], g}
      \/ a.kind = "forced" /\ h = Concede(g, p, TRUE)
      \/ a.kind = "draw_offer" /\ h = IF g.offer = None THEN [g EXCEPT !.offer = p] ELSE g
      \/ a.kind = "accept" /\ h = Respond(g, p, TRUE)
      \/ h = Respond(g, p, FALSE)
  BY ProcessIs, Zenon
<1>. QED
  BY <1>1, <1>2, <1>3, <1>4, <1>5, <1>6, <1>7, <1>8, Zenon

-----------------------------------------------------------------------------
(* Queues *)

(* Of a set of positions in a queue one comes first. *)
LEMMA FirstOf ==
  ASSUME NEW at \in SUBSET Nat, at # {}
  PROVE  \E i \in at : \A j \in at : i <= j
<1>1. PICK i \in at : \A j \in at : <<j, i>> \notin OpToRel(<, Nat)
  BY WFMin, NatLessThanWellFounded
<1>2. \A j \in at : ~(j < i)
  BY <1>1 DEF OpToRel
<1>. QED
  BY <1>2

(* A queue that is replaced by one with no other actions. *)
LEMMA QueueReplaced ==
  ASSUME NEW q \in AnyQueues, NEW p \in Players, NEW s \in Seq(Actions),
         Len(s) <= MaxPending
  PROVE  /\ [q EXCEPT ![p] = s] \in AnyQueues
         /\ \A asked \in Asked :
              /\ QueueMeant(q, asked)
              /\ \A i \in 1 .. Len(s) :
                   \/ MeantBy(p, s[i], asked)
                   \/ \E j \in 1 .. Len(q[p]) : s[i] = q[p][j]
              => QueueMeant([q EXCEPT ![p] = s], asked)
<1>1. [q EXCEPT ![p] = s] \in AnyQueues
  BY DEF AnyQueues
<1>2. ASSUME NEW asked \in Asked, QueueMeant(q, asked),
             \A i \in 1 .. Len(s) : \/ MeantBy(p, s[i], asked)
                                    \/ \E j \in 1 .. Len(q[p]) : s[i] = q[p][j]
      PROVE  QueueMeant([q EXCEPT ![p] = s], asked)
  <2>1. SUFFICES ASSUME NEW r \in Players, NEW i \in 1 .. Len([q EXCEPT ![p] = s][r])
                 PROVE  MeantBy(r, [q EXCEPT ![p] = s][r][i], asked)
    BY DEF QueueMeant
  <2>2. CASE r = p
    <3>1. [q EXCEPT ![p] = s][r] = s
      BY <2>2 DEF AnyQueues
    <3>2. MeantBy(p, s[i], asked)
      BY <1>2, <2>1, <3>1 DEF QueueMeant
    <3>. QED
      BY <2>2, <3>1, <3>2
  <2>3. CASE r # p
    <3>1. [q EXCEPT ![p] = s][r] = q[r]
      BY <2>3 DEF AnyQueues
    <3>. QED
      BY <1>2, <2>1, <3>1 DEF QueueMeant
  <2>. QED
    BY <2>2, <2>3
<1>. QED
  BY <1>1, <1>2

LEMMA SubmittedMeant ==
  ASSUME NEW q \in AnyQueues, NEW p \in Players, NEW a \in Actions
  PROVE  /\ Submitted(q, p, a) \in AnyQueues
         /\ \A asked \in Asked :
              QueueMeant(q, asked) /\ MeantBy(p, a, asked)
              => QueueMeant(Submitted(q, p, a), asked)
<1>. DEFINE s == Append(q[p], a)
<1>1. q[p] \in Seq(Actions) /\ Len(q[p]) \in Nat
  BY DEF AnyQueues
<1>2. /\ s \in Seq(Actions) /\ Len(s) = Len(q[p]) + 1
      /\ \A i \in 1 .. Len(q[p]) : s[i] = q[p][i]
      /\ s[Len(q[p]) + 1] = a
  BY <1>1, AppendProperties
<1>. HIDE DEF s
<1>3. CASE Len(q[p]) < MaxPending
  <2>1. Len(s) <= MaxPending
    BY <1>1, <1>2, <1>3, BoundsAssumption
  <2>2. \A i \in 1 .. Len(s) : s[i] = a \/ \E j \in 1 .. Len(q[p]) : s[i] = q[p][j]
    BY <1>1, <1>2
  <2>3. Submitted(q, p, a) = [q EXCEPT ![p] = s]
    BY <1>3 DEF Submitted, s, AnyQueues
  <2>4. [q EXCEPT ![p] = s] \in AnyQueues
    BY <1>2, <2>1, QueueReplaced
  <2>5. ASSUME NEW asked \in Asked, QueueMeant(q, asked), MeantBy(p, a, asked)
        PROVE  QueueMeant([q EXCEPT ![p] = s], asked)
    <3>1. \A i \in 1 .. Len(s) :
             MeantBy(p, s[i], asked) \/ \E j \in 1 .. Len(q[p]) : s[i] = q[p][j]
      BY <2>2, <2>5
    <3>. QED
      BY <1>2, <2>1, <2>5, <3>1, QueueReplaced
  <2>. QED
    BY <2>3, <2>4, <2>5
<1>4. CASE ~(Len(q[p]) < MaxPending)
  BY <1>4 DEF Submitted
<1>. QED
  BY <1>3, <1>4

LEMMA TailMeant ==
  ASSUME NEW q \in AnyQueues, NEW p \in Players, q[p] # <<>>
  PROVE  /\ [q EXCEPT ![p] = Tail(@)] \in AnyQueues
         /\ Head(q[p]) \in Actions
         /\ \A asked \in Asked :
              QueueMeant(q, asked) => /\ QueueMeant([q EXCEPT ![p] = Tail(@)], asked)
                                      /\ MeantBy(p, Head(q[p]), asked)
<1>. DEFINE s == Tail(q[p])
<1>1. q[p] \in Seq(Actions) /\ Len(q[p]) \in Nat \ {0} /\ Len(q[p]) <= MaxPending
  BY EmptySeq DEF AnyQueues
<1>2. /\ Head(q[p]) \in Actions /\ s \in Seq(Actions) /\ Len(s) = Len(q[p]) - 1
      /\ \A i \in 1 .. Len(s) : s[i] = q[p][i + 1]
  BY <1>1, HeadTailProperties
<1>3. Head(q[p]) = q[p][1]
  BY <1>1
<1>. HIDE DEF s
<1>4. Len(s) <= MaxPending
  BY <1>1, <1>2, BoundsAssumption
<1>5. \A i \in 1 .. Len(s) : \E j \in 1 .. Len(q[p]) : s[i] = q[p][j]
  <2>1. \A i \in 1 .. Len(s) : i + 1 \in 1 .. Len(q[p])
    BY <1>1, <1>2
  <2>. QED
    BY <1>2, <2>1
<1>6. [q EXCEPT ![p] = Tail(@)] = [q EXCEPT ![p] = s]
  BY DEF s
<1>7. \A asked \in Asked : QueueMeant(q, asked) => MeantBy(p, Head(q[p]), asked)
  BY <1>1, <1>3 DEF QueueMeant
<1>8. [q EXCEPT ![p] = s] \in AnyQueues
  BY <1>2, <1>4, QueueReplaced
<1>9. ASSUME NEW asked \in Asked, QueueMeant(q, asked)
      PROVE  QueueMeant([q EXCEPT ![p] = s], asked)
  <2>1. \A i \in 1 .. Len(s) :
           MeantBy(p, s[i], asked) \/ \E j \in 1 .. Len(q[p]) : s[i] = q[p][j]
    BY <1>5
  <2>. QED
    BY <1>2, <1>4, <1>9, <2>1, QueueReplaced
<1>. QED
  BY <1>2, <1>6, <1>7, <1>8, <1>9

LEMMA AgedMeant ==
  ASSUME NEW q \in AnyQueues
  PROVE  /\ Aged(q) \in AnyQueues
         /\ \A asked \in Asked : QueueMeant(q, asked) => QueueMeant(Aged(q), asked)
<1>1. ASSUME NEW p \in Players
      PROVE  /\ Aged(q)[p] \in Seq(Actions) /\ Len(Aged(q)[p]) = Len(q[p])
             /\ \A i \in 1 .. Len(q[p]) : Aged(q)[p][i].kind = q[p][i].kind
  <2>. DEFINE s == [i \in 1 .. Len(q[p]) |-> [q[p][i] EXCEPT !.fresh = FALSE]]
  <2>1. q[p] \in Seq(Actions) /\ Len(q[p]) \in Nat
    BY DEF AnyQueues
  <2>2. \A i \in 1 .. Len(q[p]) : q[p][i] \in Actions
    BY <2>1, ElementOfSeq
  <2>3. \A i \in 1 .. Len(q[p]) : s[i] \in Actions /\ s[i].kind = q[p][i].kind
    BY <2>2 DEF Actions
  <2>. DEFINE n == Len(q[p])
  <2>4. s \in [1 .. n -> Actions]
    BY <2>3
  <2>. HIDE DEF s, n
  <2>5. n \in Nat
    BY <2>1 DEF n
  <2>6. s \in Seq(Actions) /\ Len(s) = n
    BY <2>4, <2>5
  <2>7. Aged(q)[p] = s
    BY DEF Aged, s
  <2>. QED
    BY <2>3, <2>6, <2>7 DEF n
<1>2. Aged(q) \in AnyQueues
  <2>1. Aged(q) \in [Players -> Seq(Actions)]
    <3>1. DOMAIN Aged(q) = Players /\ Aged(q) = [p \in Players |-> Aged(q)[p]]
      BY DEF Aged
    <3>. QED
      BY <1>1, <3>1
  <2>. QED
    BY <1>1, <2>1 DEF AnyQueues
<1>3. ASSUME NEW asked \in Asked, QueueMeant(q, asked)
      PROVE  QueueMeant(Aged(q), asked)
  BY <1>1, <1>3 DEF QueueMeant, MeantBy
<1>. QED
  BY <1>2, <1>3

(* What processing an action out of a queue does to the game and the queues. *)
Pairs == [g : AnyGame, q : AnyQueues]

PairMeant(st, asked) == GameMeant(st.g, asked) /\ QueueMeant(st.q, asked)

Leads(st, next) ==
  /\ next \in Pairs
  /\ Evolves(st.g, next.g, Fair)
  /\ \A asked \in Asked : PairMeant(st, asked) => PairMeant(next, asked)

LEMMA LeadsSame ==
  ASSUME NEW st \in Pairs
  PROVE  Leads(st, st)
BY EvolvesSame DEF Leads

LEMMA LeadsTwice ==
  ASSUME NEW st \in Pairs, NEW mid, NEW next, Leads(st, mid), Leads(mid, next)
  PROVE  Leads(st, next)
<1>1. st.g \in AnyGame /\ mid.g \in AnyGame /\ next.g \in AnyGame
  BY DEF Leads, Pairs
<1>2. "in" \notin Fair
  BY DEF Fair
<1>3. Evolves(st.g, next.g, Fair)
  BY <1>1, <1>2, EvolvesTwice DEF Leads
<1>. QED
  BY <1>3 DEF Leads

LEMMA TakeIfLeads ==
  ASSUME NEW st \in Pairs, NEW p \in Players, NEW kinds
  PROVE  Leads(st, TakeIf(st, p, kinds))
<1>. DEFINE at == {i \in 1 .. Len(st.q[p]) : st.q[p][i].kind \in kinds}
            first == CHOOSE i \in at : \A j \in at : i <= j
            rest == SubSeq(st.q[p], 1, first - 1)
                    \o SubSeq(st.q[p], first + 1, Len(st.q[p]))
            next == [g |-> Process(st.g, p, st.q[p][first]),
                     q |-> [st.q EXCEPT ![p] = rest]]
<1>1. /\ st.g \in AnyGame /\ st.q \in AnyQueues
      /\ st.q[p] \in Seq(Actions) /\ Len(st.q[p]) \in Nat /\ Len(st.q[p]) <= MaxPending
  BY DEF Pairs, AnyQueues
<1>2. CASE at = {}
  BY <1>2, LeadsSame DEF TakeIf
<1>3. CASE at # {}
  <2>1. first \in 1 .. Len(st.q[p])
    <3>1. at \in SUBSET Nat /\ at \subseteq 1 .. Len(st.q[p])
      BY <1>1
    <3>2. \E i \in at : \A j \in at : i <= j
      BY <1>3, <3>1, FirstOf
    <3>. HIDE DEF at
    <3>. QED
      BY <3>1, <3>2
  <2>2. TakeIf(st, p, kinds) = next
    BY <1>3 DEF TakeIf
  <2>. HIDE DEF at, first
  <2>3. \A i \in 1 .. Len(st.q[p]) : st.q[p][i] \in Actions
    BY <1>1, ElementOfSeq
  <2>. DEFINE a == st.q[p][first]
              before == SubSeq(st.q[p], 1, first - 1)
              after == SubSeq(st.q[p], first + 1, Len(st.q[p]))
  <2>4. /\ before \in Seq(Actions) /\ Len(before) = first - 1
        /\ \A i \in 1 .. Len(before) : before[i] = st.q[p][i]
    BY <1>1, <2>1, <2>3, SubSeqProperties
  <2>5. /\ after \in Seq(Actions) /\ Len(after) = Len(st.q[p]) - first
        /\ \A i \in 1 .. Len(after) : after[i] = st.q[p][first + i]
    BY <1>1, <2>1, <2>3, SubSeqProperties
  <2>. HIDE DEF before, after
  <2>6. /\ before \o after \in Seq(Actions)
        /\ Len(before \o after) = Len(st.q[p]) - 1
        /\ \A i \in 1 .. Len(st.q[p]) - 1 :
             (before \o after)[i] = IF i <= first - 1 THEN before[i]
                                                      ELSE after[i - (first - 1)]
    <3>1. /\ before \o after \in Seq(Actions)
          /\ Len(before \o after) = Len(before) + Len(after)
          /\ \A i \in 1 .. Len(before) + Len(after) :
               (before \o after)[i] = IF i <= Len(before) THEN before[i]
                                                         ELSE after[i - Len(before)]
      BY <2>4, <2>5, ConcatProperties
    <3>2. Len(before) = first - 1 /\ Len(before) + Len(after) = Len(st.q[p]) - 1
      BY <1>1, <2>1, <2>4, <2>5
    <3>. QED
      BY <3>1, <3>2
  <2>7. rest \in Seq(Actions) /\ Len(rest) <= MaxPending
    BY <1>1, <2>6, BoundsAssumption DEF before, after
  <2>8. \A i \in 1 .. Len(rest) : \E j \in 1 .. Len(st.q[p]) : rest[i] = st.q[p][j]
    <3>1. rest = before \o after
      BY DEF before, after
    <3>. HIDE DEF rest
    <3>2. SUFFICES ASSUME NEW i \in 1 .. Len(rest)
                   PROVE  \E j \in 1 .. Len(st.q[p]) : rest[i] = st.q[p][j]
      OBVIOUS
    <3>3. CASE i <= first - 1
      <4>1. i \in 1 .. Len(before) /\ i \in 1 .. Len(st.q[p])
        BY <1>1, <2>1, <2>4, <3>3, <3>1, <2>6
      <4>2. rest[i] = before[i]
        BY <1>1, <2>1, <2>6, <3>1, <3>3
      <4>. QED
        BY <2>4, <4>1, <4>2
    <3>4. CASE ~(i <= first - 1)
      <4>. DEFINE k == i - (first - 1)
      <4>1. k \in 1 .. Len(after) /\ first + k \in 1 .. Len(st.q[p])
        BY <1>1, <2>1, <2>5, <2>6, <3>1, <3>4
      <4>2. rest[i] = after[k]
        BY <1>1, <2>1, <2>6, <3>1, <3>4
      <4>. HIDE DEF k
      <4>3. rest[i] = st.q[p][first + k]
        BY <2>5, <4>1, <4>2
      <4>. QED
        BY <4>1, <4>3
    <3>. QED
      BY <3>3, <3>4
  <2>. HIDE DEF rest
  <2>9. /\ next \in Pairs
        /\ Evolves(st.g, next.g, Fair)
    BY <1>1, <2>1, <2>3, <2>7, ProcessEvolves, QueueReplaced DEF Pairs
  <2>10. ASSUME NEW asked \in Asked, PairMeant(st, asked)
         PROVE  PairMeant(next, asked)
    <3>1. MeantBy(p, a, asked)
      BY <2>1, <2>10 DEF PairMeant, QueueMeant
    <3>2. GameMeant(next.g, asked)
      BY <1>1, <2>1, <2>3, <2>10, <3>1, ProcessEvolves DEF PairMeant
    <3>3. \A i \in 1 .. Len(rest) : \/ MeantBy(p, rest[i], asked)
                                    \/ \E j \in 1 .. Len(st.q[p]) : rest[i] = st.q[p][j]
      BY <2>8
    <3>4. QueueMeant(next.q, asked)
      BY <1>1, <2>7, <2>10, <3>3, QueueReplaced DEF PairMeant
    <3>. QED
      BY <3>2, <3>4 DEF PairMeant
  <2>. QED
    BY <2>2, <2>9, <2>10 DEF Leads
<1>. QED
  BY <1>2, <1>3

LEMMA ConfirmLeads ==
  ASSUME NEW st \in Pairs, NEW p \in Players
  PROVE  Leads(st, Confirm(st, p))
BY LeadsSame, TakeIfLeads DEF Confirm

LEMMA PollLeads ==
  ASSUME NEW st \in Pairs, NEW p \in Players
  PROVE  Leads(st, PollOther(st, p))
<1>. DEFINE offered == IF st.g.offer = None THEN TakeIf(st, p, {"draw_offer"}) ELSE st
            answered == IF offered.g.offer # None
                          THEN TakeIf(offered, p, {"accept", "decline"}) ELSE offered
            asks == TakeIf(answered, p, {"concede_request"})
<1>1. Leads(st, offered) /\ offered \in Pairs
  BY LeadsSame, TakeIfLeads DEF Leads
<1>. HIDE DEF offered
<1>2. Leads(offered, answered) /\ answered \in Pairs
  BY <1>1, LeadsSame, TakeIfLeads DEF Leads
<1>. HIDE DEF answered
<1>3. Leads(answered, asks) /\ asks \in Pairs
  BY <1>2, TakeIfLeads DEF Leads
<1>. HIDE DEF asks
<1>4. Leads(asks, Confirm(asks, p))
  BY <1>3, ConfirmLeads
<1>5. PollOther(st, p) = Confirm(asks, p)
  BY DEF PollOther, asks, answered, offered
<1>. QED
  BY <1>1, <1>2, <1>3, <1>4, <1>5, LeadsTwice

-----------------------------------------------------------------------------
(* What each step does to the game and the queues *)

LEMMA RulesLossEvolves ==
  ASSUME NEW g \in AnyGame, NEW P \in SUBSET Players
  PROVE  /\ RulesLoss(g, P) \in AnyGame
         /\ Evolves(g, RulesLoss(g, P), Fair)
         /\ \A asked \in Asked : GameMeant(g, asked) => GameMeant(RulesLoss(g, P), asked)
<1>. DEFINE h == RulesLoss(g, P)
<1>1. h \in AnyGame
  BY DEF RulesLoss, AnyGame, Causes
<1>2. /\ h.pending = g.pending /\ h.offer = g.offer /\ SameOutcome(g, h)
      /\ \A p \in Players : h.cause[p] = g.cause[p] \/ (g.cause[p] = "in" /\ h.cause[p] = "rules")
  BY DEF RulesLoss, AnyGame, SameOutcome
<1>. HIDE DEF h
<1>3. Evolves(g, h, Fair)
  BY <1>2 DEF Evolves, NewLosses, Fair
<1>4. ASSUME NEW asked \in Asked, GameMeant(g, asked)
      PROVE  GameMeant(h, asked)
  BY <1>1, <1>2, <1>4, MeantKept DEF SameOutcome
<1>. QED
  BY <1>1, <1>3, <1>4 DEF h

LEMMA PollDoes ==
  ASSUME Typed, Poll
  PROVE  Leads([g |-> game, q |-> queue], [g |-> game', q |-> queue'])
<1>. DEFINE st == [g |-> game, q |-> queue]
<1>1. st \in Pairs /\ holder \in Players
  BY DEF Typed, Pairs, Poll, ThreadTyped, Waits
<1>2. Leads(st, PollOther(st, Other(holder)))
  BY <1>1, PollLeads, TwoPlayers
<1>3. PollOther(st, Other(holder)) \in Pairs
  BY <1>2 DEF Leads
<1>4. PollOther(st, Other(holder)) = [g |-> game', q |-> queue']
  BY <1>3 DEF Poll, Pairs
<1>. QED
  BY <1>2, <1>4

LEMMA DecideDoes ==
  ASSUME Typed, Decide
  PROVE  /\ game' \in AnyGame /\ queue' \in AnyQueues
         /\ Evolves(game, game', Fair)
         /\ AllMeant => GameMeant(game', meant) /\ QueueMeant(queue', meant)
<1>. DEFINE st0 == [g |-> game, q |-> queue]
            polled == PollOther(st0, Other(holder))
            st == Confirm(polled, holder)
<1>1. st0 \in Pairs /\ holder \in Players /\ action \in Actions /\ meant \in Asked
  BY DEF Typed, Pairs, Decide, ThreadTyped, Waits
<1>2. Leads(st0, polled)
  BY <1>1, PollLeads, TwoPlayers
<1>3. Leads(polled, st)
  BY <1>1, <1>2, ConfirmLeads DEF Leads
<1>4. Leads(st0, st)
  BY <1>1, <1>2, <1>3, LeadsTwice
<1>5. queue' = st.q /\ game' \in {st.g, Process(st.g, holder, action)}
  BY DEF Decide
<1>. HIDE DEF st
<1>6. /\ st.g \in AnyGame /\ st.q \in AnyQueues /\ Evolves(game, st.g, Fair)
      /\ AllMeant => GameMeant(st.g, meant) /\ QueueMeant(st.q, meant)
  BY <1>1, <1>4 DEF Leads, Pairs, PairMeant, AllMeant
<1>7. /\ Process(st.g, holder, action) \in AnyGame
      /\ Evolves(st.g, Process(st.g, holder, action), Fair)
      /\ AllMeant => GameMeant(Process(st.g, holder, action), meant)
  <2>1. AllMeant => MeantBy(holder, action, meant)
    BY DEF AllMeant, Decide
  <2>. QED
    BY <1>1, <1>6, <2>1, ProcessEvolves
<1>8. Evolves(game, Process(st.g, holder, action), Fair)
  BY <1>6, <1>7, EvolvesTwice DEF Fair, Typed
<1>. QED
  BY <1>5, <1>6, <1>7, <1>8

LEMMA EndPhaseDoes ==
  ASSUME Typed, EndPhase
  PROVE  /\ game' \in AnyGame
         /\ Evolves(game, game', Fair)
         /\ \E g \in AnyGame : /\ game' = CheckWin(g)
                               /\ SameOutcome(game, g)
         /\ GameMeant(game, meant) => GameMeant(game', meant)
<1>1. PICK P \in SUBSET Players, auto \in SUBSET game.auto :
        game' = WinCheck(RulesLoss([game EXCEPT !.auto = auto], P))
  BY DEF EndPhase
<1>. DEFINE f == [game EXCEPT !.auto = auto]
            g == RulesLoss(f, P)
<1>2. /\ game \in AnyGame /\ meant \in Asked /\ f \in AnyGame
      /\ Evolves(game, f, Fair) /\ SameOutcome(game, f)
      /\ f.pending = game.pending /\ f.offer = game.offer /\ f.cause = game.cause
  BY DEF Typed, AnyGame, Evolves, NewLosses, SameOutcome
<1>. HIDE DEF f
<1>3. /\ g \in AnyGame /\ Evolves(f, g, Fair) /\ SameOutcome(f, g)
      /\ GameMeant(f, meant) => GameMeant(g, meant)
  BY <1>2, RulesLossEvolves DEF RulesLoss, SameOutcome, AnyGame
<1>. HIDE DEF g
<1>4. /\ CheckWin(g) \in AnyGame /\ Evolves(g, CheckWin(g), Fair)
      /\ GameMeant(g, meant) => GameMeant(CheckWin(g), meant)
  BY <1>2, <1>3, CheckWinEvolves, CheckWinMeant DEF Evolves, NewLosses
<1>5. game' = CheckWin(g)
  BY <1>1 DEF WinCheck, g, f
<1>6. "in" \notin Fair
  BY DEF Fair
<1>7. Evolves(game, g, Fair)
  BY <1>2, <1>3, <1>6, EvolvesTwice
<1>8. Evolves(game, CheckWin(g), Fair)
  BY <1>2, <1>3, <1>4, <1>6, <1>7, EvolvesTwice
<1>9. GameMeant(game, meant) => GameMeant(f, meant)
  BY <1>2, MeantKept DEF SameOutcome
<1>10. SameOutcome(game, g)
  BY <1>2, <1>3 DEF SameOutcome
<1>. QED
  BY <1>3, <1>4, <1>5, <1>8, <1>9, <1>10

(* The steps in which players may lose and a game may end. *)
Deciding == \/ \E p \in Players : LeaveFinish(p)
            \/ GiveUp \/ Poll \/ LoseOnTime \/ Decide \/ CheckState \/ EndPhase

LEMMA DecidingEvolves ==
  ASSUME Typed, Deciding
  PROVE  /\ game' \in AnyGame
         /\ \/ Evolves(game, game', Fair)
            \/ /\ GiveUp /\ Evolves(game, game', {"absent"})
               /\ \A p \in Players \ {holder} : game'.cause[p] = game.cause[p]
<1>1. game \in AnyGame
  BY DEF Typed
<1>2. ASSUME NEW p \in Players, LeaveFinish(p)
      PROVE  game' \in AnyGame /\ Evolves(game, game', Fair)
  <2>1. game' = Eliminate(game, p, "left") /\ "left" \in Causes \ {"in"} /\ "left" \in Fair
    BY <1>2 DEF LeaveFinish, Causes, Fair
  <2>. QED
    BY <1>1, <2>1, EliminateEvolves DEF Evolves, NewLosses
<1>3. CASE GiveUp
  <2>1. holder \in Players /\ "absent" \in Causes \ {"in"} /\ game' = Loses(game, holder, "absent")
    BY <1>3 DEF GiveUp, Typed, ThreadTyped, Waits, Causes
  <2>. QED
    BY <1>1, <1>3, <2>1, LosesEvolves
<1>4. CASE Poll
  BY <1>4, PollDoes DEF Leads, Pairs
<1>5. CASE LoseOnTime
  <2>1. /\ holder \in Players /\ "clock" \in Causes \ {"in"} /\ "clock" \in Fair
        /\ game' = Loses(game, holder, "clock")
    BY <1>5 DEF LoseOnTime, Typed, ThreadTyped, Causes, Fair
  <2>. QED
    BY <1>1, <2>1, LosesEvolves DEF Evolves, NewLosses
<1>6. CASE Decide
  BY <1>6, DecideDoes
<1>7. CASE CheckState
  BY <1>1, <1>7, RulesLossEvolves DEF CheckState
<1>8. CASE EndPhase
  BY <1>8, EndPhaseDoes
<1>. QED
  BY <1>2, <1>3, <1>4, <1>5, <1>6, <1>7, <1>8 DEF Deciding

-----------------------------------------------------------------------------
(* Types, and what was meant *)

(* What was asked for remains so. *)
AskedMore == meant' \in Asked /\ \A p \in Players : meant[p] \subseteq meant'[p]

LEMMA AskedNext ==
  ASSUME Typed, Next
  PROVE  AskedMore
<1>1. CASE UNCHANGED meant
  BY <1>1 DEF AskedMore, Typed
<1>2. CASE \E p \in Players : Reap(p) \/ \E k \in Kinds : Submit(p, k)
  BY <1>2 DEF AskedMore, Typed, Asked, Reap, Submit, Requests
<1>3. Next => UNCHANGED meant \/ \E p \in Players : Reap(p) \/ \E k \in Kinds : Submit(p, k)
  BY DEF Next, Client, Reaper, Step, AddPlayer, SubmitDeck, Start, LeaveGame, LeaveFinish,
         OpenStream, CloseStream, Rejoin, TurnStale, ClockRunsOut, StopGame, Prompt,
         PromptCombat, Ask, NoCombat, CheckConnected, Resume, GiveUp, Take, Poll, TakeNothing,
         LoseOnTime, Decide, Answer, NoAnswer, TakeCombat, CheckState, LeaveRound, EndPhase,
         ThreadDone, vars, outside
<1>. QED
  BY <1>1, <1>2, <1>3

LEMMA MeantGrows ==
  ASSUME NEW g \in AnyGame, NEW q \in AnyQueues, meant \in Asked, AskedMore
  PROVE  /\ GameMeant(g, meant) => GameMeant(g, meant')
         /\ QueueMeant(q, meant) => QueueMeant(q, meant')
<1>1. GameMeant(g, meant) => GameMeant(g, meant')
  BY TwoPlayers DEF GameMeant, AskedMore, AnyGame
<1>2. QueueMeant(q, meant) => QueueMeant(q, meant')
  BY DEF QueueMeant, MeantBy, AskedMore
<1>. QED
  BY <1>1, <1>2

(* The steps that open and close the game, or pause and resume it. *)
Moving(state, running) ==
  /\ state \in {"WaitingForPlayers", "WaitingForDecks", "InProgress", "Paused", "Finished"}
  /\ running \in BOOLEAN
  /\ game' = [game EXCEPT !.state = state, !.running = running]

LEMMA GameNext ==
  ASSUME Typed, Next
  PROVE  game' \in AnyGame /\ (AllMeant => GameMeant(game', meant'))
<1>. game \in AnyGame /\ queue \in AnyQueues /\ meant \in Asked /\ AskedMore
  BY AskedNext DEF Typed
<1>1. CASE \E state, running : Moving(state, running)
  <2>1. PICK state, running : Moving(state, running)
    BY <1>1
  <2>2. /\ game' \in AnyGame /\ game'.pending = game.pending /\ game'.offer = game.offer
        /\ game'.cause = game.cause /\ game'.result = game.result
    BY <2>1 DEF Moving, AnyGame
  <2>3. GameMeant(game, meant) => GameMeant(game', meant)
    BY <2>2, MeantKept
  <2>. QED
    BY <2>2, <2>3, MeantGrows DEF AllMeant
<1>2. CASE UNCHANGED game
  BY <1>2, MeantGrows DEF AllMeant
<1>3. ASSUME NEW p \in Players, LeaveFinish(p)
      PROVE  AllMeant => GameMeant(game', meant)
  BY <1>3, EliminateMeant DEF LeaveFinish, Causes, AllMeant
<1>4. ASSUME GiveUp \/ LoseOnTime
      PROVE  AllMeant => GameMeant(game', meant)
  <2>1. holder \in Players
    BY <1>4 DEF GiveUp, LoseOnTime, Typed, ThreadTyped, Waits
  <2>. QED
    BY <1>4, <2>1, LosesMeant DEF GiveUp, LoseOnTime, AllMeant
<1>5. ASSUME Poll \/ Decide \/ EndPhase
      PROVE  AllMeant => GameMeant(game', meant)
  BY <1>5, PollDoes, DecideDoes, EndPhaseDoes DEF AllMeant, Leads, PairMeant
<1>6. ASSUME CheckState
      PROVE  AllMeant => GameMeant(game', meant)
  BY <1>6, RulesLossEvolves DEF CheckState, AllMeant
<1>7. ASSUME Deciding
      PROVE  game' \in AnyGame /\ (AllMeant => GameMeant(game', meant'))
  <2>1. game' \in AnyGame
    BY <1>7, DecidingEvolves
  <2>. QED
    BY <1>3, <1>4, <1>5, <1>6, <1>7, <2>1, MeantGrows DEF Deciding
<1>8. ASSUME NEW p \in Players, AddPlayer(p) \/ Start(p) \/ OpenStream(p) \/ Rejoin(p)
      PROVE  UNCHANGED game \/ \E state, running : Moving(state, running)
  <2>1. game'.state = game.state /\ game'.running = game.running => UNCHANGED game
    BY <1>8 DEF AddPlayer, Start, OpenStream, Rejoin, Connect, Resumed, AnyGame
  <2>2. \/ UNCHANGED game
        \/ Moving("WaitingForDecks", game.running)
        \/ Moving("InProgress", TRUE)
        \/ Moving("InProgress", game.running)
    BY <1>8 DEF AddPlayer, Start, OpenStream, Rejoin, Connect, Resumed, Moving, AnyGame
  <2>. QED
    BY <2>2
<1>9. ASSUME CheckConnected \/ Resume \/ StopGame
      PROVE  UNCHANGED game \/ \E state, running : Moving(state, running)
  <2>1. \/ UNCHANGED game
        \/ Moving("Paused", game.running)
        \/ Moving("InProgress", game.running)
        \/ Moving(game.state, FALSE)
    BY <1>9 DEF CheckConnected, Resume, StopGame, Moving, AnyGame
  <2>. QED
    BY <2>1
<1>10. ASSUME Next
       PROVE  \/ UNCHANGED game \/ Deciding \/ CheckConnected \/ Resume \/ StopGame
              \/ \E p \in Players : AddPlayer(p) \/ Start(p) \/ OpenStream(p) \/ Rejoin(p)
  BY <1>10 DEF Next, Client, Reaper, Step, Deciding, SubmitDeck, LeaveGame, CloseStream, Submit,
         TurnStale, Reap, ClockRunsOut, Prompt, PromptCombat, Ask, NoCombat, Take, TakeNothing,
         Answer, NoAnswer, TakeCombat, LeaveRound, ThreadDone, vars
<1>. QED
  BY <1>1, <1>2, <1>7, <1>8, <1>9, <1>10

LEMMA QueueNext ==
  ASSUME Typed, Next
  PROVE  queue' \in AnyQueues /\ (AllMeant => QueueMeant(queue', meant'))
<1>. game \in AnyGame /\ queue \in AnyQueues /\ meant \in Asked /\ AskedMore /\ meant' \in Asked
  BY AskedNext DEF Typed, AskedMore
<1>1. AllMeant => QueueMeant(queue, meant')
  BY MeantGrows DEF AllMeant
<1>2. CASE UNCHANGED queue
  BY <1>1, <1>2
<1>3. ASSUME NEW p \in Players, NEW a \in Actions, MeantBy(p, a, meant'),
             queue' = Submitted(queue, p, a)
      PROVE  queue' \in AnyQueues /\ (AllMeant => QueueMeant(queue', meant'))
  BY <1>1, <1>3, SubmittedMeant
<1>4. ASSUME NEW p \in Players, NEW k \in Kinds, Submit(p, k)
      PROVE  queue' \in AnyQueues /\ (AllMeant => QueueMeant(queue', meant'))
  <2>1. PICK f \in {FALSE, prompt = p /\ k \in {"pass", "act", "yes", "no"}} :
          queue' = Submitted(queue, p, [kind |-> k, fresh |-> f])
    BY <1>4 DEF Submit
  <2>2. [kind |-> k, fresh |-> f] \in Actions
    BY DEF Actions
  <2>3. k \in Requests => k \in meant'[p]
    BY <1>4 DEF Submit, Asked
  <2>4. k # "forced"
    BY KindsAssumption
  <2>5. MeantBy(p, [kind |-> k, fresh |-> f], meant')
    BY <2>3, <2>4 DEF MeantBy
  <2>. QED
    BY <1>3, <2>1, <2>2, <2>5
<1>5. ASSUME NEW p \in Players, LeaveGame(p) \/ Reap(p)
      PROVE  queue' \in AnyQueues /\ (AllMeant => QueueMeant(queue', meant'))
  <2>1. [kind |-> "concede", fresh |-> FALSE] \in Actions
    BY DEF Actions
  <2>2. [kind |-> "forced", fresh |-> FALSE] \in Actions
    BY DEF Actions
  <2>3. MeantBy(p, [kind |-> "concede", fresh |-> FALSE], meant')
    BY DEF MeantBy, Requests
  <2>4. Reap(p) => MeantBy(p, [kind |-> "forced", fresh |-> FALSE], meant')
    BY DEF MeantBy, Requests, Reap, Asked
  <2>. QED
    BY <1>2, <1>3, <1>5, <2>1, <2>2, <2>3, <2>4 DEF LeaveGame, Reap
<1>6. ASSUME StopGame
      PROVE  queue' \in AnyQueues /\ (AllMeant => QueueMeant(queue', meant'))
  <2>. DEFINE a == [kind |-> "shutdown", fresh |-> FALSE]
  <2>1. a \in Actions
    BY DEF Actions
  <2>2. \A p \in Players : MeantBy(p, a, meant')
    BY DEF MeantBy, Requests
  <2>. HIDE DEF a
  <2>3. \A p \in Players : /\ Submitted(queue, p, a) \in AnyQueues
                           /\ AllMeant => QueueMeant(Submitted(queue, p, a), meant')
    BY <1>1, <2>1, <2>2, SubmittedMeant
  <2>4. queue' = [p \in Players |-> Submitted(queue, p, a)[p]]
    BY <1>6 DEF StopGame, a
  <2>. QED
    BY <2>3, <2>4 DEF AnyQueues, QueueMeant
<1>7. ASSUME NEW p \in Players, queue[p] # <<>>, queue' = [queue EXCEPT ![p] = Tail(@)]
      PROVE  queue' \in AnyQueues /\ (AllMeant => QueueMeant(queue', meant'))
  BY <1>1, <1>7, TailMeant
<1>8. ASSUME Take \/ Answer \/ TakeCombat
      PROVE  queue' \in AnyQueues /\ (AllMeant => QueueMeant(queue', meant'))
  <2>1. holder \in Players
    BY <1>8 DEF Take, Answer, TakeCombat, Typed, ThreadTyped, Waits
  <2>. QED
    BY <1>2, <1>7, <1>8, <2>1 DEF Take, Answer, TakeCombat
<1>9. ASSUME queue' = Aged(queue)
      PROVE  queue' \in AnyQueues /\ (AllMeant => QueueMeant(queue', meant'))
  BY <1>1, <1>9, AgedMeant
<1>10. ASSUME Poll \/ Decide
       PROVE  queue' \in AnyQueues /\ (AllMeant => QueueMeant(queue', meant'))
  <2>1. queue' \in AnyQueues /\ (AllMeant => QueueMeant(queue', meant))
    BY <1>10, PollDoes, DecideDoes DEF Leads, Pairs, PairMeant, AllMeant
  <2>. QED
    BY <2>1, MeantGrows
<1>11. ASSUME Next
       PROVE  \/ UNCHANGED queue \/ queue' = Aged(queue) \/ Take \/ Answer \/ TakeCombat
              \/ Poll \/ Decide \/ StopGame
              \/ \E p \in Players : \/ LeaveGame(p) \/ Reap(p)
                                    \/ \E k \in Kinds : Submit(p, k)
  BY <1>11 DEF Next, Client, Reaper, Step, AddPlayer, SubmitDeck, Start, LeaveFinish,
         OpenStream, CloseStream, Rejoin, TurnStale, ClockRunsOut, Prompt, PromptCombat, Ask,
         NoCombat, CheckConnected, Resume, GiveUp, TakeNothing, LoseOnTime, NoAnswer,
         CheckState, LeaveRound, EndPhase, ThreadDone, vars
<1>. QED
  BY <1>2, <1>4, <1>5, <1>6, <1>8, <1>9, <1>10, <1>11

LEMMA OutsideNext ==
  ASSUME Typed, Next
  PROVE  LobbyTyped' /\ LinksTyped'
<1>1. LobbyTyped /\ LinksTyped
  BY DEF Typed
<1>2. ASSUME UNCHANGED <<lobby, links>>
      PROVE  LobbyTyped' /\ LinksTyped'
  BY <1>1, <1>2 DEF LobbyTyped, LinksTyped, lobby, links
<1>3. ASSUME NEW p \in Players, AddPlayer(p) \/ SubmitDeck(p) \/ Start(p) \/ LeaveGame(p)
                                \/ LeaveFinish(p)
      PROVE  LobbyTyped' /\ LinksTyped'
  <2>1. LobbyTyped'
    BY <1>1, <1>3 DEF LobbyTyped, AddPlayer, SubmitDeck, Start, LeaveGame, LeaveFinish
  <2>2. joined \subseteq joined' /\ UNCHANGED links
    BY <1>3 DEF AddPlayer, SubmitDeck, Start, LeaveGame, LeaveFinish
  <2>3. LinksTyped'
    BY <1>1, <2>2 DEF LinksTyped, links
  <2>. QED
    BY <2>1, <2>3
<1>4. ASSUME NEW p \in Players, OpenStream(p) \/ CloseStream(p)
      PROVE  LobbyTyped' /\ LinksTyped'
  <2>1. LobbyTyped' /\ UNCHANGED joined /\ p \in joined
    BY <1>1, <1>4 DEF LobbyTyped, LinksTyped, lobby, OpenStream, CloseStream
  <2>2. streams' \in [Players -> 0 .. MaxStreams]
    BY <1>1, <1>4, BoundsAssumption DEF LinksTyped, OpenStream, CloseStream
  <2>3. \A q \in Players : streams'[q] > 0 => q \in joined
    BY <1>1, <1>4, <2>1, BoundsAssumption DEF LinksTyped, OpenStream, CloseStream
  <2>4. /\ connected' \in SUBSET joined /\ away' \in SUBSET (joined \ connected')
        /\ stale' \in SUBSET away'
    BY <1>1, <1>4, <2>1 DEF LinksTyped, OpenStream, CloseStream, Connect
  <2>. QED
    BY <2>1, <2>2, <2>3, <2>4 DEF LinksTyped
<1>5. ASSUME NEW p \in Players, Rejoin(p) \/ TurnStale(p)
      PROVE  LobbyTyped' /\ LinksTyped'
  BY <1>1, <1>5 DEF LobbyTyped, LinksTyped, lobby, Rejoin, TurnStale, Connect
<1>6. ASSUME Next
      PROVE  \/ UNCHANGED <<lobby, links>>
             \/ \E p \in Players :
                  \/ AddPlayer(p) \/ SubmitDeck(p) \/ Start(p) \/ LeaveGame(p) \/ LeaveFinish(p)
                  \/ OpenStream(p) \/ CloseStream(p) \/ Rejoin(p) \/ TurnStale(p)
  BY <1>6 DEF Next, Client, Reaper, Step, Submit, Reap, ClockRunsOut, StopGame, Prompt,
         PromptCombat, Ask, NoCombat, CheckConnected, Resume, GiveUp, Take, Poll, TakeNothing,
         LoseOnTime, Decide, Answer, NoAnswer, TakeCombat, CheckState, LeaveRound, EndPhase,
         ThreadDone, vars, outside
<1>. QED
  BY <1>2, <1>3, <1>4, <1>5, <1>6

LEMMA ThreadNext ==
  ASSUME Typed, Next
  PROVE  ThreadTyped' /\ (AllMeant => (pc' = "clock" => MeantBy(holder, action, meant)'))
<1>. DEFINE Fine == /\ ThreadTyped'
                    /\ AllMeant => (pc' = "clock" => MeantBy(holder, action, meant)')
<1>1. /\ ThreadTyped /\ AskedMore /\ queue \in AnyQueues
      /\ Nothing \in Actions
  BY AskedNext DEF Typed, Nothing, Actions
<1>2. CASE UNCHANGED thread
  BY <1>1, <1>2 DEF ThreadTyped, thread, AllMeant, MeantBy, AskedMore
<1>3. ASSUME NEW p \in Players, Start(p)
      PROVE  Fine
  BY <1>1, <1>3 DEF ThreadTyped, Start, asking, Points, Waits, AllMeant, MeantBy, AskedMore
<1>4. ASSUME NEW p \in Players, Prompt(p) \/ PromptCombat(p) \/ Ask(p)
      PROVE  Fine
  BY <1>1, <1>4, BoundsAssumption DEF ThreadTyped, Prompt, PromptCombat, Ask, Points, Waits
<1>5. CASE NoCombat \/ CheckConnected \/ Resume \/ GiveUp
  BY <1>1, <1>5
     DEF ThreadTyped, NoCombat, CheckConnected, Resume, GiveUp, WithoutHolder, asking, Points,
         Waits
<1>6. CASE LoseOnTime \/ Decide \/ NoAnswer \/ TakeCombat \/ CheckState \/ LeaveRound \/ EndPhase
  BY <1>1, <1>6
     DEF ThreadTyped, LoseOnTime, Decide, NoAnswer, TakeCombat, CheckState, LeaveRound,
         EndPhase, asking, Points, Waits
<1>7. CASE Take
  <2>1. holder \in Players /\ attempt \in Nat /\ attempt < MaxStale /\ UNCHANGED <<holder, meant>>
    BY <1>1, <1>7, BoundsAssumption DEF ThreadTyped, Waits, Take, outside
  <2>2. /\ Head(queue[holder]) \in Actions
        /\ AllMeant => MeantBy(holder, Head(queue[holder]), meant)
    BY <1>1, <1>7, <2>1, TailMeant DEF Take, AllMeant, Typed
  <2>3. MeantBy(holder, Nothing, meant)
    BY DEF MeantBy, Nothing, Requests
  <2>4. /\ attempt' \in 0 .. MaxStale /\ pc' \in {"take", "clock"}
        /\ pc' = "take" => attempt' < MaxStale
        /\ action' \in {Head(queue[holder]), Nothing}
    BY <1>7, <2>1, BoundsAssumption DEF Take
  <2>5. ThreadTyped'
    BY <1>1, <1>7, <2>1, <2>2, <2>4 DEF ThreadTyped, Take, Points, Waits
  <2>6. AllMeant => MeantBy(holder, action, meant)'
    BY <2>1, <2>2, <2>3, <2>4 DEF MeantBy
  <2>. QED
    BY <2>5, <2>6
<1>8. CASE TakeNothing
  <2>1. ThreadTyped'
    BY <1>1, <1>8 DEF ThreadTyped, TakeNothing, asking, Points, Waits
  <2>2. MeantBy(holder, action, meant)'
    BY <1>8 DEF TakeNothing, MeantBy, Nothing, Requests
  <2>. QED
    BY <2>1, <2>2
<1>9. CASE Answer
  <2>1. /\ attempt' \in 0 .. MaxStale /\ pc' \in {"state", "answer"}
        /\ pc' = "answer" => attempt' < MaxStale
    BY <1>1, <1>9, BoundsAssumption DEF ThreadTyped, Waits, Answer
  <2>. QED
    BY <1>1, <1>9, <2>1 DEF ThreadTyped, Answer, Points, Waits
<1>10. ASSUME Next
       PROVE  \/ UNCHANGED thread \/ NoCombat \/ CheckConnected \/ Resume \/ GiveUp \/ Take
              \/ TakeNothing \/ LoseOnTime \/ Decide \/ Answer \/ NoAnswer \/ TakeCombat
              \/ CheckState \/ LeaveRound \/ EndPhase
              \/ \E p \in Players : Start(p) \/ Prompt(p) \/ PromptCombat(p) \/ Ask(p)
  BY <1>10 DEF Next, Client, Reaper, Step, AddPlayer, SubmitDeck, LeaveGame, LeaveFinish,
         OpenStream, CloseStream, Rejoin, Submit, TurnStale, Reap, ClockRunsOut, StopGame,
         Poll, ThreadDone, vars
<1>. QED
  BY <1>2, <1>3, <1>4, <1>5, <1>6, <1>7, <1>8, <1>9, <1>10

LEMMA RestNext ==
  ASSUME Typed, Next
  PROVE  expired' \in SUBSET Players /\ stopped' \in BOOLEAN /\ calls' \in 0 .. MaxCalls
<1>1. /\ expired \in SUBSET Players /\ stopped \in BOOLEAN /\ calls \in 0 .. MaxCalls
      /\ holder \in Players \/ pc # "take"
  BY DEF Typed, ThreadTyped, Waits
<1>2. /\ UNCHANGED calls \/ (calls < MaxCalls /\ calls' = calls + 1)
      /\ UNCHANGED stopped \/ stopped' = TRUE
      /\ UNCHANGED expired \/ (pc = "take" /\ expired' = expired \cup {holder})
  BY DEF Next, Client, Reaper, Step, AddPlayer, SubmitDeck, Start, LeaveGame, LeaveFinish,
         OpenStream, CloseStream, Rejoin, Submit, TurnStale, Reap, ClockRunsOut, StopGame,
         Prompt, PromptCombat, Ask, NoCombat, CheckConnected, Resume, GiveUp, Take, Poll,
         TakeNothing, LoseOnTime, Decide, Answer, NoAnswer, TakeCombat, CheckState, LeaveRound,
         EndPhase, ThreadDone, vars, outside, CallTo, Call
<1>3. calls' \in 0 .. MaxCalls
  BY <1>1, <1>2, BoundsAssumption
<1>4. expired' \in SUBSET Players
  BY <1>1, <1>2
<1>5. stopped' \in BOOLEAN
  BY <1>1, <1>2
<1>. QED
  BY <1>3, <1>4, <1>5

LEMMA TypedNext ==
  ASSUME Typed, Next
  PROVE  Typed'
<1>1. meant' \in Asked
  BY AskedNext DEF AskedMore
<1>. QED
  BY <1>1, GameNext, QueueNext, OutsideNext, ThreadNext, RestNext DEF Typed

LEMMA AllMeantNext ==
  ASSUME Typed, AllMeant, Next
  PROVE  AllMeant'
BY GameNext, QueueNext, ThreadNext DEF AllMeant

-----------------------------------------------------------------------------
(* The state of the game and its thread *)

(* The outcome is as it was, and the game may have been paused or resumed. *)
SameLife ==
  /\ game'.running = game.running /\ game'.result = game.result
  /\ \/ game'.state = game.state
     \/ game.state \in {"Paused", "InProgress"} /\ game'.state \in {"Paused", "InProgress"}

LEMMA LivesSame ==
  ASSUME Lives, SameLife, UNCHANGED <<joined, stopped>>,
         pc' = pc \/ (pc # "idle" /\ pc' \notin {"idle", "over"})
  PROVE  Lives'
BY DEF Lives, SameLife

LEMMA LivesEvolves ==
  ASSUME Lives, game \in AnyGame, NEW why, Evolves(game, game', why),
         UNCHANGED <<joined, stopped>>, pc # "idle", pc' # "idle",
         pc' = "over" => ~game'.running
  PROVE  Lives'
<1>1. CASE SameOutcome(game, game')
  BY <1>1 DEF Lives, SameOutcome
<1>2. CASE HasEnded(game')
  BY <1>2 DEF Lives, HasEnded
<1>. QED
  BY <1>1, <1>2 DEF Evolves

LEMMA LivesNext ==
  ASSUME Typed, Lives, StartsWhenReady, Next
  PROVE  Lives' /\ StartsWhenReady'
<1>. game \in AnyGame /\ LobbyTyped /\ ThreadTyped
  BY DEF Typed
<1>1. ASSUME UNCHANGED <<decks, starting>>, pc # "idle" <=> pc' # "idle"
      PROVE  StartsWhenReady'
  BY <1>1 DEF StartsWhenReady
<1>2. ASSUME NEW p \in Players, AddPlayer(p)
      PROVE  Lives' /\ StartsWhenReady'
  <2>1. joined' \subseteq Players /\ joined # Players /\ UNCHANGED <<decks, starting, pc, stopped>>
    BY <1>2 DEF AddPlayer, LobbyTyped, thread
  <2>2. game' = IF joined' = Players THEN [game EXCEPT !.state = "WaitingForDecks"] ELSE game
    BY <1>2 DEF AddPlayer
  <2>3. Lives'
    BY <1>2, <2>1, <2>2 DEF Lives, AnyGame, AddPlayer
  <2>. QED
    BY <1>1, <2>1, <2>3
<1>3. ASSUME NEW p \in Players, SubmitDeck(p)
      PROVE  Lives' /\ StartsWhenReady'
  <2>1. UNCHANGED <<game, pc, joined, stopped>> /\ pc = "idle"
    BY <1>3 DEF SubmitDeck, thread, Lives
  <2>2. starting' # {}
    BY <1>3 DEF SubmitDeck
  <2>. QED
    BY <2>1, <2>2, LivesSame DEF SameLife, StartsWhenReady
<1>4. ASSUME NEW p \in Players, Start(p)
      PROVE  Lives' /\ StartsWhenReady'
  <2>1. CASE MayStart
    <3>1. /\ game' = [game EXCEPT !.running = TRUE, !.state = "InProgress"] /\ pc' = "head"
          /\ UNCHANGED <<joined, decks, stopped>> /\ decks = Players
      BY <1>4, <2>1 DEF Start, MayStart
    <3>2. game'.running /\ game'.state = "InProgress" /\ joined = Players
      BY <3>1 DEF AnyGame, LobbyTyped
    <3>. QED
      BY <3>1, <3>2 DEF Lives, StartsWhenReady
  <2>2. CASE ~MayStart
    <3>1. UNCHANGED <<game, pc, joined, decks, stopped>>
      BY <1>4, <2>2 DEF Start
    <3>2. decks = Players => pc # "idle"
      BY <2>2 DEF MayStart, Lives, LobbyTyped
    <3>. QED
      BY <3>1, <3>2, LivesSame DEF SameLife, StartsWhenReady
  <2>. QED
    BY <2>1, <2>2
<1>5. ASSUME NEW p \in Players, LeaveFinish(p)
      PROVE  Lives' /\ StartsWhenReady'
  <2>1. /\ game' = Eliminate(game, p, "left") /\ "left" \in Causes \ {"in"}
        /\ UNCHANGED <<joined, decks, starting, pc, stopped>>
    BY <1>5 DEF LeaveFinish, thread, Causes
  <2>2. SameOutcome(game, game')
    BY <2>1, EliminateEvolves
  <2>. QED
    BY <1>1, <2>1, <2>2, LivesSame DEF SameLife, SameOutcome
<1>6. ASSUME NEW p \in Players, OpenStream(p) \/ Rejoin(p)
      PROVE  Lives' /\ StartsWhenReady'
  <2>1. UNCHANGED <<joined, decks, starting, pc, stopped>> /\ game' = Resumed(game)
    BY <1>6 DEF OpenStream, Rejoin, Connect, lobby, thread
  <2>2. SameLife
    BY <2>1 DEF Resumed, SameLife, AnyGame
  <2>. QED
    BY <1>1, <2>1, <2>2, LivesSame
<1>7. ASSUME StopGame
      PROVE  Lives' /\ StartsWhenReady'
  <2>1. /\ UNCHANGED <<joined, decks, starting, pc>> /\ stopped' = TRUE /\ pc # "idle"
        /\ ~game'.running /\ game'.state = game.state
    BY <1>7 DEF StopGame, lobby, thread, AnyGame
  <2>. QED
    BY <1>1, <2>1 DEF Lives
<1>8. ASSUME CheckConnected \/ Resume
      PROVE  Lives' /\ StartsWhenReady'
  <2>1. /\ UNCHANGED <<joined, decks, starting, stopped>>
        /\ pc # "idle" /\ pc' \notin {"idle", "over"}
        /\ UNCHANGED game \/ (game.running /\ game' = [game EXCEPT !.state = "Paused"])
                          \/ (game.running /\ game' = [game EXCEPT !.state = "InProgress"])
    BY <1>8 DEF CheckConnected, Resume, WithoutHolder, outside, lobby
  <2>2. game.running => game.state \in {"Paused", "InProgress"}
    BY <2>1 DEF Lives, AnyGame
  <2>3. SameLife
    BY <2>1, <2>2 DEF SameLife, AnyGame
  <2>. QED
    BY <1>1, <2>1, <2>3, LivesSame
<1>9. ASSUME GiveUp \/ Poll \/ LoseOnTime \/ Decide \/ CheckState \/ EndPhase
      PROVE  Lives' /\ StartsWhenReady'
  <2>1. /\ UNCHANGED <<joined, decks, starting, stopped>>
        /\ pc # "idle" /\ pc' # "idle" /\ (pc' = "over" => ~game'.running)
    BY <1>9 DEF GiveUp, Poll, LoseOnTime, Decide, CheckState, EndPhase, WithoutHolder, outside,
                lobby, thread
  <2>2. \E why : Evolves(game, game', why)
    BY <1>9, DecidingEvolves DEF Deciding
  <2>. QED
    BY <1>1, <2>1, <2>2, LivesEvolves
<1>10. ASSUME UNCHANGED <<game, lobby, stopped>>,
              pc' = pc \/ (pc # "idle" /\ pc' \notin {"idle", "over"})
       PROVE  Lives' /\ StartsWhenReady'
  BY <1>1, <1>10, LivesSame DEF SameLife, lobby
<1>11. ASSUME NEW p \in Players, LeaveGame(p)
       PROVE  Lives' /\ StartsWhenReady'
  BY <1>1, <1>11, LivesSame DEF SameLife, LeaveGame, thread
<1>12. ASSUME \/ NoCombat \/ Take \/ TakeNothing \/ Answer \/ NoAnswer \/ TakeCombat
              \/ LeaveRound \/ \E p \in Players : Prompt(p) \/ PromptCombat(p) \/ Ask(p)
       PROVE  Lives' /\ StartsWhenReady'
  BY <1>10, <1>12 DEF NoCombat, Take, TakeNothing, Answer, NoAnswer, TakeCombat, LeaveRound,
                      Prompt, PromptCombat, Ask, outside
<1>13. ASSUME \/ ClockRunsOut \/ ThreadDone
              \/ \E p \in Players : \/ CloseStream(p) \/ TurnStale(p) \/ Reap(p)
                                    \/ \E k \in Kinds : Submit(p, k)
       PROVE  Lives' /\ StartsWhenReady'
  BY <1>10, <1>13 DEF ClockRunsOut, ThreadDone, CloseStream, TurnStale, Reap, Submit, outside,
                      thread, vars
<1>. QED
  BY <1>2, <1>3, <1>4, <1>5, <1>6, <1>7, <1>8, <1>9, <1>11, <1>12, <1>13
     DEF Next, Client, Reaper, Step

-----------------------------------------------------------------------------
(* The result and the losses *)

LEMMA FitsSame ==
  ASSUME ResultFitsLosses, game'.result = game.result, game'.cause = game.cause,
         pc' = pc \/ pc' # "over"
  PROVE  ResultFitsLosses'
BY DEF ResultFitsLosses

LEMMA FitsNext ==
  ASSUME Typed, Lives, ResultFitsLosses, Next
  PROVE  ResultFitsLosses'
<1>. game \in AnyGame /\ game' \in AnyGame
  BY TypedNext DEF Typed
<1>1. CASE Deciding
  <2>1. PICK why : Evolves(game, game', why)
    BY <1>1, DecidingEvolves
  <2>2. game'.result \in Players => game'.cause[Other(game'.result)] # "in"
    BY <2>1, TwoPlayers DEF Evolves, NewLosses, SameOutcome, HasEnded, ResultFitsLosses
  <2>3. ASSUME NEW p \in Players, LeaveFinish(p), pc' = "over", NEW q \in Players,
               game'.result \in {q, "agreed"}
        PROVE  game'.cause[q] \in {"in", "left"}
    <3>1. /\ game' = Eliminate(game, p, "left") /\ pc = "over"
          /\ "left" \in Causes \ {"in"}
      BY <2>3 DEF LeaveFinish, thread, Causes
    <3>2. game'.result = game.result /\ NewLosses(game, game', {"left"})
      BY <3>1, EliminateEvolves DEF SameOutcome, Evolves
    <3>. QED
      BY <2>3, <3>1, <3>2 DEF ResultFitsLosses, NewLosses
  <2>4. ASSUME EndPhase, NEW q \in Players, game'.result \in {q, "agreed"}
        PROVE  game'.cause[q] \in {"in", "left"}
    <3>1. PICK g \in AnyGame : game' = CheckWin(g) /\ SameOutcome(game, g)
      BY <2>4, EndPhaseDoes
    <3>2. CASE \A p \in Players : g.cause[p] = "in"
      BY <3>1, <3>2, CheckWinEvolves
    <3>3. CASE \E p \in Players : g.cause[p] # "in"
      <4>1. game'.result = Winner(g) /\ game'.cause = g.cause
        BY <3>1, <3>3, CheckWinEvolves
      <4>. QED
        BY <2>4, <4>1, WinnerIsIn, NoSuchPlayer
    <3>. QED
      BY <3>2, <3>3
  <2>5. Deciding => \/ pc' # "over" \/ EndPhase \/ \E p \in Players : LeaveFinish(p)
    BY DEF Deciding, GiveUp, Poll, LoseOnTime, Decide, CheckState, WithoutHolder, thread
  <2>. QED
    BY <1>1, <2>2, <2>3, <2>4, <2>5 DEF ResultFitsLosses
<1>2. CASE ~Deciding
  <2>1. /\ game'.result = game.result /\ game'.cause = game.cause
        /\ pc' = pc \/ pc' # "over"
    BY <1>2 DEF Next, Client, Reaper, Step, Deciding, AddPlayer, SubmitDeck, Start, LeaveGame,
         OpenStream, CloseStream, Rejoin, Submit, TurnStale, Reap, ClockRunsOut, StopGame,
         Prompt, PromptCombat, Ask, NoCombat, CheckConnected, Resume, Take, TakeNothing,
         Answer, NoAnswer, TakeCombat, LeaveRound, ThreadDone, vars, thread, Connect, Resumed,
         WithoutHolder, AnyGame
  <2>. QED
    BY <2>1, FitsSame
<1>. QED
  BY <1>1, <1>2

-----------------------------------------------------------------------------
(* The theorems *)

LEMMA SessionInit ==
  ASSUME Init
  PROVE  SessionInv
<1>1. \E p \in Players : TRUE
  BY FS_EmptySet, PlayersAssumption
<1>2. game \in AnyGame
  BY DEF Init, AnyGame, Causes
<1>3. queue \in AnyQueues
  <2>1. \A p \in Players : queue[p] \in Seq(Actions) /\ Len(queue[p]) = 0
    BY EmptySeq DEF Init
  <2>2. queue \in [Players -> Seq(Actions)]
    BY EmptySeq DEF Init
  <2>. QED
    BY <2>1, <2>2, BoundsAssumption DEF AnyQueues
<1>4. Typed
  <2>1. LobbyTyped /\ LinksTyped
    BY BoundsAssumption DEF Init, LobbyTyped, LinksTyped
  <2>2. ThreadTyped
    BY BoundsAssumption DEF Init, ThreadTyped, Points, Waits, Nothing, Actions
  <2>3. calls \in 0 .. MaxCalls
    BY BoundsAssumption DEF Init
  <2>4. expired \in SUBSET Players /\ stopped \in BOOLEAN /\ meant \in Asked
    BY DEF Init, Asked
  <2>. QED
    BY <1>2, <1>3, <2>1, <2>2, <2>3, <2>4 DEF Typed
<1>5. Lives /\ StartsWhenReady
  BY <1>1 DEF Init, Lives, StartsWhenReady
<1>6. ResultFitsLosses
  BY NoSuchPlayer DEF Init, ResultFitsLosses
<1>7. AllMeant
  BY DEF Init, AllMeant, GameMeant, QueueMeant
<1>. QED
  BY <1>4, <1>5, <1>6, <1>7 DEF SessionInv

(* Whatever the game thread, the players and the reaper do, and in whatever *)
(* order, the parts of SessionInv stay true of the game.                    *)
THEOREM SessionInvariant == Spec => []SessionInv
<1>1. ASSUME SessionInv, [Next]_vars
      PROVE  SessionInv'
  <2>1. CASE Next
    BY <1>1, <2>1, TypedNext, LivesNext, FitsNext, AllMeantNext DEF SessionInv
  <2>2. CASE UNCHANGED vars
    BY <1>1, <2>2
       DEF vars, lobby, links, thread, SessionInv, Typed, LobbyTyped, LinksTyped, ThreadTyped,
           Lives, StartsWhenReady, ResultFitsLosses, AllMeant, GameMeant, QueueMeant, MeantBy
  <2>. QED
    BY <1>1, <2>1, <2>2
<1>. QED
  BY <1>1, SessionInit, PTL DEF Spec

(* The session's variables have their types: a queue never holds more than *)
(* ActionQueue::max_pending actions, and only players who have joined have *)
(* decks, connections or disconnect times.                                 *)
THEOREM SessionTypeOK == Spec => []TypeOK
<1>1. SessionInv => TypeOK
  BY DEF SessionInv, Typed, AnyGame, AnyQueues, LobbyTyped, LinksTyped, ThreadTyped, Points,
         Asked, TypeOK
<1>. QED
  BY <1>1, SessionInvariant, PTL

(* What the state of a game says fits its players: it starts when both have  *)
(* submitted their decks, the winner's opponent has lost, and a game whose   *)
(* thread has returned is finished and has a result, unless it was stopped.  *)
THEOREM GameFits == Spec => []GameFitsPlayers
<1>1. SessionInv => GameFitsPlayers
  BY DEF SessionInv, Lives, GameFitsPlayers, EndedGameHasResult
<1>. QED
  BY <1>1, SessionInvariant, PTL

(* Nobody concedes who did not ask to, is conceded for whom the reaper did   *)
(* not find away too long, or ends up in a draw that was not offered by one  *)
(* player and accepted by the other.                                         *)
THEOREM OutcomesAreMeant == Spec => []OutcomeIsMeant
<1>1. SessionInv => OutcomeIsMeant
  BY DEF SessionInv, AllMeant, GameMeant, OutcomeIsMeant
<1>. QED
  BY <1>1, SessionInvariant, PTL

(* A finished game stays finished, and nobody loses for being absent who is  *)
(* connected when the wait for him ends while the game runs.                 *)
THEOREM AbsencesAreFair == Spec => AbsenceIsFair
<1>1. ASSUME SessionInv, [Next]_vars
      PROVE  /\ [game.state = "Finished" => game'.state = "Finished"]_vars
             /\ [\A p \in Players : game.cause[p] = "in" /\ game'.cause[p] = "absent"
                                      => p \notin connected \/ ~game.running]_vars
  <2>. game \in AnyGame /\ game' \in AnyGame
    BY <1>1, TypedNext DEF SessionInv, Typed, vars
  <2>1. CASE Deciding
    <3>1. game.state = "Finished" => game'.state = "Finished"
      BY <1>1, <2>1, DecidingEvolves DEF SessionInv, Evolves, SameOutcome, HasEnded
    <3>2. ASSUME NEW p \in Players, game.cause[p] = "in", game'.cause[p] = "absent"
          PROVE  p \notin connected \/ ~game.running
      <4>1. ~Evolves(game, game', Fair)
        BY <3>2 DEF Evolves, NewLosses, Fair
      <4>2. GiveUp /\ p = holder
        BY <1>1, <2>1, <3>2, <4>1, DecidingEvolves DEF SessionInv
      <4>. QED
        BY <4>2 DEF GiveUp, MayGiveUp
    <3>. QED
      BY <3>1, <3>2
  <2>2. CASE UNCHANGED vars
    BY <2>2
  <2>3. CASE Next /\ ~Deciding
    <3>1. game'.cause = game.cause
      BY <2>3 DEF Next, Client, Reaper, Step, Deciding, AddPlayer, SubmitDeck, Start, LeaveGame,
           OpenStream, CloseStream, Rejoin, Submit, TurnStale, Reap, ClockRunsOut, StopGame,
           Prompt, PromptCombat, Ask, NoCombat, CheckConnected, Resume, Take, TakeNothing,
           Answer, NoAnswer, TakeCombat, LeaveRound, ThreadDone, vars, Connect, Resumed,
           AnyGame
    <3>2. game.state = "Finished" => game'.state = "Finished"
      <4>1. game.state = "Finished" => ~game.running
        BY <1>1 DEF SessionInv, Lives
      <4>. QED
        BY <2>3, <4>1
           DEF Next, Client, Reaper, Step, Deciding, AddPlayer, SubmitDeck, Start, LeaveGame,
             OpenStream, CloseStream, Rejoin, Submit, TurnStale, Reap, ClockRunsOut, StopGame,
             Prompt, PromptCombat, Ask, NoCombat, CheckConnected, Resume, Take, TakeNothing,
             Answer, NoAnswer, TakeCombat, LeaveRound, ThreadDone, vars, Connect, Resumed,
             MayStart, AnyGame
    <3>. QED
      BY <3>1, <3>2
  <2>. QED
    BY <1>1, <2>1, <2>2, <2>3
<1>. QED
  BY <1>1, SessionInvariant, PTL DEF Spec, AbsenceIsFair, FinishedForGood, OnlyTheAbsentLose
=============================================================================
