------------------------------ MODULE Delivery ------------------------------
(***************************************************************************)
(* How one player's client learns what happens in a game: the emissions of *)
(* EventBroadcaster, the two kinds of server streams (the event half of    *)
(* GameServiceImpl::SubmitAction and GameServiceImpl::StreamGameState) and *)
(* the client that opens a stream, loses it and comes back.                *)
(*                                                                         *)
(* An event is its sequence number; emitted is the whole history, of which *)
(* event_log keeps the end.  next_sequence also numbers prompts, which     *)
(* leaves gaps that nothing depends on; the model has none.                *)
(***************************************************************************)
EXTENDS Integers, Sequences, FiniteSets, Functions

CONSTANTS ActionStreams,   \* calls of SubmitAction
          StateStreams,    \* calls of StreamGameState
          MaxEvents,       \* bound of the model: events of the game
          MaxPending,      \* max_pending_events (1000 in the code)
          MaxLog,          \* max_event_log_size (10000 in the code)
          NoStream

ASSUME StreamsDiffer == /\ ActionStreams \cap StateStreams = {}
                        /\ NoStream \notin ActionStreams \cup StateStreams
                        /\ ActionStreams # {}
ASSUME LimitsAreNumbers == MaxEvents \in Nat /\ MaxPending \in Nat /\ MaxLog \in Nat

Streams == ActionStreams \cup StateStreams

VARIABLES
  emitted,      \* every event so far: for whom it is
  finished,     \* state_ = Finished
  calling,      \* the callbacks still to be run for the last event
  locked,       \* whether some are still to be run under Game::mutex_
  subscribers,  \* EventBroadcaster::subscribers_, in order
  stage,        \* where each stream's server side is
  broken,       \* streams that were lost or cancelled by the client
  pending,      \* SharedState::pending
  batch,        \* to_send, or the past events being replayed
  wire,         \* written by the server, not yet read by the client
  sent,         \* all that was written, in order
  dropped,      \* streams that found pending full
  snapshot,     \* how many events the stream's first snapshot accounts for
  since,        \* the last_sequence a state stream was asked for
  client        \* the client's streams and what it applied

game == <<emitted, finished, calling, locked, subscribers>>
flow == <<pending, batch, wire, sent, dropped, snapshot, since>>
vars == <<game, stage, broken, flow, client>>

\* Whom an event is for: this client's player (and perhaps everybody), or
\* another player only.  game_over is for everybody.
Audiences == {"mine", "other", "game_over"}

Stages == {"idle", "opened", "subscribed", "replay",
           "loop", "waiting", "writing", "ended"}

last_sequence == Len(emitted)

\* A subscription of StreamGameState has player id 0 and sees everything.
Wants(s, to) == s \in StateStreams \/ to # "other"

\* The elements of a sequence that are in T, in their order: the loop over
\* subscribers_, and std::erase_if.
Among(line, T) ==
  LET kept[i \in 0 .. Len(line)] ==
        IF i = 0 THEN <<>>
        ELSE IF line[i] \in T THEN Append(kept[i - 1], line[i]) ELSE kept[i - 1]
  IN  kept[Len(line)]

\* How many of the first events event_log does not hold any more.
forgotten == IF last_sequence > MaxLog THEN last_sequence - MaxLog ELSE 0

get_events_since(n) ==
  LET from == IF n > forgotten THEN n ELSE forgotten
  IN  [i \in 1 .. last_sequence - from |-> from + i]

Init ==
  /\ emitted = <<>> /\ finished = FALSE
  /\ calling = <<>> /\ locked = FALSE /\ subscribers = <<>>
  /\ stage = [s \in Streams |-> "idle"] /\ broken = {}
  /\ pending = [s \in Streams |-> <<>>] /\ batch = [s \in Streams |-> <<>>]
  /\ wire = [s \in Streams |-> <<>>] /\ sent = [s \in Streams |-> <<>>]
  /\ dropped = {} /\ snapshot = [s \in Streams |-> 0]
  /\ since = [s \in StateStreams |-> 0]
  /\ client = [action |-> NoStream, state |-> NoStream,
               seen |-> {}, last |-> 0, over |-> FALSE]

-----------------------------------------------------------------------------
(* The game thread emits; the callbacks run one after another outside the  *)
(* broadcaster's mutex.  The rope warning and the turn's first events are  *)
(* emitted without Game::mutex_.                                           *)

Emitting == calling # <<>>

Emit ==
  /\ ~Emitting /\ last_sequence < MaxEvents
  /\ \E to \in Audiences \ {"game_over"} :
        /\ emitted' = Append(emitted, to)
        /\ calling' = Among(subscribers, {s \in Streams : Wants(s, to)})
  /\ locked' \in {FALSE, calling' # <<>>}
  /\ UNCHANGED <<finished, subscribers, stage, broken, flow, client>>

\* Whatever ends the game stores the state and then emits game_over, all under
\* the mutex.  A game that has ended may be ended again, and what was under way
\* may still emit.
GameOver ==
  /\ ~Emitting /\ last_sequence < MaxEvents
  /\ finished' = TRUE
  /\ emitted' = Append(emitted, "game_over")
  /\ calling' = subscribers /\ locked' = (calling' # <<>>)
  /\ UNCHANGED <<subscribers, stage, broken, flow, client>>

\* Faulty variant: one event too many.
RoomForOneMore(s) == Len(pending[s]) <= MaxPending

Room(s) == Len(pending[s]) < MaxPending

CallBack ==
  /\ Emitting
  /\ calling' = Tail(calling) /\ locked' = (locked /\ calling' # <<>>)
  /\ LET s == Head(calling)
     IN  IF stage[s] = "ended" THEN UNCHANGED <<pending, dropped>>
         ELSE IF Room(s)
         THEN /\ pending' = [pending EXCEPT ![s] = Append(@, last_sequence)]
              /\ UNCHANGED dropped
         ELSE /\ dropped' = dropped \cup {s}
              /\ UNCHANGED pending
  /\ UNCHANGED <<emitted, finished, subscribers, stage, broken,
                 batch, wire, sent, snapshot, since, client>>

-----------------------------------------------------------------------------
(* The server side of a stream *)

Subscribed(s, next) ==
  /\ subscribers' = Append(subscribers, s)
  /\ stage' = [stage EXCEPT ![s] = next]
  /\ UNCHANGED <<emitted, finished, calling, locked, broken, flow, client>>

\* What travels on a stream: an event or a snapshot.
OnWire(s, kind, n) ==
  wire' = [wire EXCEPT ![s] = Append(@, [kind |-> kind, number |-> n])]

Snapshotted(s, next) ==
  /\ ~locked
  /\ snapshot' = [snapshot EXCEPT ![s] = last_sequence]
  /\ OnWire(s, "snapshot", last_sequence)
  /\ stage' = [stage EXCEPT ![s] = next]
  /\ UNCHANGED <<game, broken, pending, batch, sent, dropped, since, client>>

\* Faulty variant: the snapshot is taken before the subscription.
SnapshotFirst(s) ==
  \/ stage[s] = "opened" /\ Snapshotted(s, "subscribed")
  \/ stage[s] = "subscribed" /\ Subscribed(s, "loop")

\* SubmitAction subscribes, then takes and writes the snapshot.  The snapshot
\* needs Game::mutex_.
BeginAction(s) ==
  \/ stage[s] = "opened" /\ Subscribed(s, "subscribed")
  \/ stage[s] = "subscribed" /\ Snapshotted(s, "loop")

Replay(s) ==
  /\ batch' = [batch EXCEPT ![s] = get_events_since(since[s])]
  /\ stage' = [stage EXCEPT ![s] = "replay"]
  /\ UNCHANGED <<game, broken, pending, wire, sent, dropped, snapshot, since, client>>

\* StreamGameState writes the past events, then subscribes.
BeginState(s) ==
  \/ stage[s] = "opened" /\ Replay(s)
  \/ stage[s] = "replay" /\ batch[s] = <<>> /\ Subscribed(s, "loop")

Begin == \/ \E s \in ActionStreams : BeginAction(s)
         \/ \E s \in StateStreams : BeginState(s)

\* Faulty variant: an action stream ends with the game, like a state stream.
GoesWhilePlayed(s) == ~finished

\* The condition at the top of the loop of a stream that is not cancelled.
Goes(s) == s \in StateStreams => ~finished

Unsubscribe(s) == subscribers' = Among(subscribers, Streams \ {s})

Loop(s) ==
  /\ stage[s] = "loop" /\ s \in StateStreams /\ Goes(s)
  /\ stage' = [stage EXCEPT ![s] = "waiting"]
  /\ UNCHANGED <<game, broken, flow, client>>

\* The loop is left; what is still pending is not sent.
End(s) ==
  /\ stage[s] = "loop" /\ ~Goes(s)
  /\ stage' = [stage EXCEPT ![s] = "ended"] /\ Unsubscribe(s)
  /\ UNCHANGED <<emitted, finished, calling, locked, broken, flow, client>>

TakePending(s) == /\ batch' = [batch EXCEPT ![s] = pending[s]]
                  /\ pending' = [pending EXCEPT ![s] = <<>>]

\* The wait ends when something is pending or the time is up.
TakeBatch(s) ==
  /\ \/ stage[s] = "waiting"
     \/ s \in ActionStreams /\ stage[s] = "loop" /\ Goes(s) /\ pending[s] # <<>>
  /\ TakePending(s)
  /\ stage' = [stage EXCEPT ![s] = IF pending[s] = <<>> THEN "loop" ELSE "writing"]
  /\ UNCHANGED <<game, broken, wire, sent, dropped, snapshot, since, client>>

Write(s) ==
  /\ stage[s] \in {"replay", "writing"} /\ batch[s] # <<>>
  /\ OnWire(s, "event", Head(batch[s]))
  /\ sent' = [sent EXCEPT ![s] = Append(@, Head(batch[s]))]
  /\ batch' = [batch EXCEPT ![s] = Tail(@)]
  /\ stage' = [stage EXCEPT ![s] = IF stage[s] = "writing" /\ Len(batch[s]) = 1
                                   THEN "loop" ELSE @]
  /\ UNCHANGED <<game, broken, pending, dropped, snapshot, since, client>>

-----------------------------------------------------------------------------
(* The client *)

\* The streams not opened so far; any will do for the next.
Fresh(S) == {s \in S : stage[s] = "idle"}
Another(S) == CHOOSE s \in Fresh(S) : TRUE

\* The first stream of the match scene.
Join ==
  /\ client.action = NoStream /\ \A s \in Streams : stage[s] = "idle"
  /\ client' = [client EXCEPT !.action = Another(ActionStreams)]
  /\ stage' = [stage EXCEPT ![Another(ActionStreams)] = "opened"]
  /\ UNCHANGED <<game, broken, flow>>

\* A client whose action stream is gone, and that does not know of the game's
\* end, starts both kinds of streams; a state stream that is still there stays.
\* It asks for the events after the highest sequence number it has applied.
\* (What RejoinGame returns is not modelled.)
Reconnect ==
  /\ client.action = NoStream /\ broken \cap ActionStreams # {}
  /\ ~client.over
  /\ Fresh(ActionStreams) # {}
  /\ LET s == Another(ActionStreams)
         t == Another(StateStreams)
     IN  \/ /\ client.state # NoStream
            /\ client' = [client EXCEPT !.action = s]
            /\ stage' = [stage EXCEPT ![s] = "opened"]
            /\ UNCHANGED since
         \/ /\ client.state = NoStream /\ Fresh(StateStreams) # {}
            /\ client' = [client EXCEPT !.action = s, !.state = t]
            /\ stage' = [stage EXCEPT ![s] = "opened", ![t] = "opened"]
            /\ since' = [since EXCEPT ![t] = client.last]
  /\ UNCHANGED <<game, broken, pending, batch, wire, sent, dropped, snapshot>>

Mine == {client.action, client.state} \ {NoStream}

\* A read loop of Game_Client receives an item, and the match scene polls it
\* from events_ and applies it.
Receive(s) ==
  /\ s \in Mine /\ wire[s] # <<>>
  /\ wire' = [wire EXCEPT ![s] = Tail(@)]
  /\ LET n == Head(wire[s]).number
         event == Head(wire[s]).kind = "event"
     IN  client' = [client EXCEPT !.seen = @ \cup (IF event THEN {n} ELSE 1 .. n),
                                  !.last = IF event /\ n > @ THEN n ELSE @,
                                 !.over = @ \/ (event /\ emitted[n] = "game_over")]
  /\ UNCHANGED <<game, stage, broken, pending, batch, sent, dropped, snapshot, since>>

\* The read loop of a state stream comes to its end.
CloseState ==
  /\ client.state # NoStream /\ stage[client.state] = "ended"
  /\ wire[client.state] = <<>>
  /\ client' = [client EXCEPT !.state = NoStream]
  /\ UNCHANGED <<game, stage, broken, flow>>

\* The connection is lost, or the client stops the stream (as it does when it
\* learns of the end), with what was under way on it.  The server notices
\* by a failing read or write and unsubscribes; what it still collects until
\* then reaches nobody and is not modelled.
Lose(s) ==
  /\ s \in Mine /\ stage[s] # "ended"
  /\ broken' = broken \cup {s}
  /\ stage' = [stage EXCEPT ![s] = "ended"] /\ Unsubscribe(s)
  /\ calling' = Among(calling, Streams \ {s})
  /\ locked' = (locked /\ calling' # <<>>)
  /\ wire' = [wire EXCEPT ![s] = <<>>] /\ pending' = [pending EXCEPT ![s] = <<>>]
  /\ batch' = [batch EXCEPT ![s] = <<>>] /\ sent' = [sent EXCEPT ![s] = <<>>]
  /\ dropped' = dropped \ {s}
  /\ client' = IF s = client.action THEN [client EXCEPT !.action = NoStream]
                                    ELSE [client EXCEPT !.state = NoStream]
  /\ UNCHANGED <<emitted, finished, snapshot, since>>

Serve(s) == Loop(s) \/ End(s) \/ TakeBatch(s) \/ Write(s)

Next == \/ Emit \/ GameOver \/ CallBack \/ Begin
        \/ Join \/ Reconnect \/ CloseState
        \/ \E s \in Streams : Serve(s) \/ Receive(s) \/ Lose(s)

Spec == Init /\ [][Next]_vars

\* The threads of the server and of the client keep going.  Emissions,
\* openings and losses are up to the game and to the network.
Fairness == /\ WF_vars(CallBack) /\ WF_vars(Begin)
            /\ \A s \in Streams : WF_vars(Serve(s)) /\ WF_vars(Receive(s))

FairSpec == Spec /\ Fairness

-----------------------------------------------------------------------------
(* Properties *)

UnderWay(s) == sent[s] \o batch[s] \o pending[s]

Item == [kind : {"event", "snapshot"}, number : Nat]

\* TypeOK: what is under way are events that were emitted, no queue is longer
\* than its limit, and the client's streams are streams of their kind.
TypeOK ==
  /\ emitted \in Seq(Audiences) /\ finished \in BOOLEAN /\ locked \in BOOLEAN
  /\ calling \in Seq(Streams) /\ subscribers \in Seq(Streams)
  /\ stage \in [Streams -> Stages]
  /\ broken \subseteq Streams /\ dropped \subseteq Streams
  /\ \A s \in Streams : /\ UnderWay(s) \in Seq(DOMAIN emitted)
                        /\ Len(pending[s]) <= MaxPending
                        /\ wire[s] \in Seq(Item)
  /\ snapshot \in [Streams -> 0 .. last_sequence]
  /\ since \in [StateStreams -> 0 .. last_sequence]
  /\ client.action \in ActionStreams \cup {NoStream}
  /\ client.state \in StateStreams \cup {NoStream}
  /\ client.seen \subseteq DOMAIN emitted /\ client.last \in 0 .. last_sequence
  /\ client.over \in BOOLEAN

\* On every stream the sequence numbers only grow, across the replay and the
\* live events too, and a resumed stream starts after what the client asked
\* for (StreamGameState reads the log before it subscribes; a writer takes all
\* of pending).
StreamsAdvance ==
  \A s \in Streams :
    LET line == UnderWay(s)
    IN  /\ \A i, j \in DOMAIN line : i < j => line[i] < line[j]
        /\ s \in StateStreams => \A i \in DOMAIN line : line[i] > since[s]

\* Once the snapshot of an action stream is written, every event for its player
\* is in the snapshot, was sent, or is on its way, unless pending was full:
\* SubmitAction subscribes before it takes the snapshot, so there is no gap.
NothingLost ==
  \A s \in ActionStreams \ (broken \cup dropped) :
    stage[s] \in {"loop", "waiting", "writing"} =>
      \A n \in DOMAIN emitted :
        Wants(s, emitted[n]) =>
          \/ n <= snapshot[s]
          \/ n \in Range(UnderWay(s))
          \/ n = last_sequence /\ s \in Range(calling)

\* A client whose action stream stays up catches up again and again: it learns
\* of every event for its player, the end of the game included, unless pending
\* was full (the writer of SubmitAction outlives the game).
EventsArrive ==
  []<>(\A s \in ActionStreams \ (broken \cup dropped) :
         stage[s] \in {"loop", "writing", "ended"} =>
           {n \in DOMAIN emitted : Wants(s, emitted[n])} \subseteq client.seen)

\* Neither a repetition on any stream nor a gap on an action stream.
NoGapNoRepeat == StreamsAdvance /\ NothingLost
=============================================================================
