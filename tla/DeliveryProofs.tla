--------------------------- MODULE DeliveryProofs ---------------------------
(***************************************************************************)
(* Proofs about Delivery, for any number of streams, any history and any   *)
(* limits of the queue and of the log: what travels was emitted, no stream *)
(* repeats an event or goes back, and an action stream that stays up has   *)
(* no gap after its snapshot.                                              *)
(*                                                                         *)
(* NoGapNoRepeat is not inductive.  A callback appends the last event to   *)
(* what is pending, so a stream that is still to be called back must not   *)
(* have that event yet (Ahead) and is called back once (Orderly); a stream *)
(* is told of an event only if it is subscribed (Placed), and what it      *)
(* takes stays in order only if it has written all it took before.         *)
(*                                                                         *)
(* And about ClientView, which these streams feed, for any cards, life     *)
(* totals and course of the game: once everything has arrived, the view    *)
(* and its counts are the game's, and the prompt it waits for is shown.    *)
(*                                                                         *)
(* These properties speak of clients to which nothing is under way.  The   *)
(* invariant says of the others what will set them right.  The view is     *)
(* taken apart into facts (Marks); whatever the view or a snapshot under   *)
(* way says wrong of one, an event that is to come corrects for good       *)
(* (Tells).  A view with exact counts lacks what the events after it take  *)
(* (Counts).  A prompt that is not shown will be brought (Prompts).        *)
(***************************************************************************)
EXTENDS Delivery, ClientView, FiniteSetTheorems, SequenceTheorems,
        WellFoundedInduction, TLAPS

-----------------------------------------------------------------------------
(* Sequences *)

(* What holds of 0, and of k + 1 if it does of k, holds of all numbers to n. *)
LEMMA UpTo ==
  ASSUME NEW n \in Nat, NEW good, 0 \in good,
         \A k \in 0 .. n : k \in good /\ k < n => k + 1 \in good
  PROVE  \A k \in 0 .. n : k \in good
<1>. DEFINE bad == {k \in 0 .. n : k \notin good}
<1>1. SUFFICES ASSUME bad # {}
               PROVE  FALSE
  OBVIOUS
<1>2. bad \subseteq Nat
  OBVIOUS
<1>3. PICK k \in bad : \A j \in bad : <<j, k>> \notin OpToRel(<, Nat)
  <2>. HIDE DEF bad
  <2>. QED
    BY <1>1, <1>2, WFMin, NatLessThanWellFounded
<1>4. \A j \in bad : ~(j < k)
  BY <1>2, <1>3 DEF OpToRel
<1>5. k \in 0 .. n /\ k \notin good /\ k # 0
  BY <1>3
<1>6. k - 1 \in 0 .. n /\ k - 1 < n /\ k - 1 < k /\ (k - 1) + 1 = k
  BY <1>5
<1>7. k - 1 \notin bad
  <2>. HIDE DEF bad
  <2>. QED
    BY <1>4, <1>6
<1>8. k - 1 \in good
  BY <1>6, <1>7
<1>. QED
  BY <1>5, <1>6, <1>8

(* The function Among computes with, and one step of its recursion. *)
Kept(line, T) ==
  CHOOSE kept : kept = [i \in 0 .. Len(line) |->
    IF i = 0 THEN <<>>
    ELSE IF line[i] \in T THEN Append(kept[i - 1], line[i]) ELSE kept[i - 1]]

KeptStep(line, T, g, i) ==
  IF i = 0 THEN <<>> ELSE IF line[i] \in T THEN Append(g[i - 1], line[i]) ELSE g[i - 1]

(* The recursion has a solution: it has one up to every index. *)
LEMMA KeptExists ==
  ASSUME NEW S, NEW line \in Seq(S), NEW T
  PROVE  \E g : g = [i \in 0 .. Len(line) |-> KeptStep(line, T, g, i)]
<1>. DEFINE good == {k \in 0 .. Len(line) :
                       \E g \in [0 .. k -> Seq(S)] :
                          \A i \in 0 .. k : g[i] = KeptStep(line, T, g, i)}
<1>1. Len(line) \in Nat /\ \A i \in 1 .. Len(line) : line[i] \in S
  BY ElementOfSeq, LenProperties
<1>2. 0 \in good
  <2>. DEFINE g == [i \in 0 .. 0 |-> <<>>]
  <2>1. g \in [0 .. 0 -> Seq(S)] /\ \A i \in 0 .. 0 : g[i] = KeptStep(line, T, g, i)
    BY EmptySeq DEF KeptStep
  <2>2. 0 \in 0 .. Len(line)
    BY <1>1
  <2>. HIDE DEF g
  <2>. QED
    BY <2>1, <2>2
<1>3. ASSUME NEW k \in 0 .. Len(line), k \in good, k < Len(line)
      PROVE  k + 1 \in good
  <2>1. PICK g \in [0 .. k -> Seq(S)] : \A i \in 0 .. k : g[i] = KeptStep(line, T, g, i)
    BY <1>3
  <2>2. k \in Nat /\ k + 1 \in 1 .. Len(line) /\ k + 1 \in 0 .. Len(line) /\ (k + 1) - 1 = k
    BY <1>1, <1>3
  <2>. DEFINE x == IF line[k + 1] \in T THEN Append(g[k], line[k + 1]) ELSE g[k]
              h == [i \in 0 .. k + 1 |-> IF i = k + 1 THEN x ELSE g[i]]
  <2>3. g[k] \in Seq(S) /\ line[k + 1] \in S
    BY <1>1, <2>2
  <2>4. x \in Seq(S)
    BY <2>3, AppendProperties
  <2>. HIDE DEF x
  <2>5. h \in [0 .. k + 1 -> Seq(S)]
    BY <2>2, <2>4
  <2>6. \A i \in 0 .. k : h[i] = g[i] /\ i \in 0 .. k + 1
    BY <2>2
  <2>7. h[k + 1] = x
    BY <2>2
  <2>. HIDE DEF h
  <2>8. \A i \in 0 .. k + 1 : h[i] = KeptStep(line, T, h, i)
    <3>1. SUFFICES ASSUME NEW i \in 0 .. k + 1
                   PROVE  h[i] = KeptStep(line, T, h, i)
      OBVIOUS
    <3>2. CASE i = k + 1
      <4>1. k \in 0 .. k /\ h[k] = g[k]
        BY <2>2, <2>6
      <4>. QED
        BY <2>2, <2>7, <3>2, <4>1 DEF KeptStep, x
    <3>3. CASE i = 0
      BY <2>1, <2>2, <2>6, <3>3 DEF KeptStep
    <3>4. CASE i # k + 1 /\ i # 0
      <4>1. i \in 0 .. k /\ i - 1 \in 0 .. k
        BY <2>2, <3>1, <3>4
      <4>2. g[i] = KeptStep(line, T, g, i) /\ h[i] = g[i] /\ h[i - 1] = g[i - 1]
        BY <2>1, <2>6, <4>1
      <4>. QED
        BY <4>2 DEF KeptStep
    <3>. QED
      BY <3>2, <3>3, <3>4
  <2>. QED
    BY <2>2, <2>5, <2>8
<1>4. Len(line) \in good
  <2>. HIDE DEF good
  <2>1. \A k \in 0 .. Len(line) : k \in good
    BY <1>1, <1>2, <1>3, UpTo
  <2>. QED
    BY <1>1, <2>1
<1>5. PICK g \in [0 .. Len(line) -> Seq(S)] :
        \A i \in 0 .. Len(line) : g[i] = KeptStep(line, T, g, i)
  BY <1>4
<1>6. g = [i \in 0 .. Len(line) |-> g[i]]
  BY <1>5
<1>7. g = [i \in 0 .. Len(line) |-> KeptStep(line, T, g, i)]
  BY <1>5, <1>6
<1>. QED
  BY <1>7

(* So the function Among chooses is one. *)
LEMMA KeptIs ==
  ASSUME NEW S, NEW line \in Seq(S), NEW T
  PROVE  /\ Among(line, T) = Kept(line, T)[Len(line)]
         /\ \A i \in 0 .. Len(line) : Kept(line, T)[i] = KeptStep(line, T, Kept(line, T), i)
<1>1. Among(line, T) = Kept(line, T)[Len(line)]
  BY DEF Among, Kept
<1>2. \E g : g = [i \in 0 .. Len(line) |->
              IF i = 0 THEN <<>>
              ELSE IF line[i] \in T THEN Append(g[i - 1], line[i]) ELSE g[i - 1]]
  BY KeptExists DEF KeptStep
<1>3. Kept(line, T) = [i \in 0 .. Len(line) |->
         IF i = 0 THEN <<>>
         ELSE IF line[i] \in T THEN Append(Kept(line, T)[i - 1], line[i])
                                ELSE Kept(line, T)[i - 1]]
  BY <1>2, Zenon DEF Kept
<1>4. Kept(line, T) = [i \in 0 .. Len(line) |-> KeptStep(line, T, Kept(line, T), i)]
  BY <1>3, Zenon DEF KeptStep
<1>5. ASSUME NEW i \in 0 .. Len(line)
      PROVE  Kept(line, T)[i] = KeptStep(line, T, Kept(line, T), i)
  BY <1>4, Zenon
<1>. QED
  BY <1>1, <1>5

(* Only the empty sequence has no elements. *)
LEMMA EmptyRange ==
  ASSUME NEW S, NEW line \in Seq(S)
  PROVE  line = <<>> <=> Range(line) = {}
<1>1. <<>> \in Seq(S) /\ Len(<<>>) = 0 /\ (line # <<>> => Len(line) \in Nat \ {0})
  BY EmptySeq
<1>2. DOMAIN <<>> = {} /\ DOMAIN line = 1 .. Len(line)
  BY LenProperties
<1>3. line # <<>> => 1 \in DOMAIN line
  BY <1>1, <1>2
<1>. QED
  BY <1>2, <1>3 DEF Range

(* An appended element joins the others, and repeats none if it is new. *)
LEMMA AppendFacts ==
  ASSUME NEW S, NEW line \in Seq(S), NEW x \in S
  PROVE  /\ Append(line, x) \in Seq(S)
         /\ Range(Append(line, x)) = Range(line) \cup {x}
         /\ IsInjective(line) /\ x \notin Range(line) => IsInjective(Append(line, x))
<1>. DEFINE a == Append(line, x)
            n == Len(line)
<1>1. /\ a \in Seq(S) /\ n \in Nat /\ Len(a) = n + 1
      /\ \A j \in 1 .. n : a[j] = line[j]
      /\ a[n + 1] = x
  BY AppendProperties, LenProperties
<1>2. DOMAIN a = 1 .. n + 1 /\ DOMAIN line = 1 .. n
  BY <1>1, LenProperties
<1>. HIDE DEF a, n
<1>3. Range(a) = Range(line) \cup {x}
  BY <1>1, <1>2 DEF Range
<1>4. ASSUME IsInjective(line), x \notin Range(line),
             NEW b \in DOMAIN a, NEW c \in DOMAIN a, a[b] = a[c]
      PROVE  b = c
  <2>1. \A j \in 1 .. n : a[j] # x
    BY <1>1, <1>2, <1>4 DEF Range
  <2>2. CASE b \in 1 .. n /\ c \in 1 .. n
    BY <1>1, <1>2, <1>4, <2>2 DEF IsInjective
  <2>. QED
    BY <1>1, <1>2, <1>4, <2>1, <2>2
<1>5. IsInjective(line) /\ x \notin Range(line) => IsInjective(a)
  BY <1>4 DEF IsInjective
<1>. QED
  BY <1>1, <1>3, <1>5 DEF a

(* A line is its head and the rest of it. *)
LEMMA TailFacts ==
  ASSUME NEW S, NEW line \in Seq(S), line # <<>>
  PROVE  /\ Head(line) \in S /\ Tail(line) \in Seq(S)
         /\ Range(line) = {Head(line)} \cup Range(Tail(line))
         /\ IsInjective(line) => /\ IsInjective(Tail(line))
                                 /\ Head(line) \notin Range(Tail(line))
<1>. DEFINE t == Tail(line)
            n == Len(line)
<1>1. /\ Head(line) \in S /\ t \in Seq(S) /\ Len(t) = n - 1
      /\ \A i \in 1 .. Len(t) : t[i] = line[i + 1]
  BY HeadTailProperties
<1>2. n \in Nat \ {0} /\ DOMAIN line = 1 .. n /\ DOMAIN t = 1 .. n - 1
  BY <1>1, EmptySeq, LenProperties
<1>3. Head(line) = line[1]
  OBVIOUS
<1>. HIDE DEF t, n
<1>4. ASSUME NEW i \in DOMAIN line, i # 1
      PROVE  i - 1 \in DOMAIN t /\ t[i - 1] = line[i]
  <2>1. i - 1 \in 1 .. Len(t) /\ (i - 1) + 1 = i
    BY <1>1, <1>2, <1>4
  <2>. QED
    BY <1>1, <1>2, <2>1
<1>5. \A i \in DOMAIN t : t[i] = line[i + 1] /\ i + 1 \in DOMAIN line /\ i + 1 # 1
  BY <1>1, <1>2
<1>6. Range(line) = {Head(line)} \cup Range(t)
  BY <1>2, <1>3, <1>4, <1>5 DEF Range
<1>7. ASSUME IsInjective(line)
      PROVE  IsInjective(t) /\ Head(line) \notin Range(t)
  <2>1. ASSUME NEW i \in DOMAIN t, NEW j \in DOMAIN t, t[i] = t[j]
        PROVE  i = j
    BY <1>2, <1>5, <1>7, <2>1 DEF IsInjective
  <2>2. Head(line) \notin Range(t)
    BY <1>2, <1>3, <1>5, <1>7 DEF Range, IsInjective
  <2>. QED
    BY <2>1, <2>2 DEF IsInjective
<1>. QED
  BY <1>1, <1>6, <1>7 DEF t

(* What a stream sent, writes and keeps, and how it moves from one to the next. *)
LEMMA LineFacts ==
  ASSUME NEW S, NEW a \in Seq(S), NEW b \in Seq(S), NEW c \in Seq(S)
  PROVE  /\ a \o b \o c \in Seq(S)
         /\ b = <<>> => a \o c \o <<>> = a \o b \o c
         /\ b # <<>> => Append(a, Head(b)) \o Tail(b) \o c = a \o b \o c
         /\ \A x \in S : a \o b \o Append(c, x) = Append(a \o b \o c, x)
         /\ a = <<>> /\ c = <<>> => a \o b \o c = b
<1>1. a \o b \in Seq(S) /\ a \o b \o c \in Seq(S) /\ a \o c \in Seq(S)
  BY ConcatProperties
<1>2. b = <<>> => a \o c \o <<>> = a \o b \o c
  BY <1>1, ConcatEmptySeq
<1>3. ASSUME b # <<>>
      PROVE  Append(a, Head(b)) \o Tail(b) = a \o b
  <2>1. Head(b) \in S /\ Tail(b) \in Seq(S) /\ <<Head(b)>> \in Seq(S)
    BY <1>3, HeadTailProperties
  <2>2. <<Head(b)>> \o Tail(b) = b
    <3>. DEFINE h == <<Head(b)>>
    <3>1. h \in Seq(S) /\ Len(h) = 1 /\ h[1] = Head(b)
      BY <2>1
    <3>2. /\ Len(Tail(b)) = Len(b) - 1 /\ Len(b) \in Nat \ {0}
          /\ \A i \in 1 .. Len(Tail(b)) : Tail(b)[i] = b[i + 1]
      BY <1>3, HeadTailProperties, EmptySeq
    <3>3. /\ h \o Tail(b) \in Seq(S) /\ Len(h \o Tail(b)) = Len(h) + Len(Tail(b))
          /\ \A i \in 1 .. Len(h) + Len(Tail(b)) :
               (h \o Tail(b))[i] = IF i <= Len(h) THEN h[i] ELSE Tail(b)[i - Len(h)]
      BY <2>1, <3>1, ConcatProperties
    <3>4. Head(b) = b[1]
      OBVIOUS
    <3>. DEFINE u == h \o Tail(b)
    <3>5. u \in Seq(S) /\ Len(u) = Len(b)
      BY <3>1, <3>2, <3>3
    <3>6. ASSUME NEW i \in 1 .. Len(u)
          PROVE  u[i] = b[i]
      <4>1. u[i] = IF i <= 1 THEN Head(b) ELSE Tail(b)[i - 1]
        BY <3>1, <3>2, <3>3, <3>5
      <4>2. i # 1 => i - 1 \in 1 .. Len(Tail(b)) /\ (i - 1) + 1 = i
        BY <3>2, <3>5
      <4>. HIDE DEF u
      <4>. QED
        BY <3>2, <3>4, <3>5, <4>1, <4>2
    <3>. HIDE DEF u
    <3>7. u = b
      BY <3>5, <3>6, SeqEqual
    <3>. QED
      BY <3>7 DEF u, h
  <2>3. Append(a, Head(b)) = a \o <<Head(b)>>
    BY <2>1, AppendIsConcat
  <2>. QED
    BY <2>1, <2>2, <2>3, ConcatAssociative
<1>4. ASSUME NEW x \in S
      PROVE  a \o b \o Append(c, x) = Append(a \o b \o c, x)
  <2>1. <<x>> \in Seq(S)
    OBVIOUS
  <2>2. /\ Append(c, x) = c \o <<x>>
        /\ Append(a \o b \o c, x) = (a \o b \o c) \o <<x>>
    BY <1>1, AppendIsConcat
  <2>3. ((a \o b) \o c) \o <<x>> = (a \o b) \o (c \o <<x>>)
    BY <1>1, <2>1, ConcatAssociative
  <2>. QED
    BY <2>2, <2>3
<1>5. a = <<>> /\ c = <<>> => a \o b \o c = b
  BY <1>1, ConcatEmptySeq
<1>. QED
  BY <1>1, <1>2, <1>3, <1>4, <1>5

(* What is kept of a sequence is what it has of T, once each if it did so. *)
LEMMA AmongFacts ==
  ASSUME NEW S, NEW line \in Seq(S), NEW T
  PROVE  /\ Among(line, T) \in Seq(S)
         /\ Range(Among(line, T)) = Range(line) \cap T
         /\ IsInjective(line) => IsInjective(Among(line, T))
<1>. DEFINE k(i) == Kept(line, T)[i]
            Before(i) == {line[j] : j \in 1 .. i}
            good == {i \in 0 .. Len(line) :
                       /\ k(i) \in Seq(S)
                       /\ Range(k(i)) = Before(i) \cap T
                       /\ IsInjective(line) => IsInjective(k(i))}
<1>1. /\ Len(line) \in Nat /\ \A i \in 1 .. Len(line) : line[i] \in S
      /\ DOMAIN line = 1 .. Len(line)
  BY ElementOfSeq, LenProperties
<1>2. 0 \in good
  <2>1. k(0) = <<>>
    BY <1>1, KeptIs DEF KeptStep
  <2>2. <<>> \in Seq(S) /\ DOMAIN <<>> = {}
    BY EmptySeq
  <2>3. Range(<<>>) = {} /\ IsInjective(<<>>)
    BY <2>2 DEF Range, IsInjective
  <2>4. Before(0) = {} /\ 0 \in 0 .. Len(line)
    BY <1>1
  <2>. HIDE DEF k, Before
  <2>. QED
    BY <2>1, <2>2, <2>3, <2>4
<1>3. ASSUME NEW i \in 0 .. Len(line), i \in good, i < Len(line)
      PROVE  i + 1 \in good
  <2>1. /\ i \in Nat /\ i + 1 \in 1 .. Len(line) /\ i + 1 \in 0 .. Len(line) /\ (i + 1) - 1 = i
        /\ i + 1 # 0
    BY <1>1, <1>3
  <2>2. k(i + 1) = IF line[i + 1] \in T THEN Append(k(i), line[i + 1]) ELSE k(i)
    BY <2>1, KeptIs DEF KeptStep
  <2>. HIDE DEF k
  <2>3. Before(i + 1) = Before(i) \cup {line[i + 1]}
    BY <2>1
  <2>4. /\ k(i) \in Seq(S) /\ Range(k(i)) = Before(i) \cap T
        /\ IsInjective(line) => IsInjective(k(i))
    BY <1>3
  <2>5. CASE line[i + 1] \notin T
    BY <2>1, <2>2, <2>3, <2>4, <2>5
  <2>6. CASE line[i + 1] \in T
    <3>. DEFINE x == line[i + 1]
                a == Append(k(i), x)
    <3>1. x \in S /\ k(i + 1) = a
      BY <1>1, <2>1, <2>2, <2>6
    <3>2. IsInjective(line) => x \notin Before(i)
      BY <1>1, <2>1 DEF IsInjective
    <3>3. /\ a \in Seq(S) /\ Range(a) = Range(k(i)) \cup {x}
          /\ IsInjective(k(i)) /\ x \notin Range(k(i)) => IsInjective(a)
      BY <2>4, <3>1, AppendFacts
    <3>. HIDE DEF a, Before
    <3>4. Range(a) = Before(i + 1) \cap T
      BY <2>3, <2>4, <2>6, <3>3
    <3>. QED
      BY <2>1, <2>4, <3>1, <3>2, <3>3, <3>4
  <2>. QED
    BY <2>5, <2>6
<1>4. Len(line) \in good
  <2>. HIDE DEF good
  <2>1. \A i \in 0 .. Len(line) : i \in good
    BY <1>1, <1>2, <1>3, UpTo
  <2>. QED
    BY <1>1, <2>1
<1>5. Range(line) = Before(Len(line))
  BY <1>1 DEF Range
<1>6. Among(line, T) = k(Len(line))
  BY KeptIs
<1>. HIDE DEF k, Before
<1>. QED
  BY <1>4, <1>5, <1>6

-----------------------------------------------------------------------------
(* Types *)

Events == 1 .. last_sequence

\* What travels: an event that was emitted, or a snapshot of some of them.
Items == {i \in [kind : {"event", "snapshot"}, number : 0 .. last_sequence] :
            i.kind = "event" => i.number # 0}

\* The last event that callbacks are run for is one.
GameTyped ==
  /\ emitted \in Seq(Audiences) /\ finished \in BOOLEAN /\ locked \in BOOLEAN
  /\ calling \in Seq(Streams) /\ subscribers \in Seq(Streams)
  /\ stage \in [Streams -> Stages]
  /\ broken \subseteq Streams /\ dropped \subseteq Streams
  /\ calling # <<>> => last_sequence # 0

FlowTyped ==
  /\ pending \in [Streams -> Seq(Events)] /\ batch \in [Streams -> Seq(Events)]
  /\ sent \in [Streams -> Seq(Events)] /\ wire \in [Streams -> Seq(Items)]
  /\ \A s \in Streams : Len(pending[s]) <= MaxPending

ClientTyped ==
  /\ snapshot \in [Streams -> 0 .. last_sequence]
  /\ since \in [StateStreams -> 0 .. last_sequence]
  /\ client \in [action : ActionStreams \cup {NoStream}, state : StateStreams \cup {NoStream},
                 seen : SUBSET Events, last : 0 .. last_sequence, over : BOOLEAN]

Typed == GameTyped /\ FlowTyped /\ ClientTyped

(* An emission adds one event; nothing else does. *)
LEMMA Grows ==
  ASSUME emitted \in Seq(Audiences), [Next]_vars
  PROVE  /\ last_sequence \in Nat /\ last_sequence' \in Nat
         /\ Emit \/ GameOver =>
              /\ \E to \in Audiences : emitted' = Append(emitted, to)
              /\ last_sequence' = last_sequence + 1
              /\ \A n \in Events : emitted'[n] = emitted[n]
         /\ ~(Emit \/ GameOver) => UNCHANGED emitted
         /\ emitted' \in Seq(Audiences)
<1>1. last_sequence \in Nat
  BY LenProperties DEF last_sequence
<1>2. ASSUME NEW to \in Audiences, emitted' = Append(emitted, to)
      PROVE  /\ last_sequence' = last_sequence + 1
             /\ \A n \in Events : emitted'[n] = emitted[n]
             /\ emitted' \in Seq(Audiences)
  BY <1>2, AppendProperties DEF last_sequence, Events
<1>3. CASE Emit \/ GameOver
  <2>1. PICK to \in Audiences : emitted' = Append(emitted, to)
    BY <1>3 DEF Emit, GameOver, Audiences
  <2>2. /\ last_sequence' = last_sequence + 1
        /\ \A n \in Events : emitted'[n] = emitted[n]
        /\ emitted' \in Seq(Audiences)
    BY <1>2, <2>1
  <2>3. last_sequence' \in Nat
    BY <1>1, <2>2
  <2>. QED
    BY <1>1, <1>3, <2>1, <2>2, <2>3, Zenon
<1>4. CASE ~(Emit \/ GameOver)
  <2>1. UNCHANGED emitted
    BY <1>4 DEF Next, CallBack, Begin, BeginAction, BeginState, Subscribed, Snapshotted, Replay,
       Join, Reconnect, CloseState, Serve, Loop, End, TakeBatch, Write, Receive, Lose, vars, game
  <2>. QED
    BY <1>1, <1>4, <2>1 DEF last_sequence
<1>. QED
  BY <1>3, <1>4

(* What was a sequence of events or items stays one as the history grows. *)
LEMMA StillTyped ==
  ASSUME last_sequence \in Nat, last_sequence' \in Nat, last_sequence <= last_sequence'
  PROVE  /\ Events \subseteq Events' /\ 0 .. last_sequence \subseteq 0 .. last_sequence'
         /\ Seq(Events) \subseteq Seq(Events') /\ Seq(Items) \subseteq Seq(Items')
<1>1. Events \subseteq Events' /\ 0 .. last_sequence \subseteq 0 .. last_sequence'
  BY DEF Events
<1>2. Items \subseteq Items'
  BY <1>1 DEF Items
<1>3. Seq(Events) \subseteq Seq(Events')
  BY <1>1, SeqMonotonic
<1>4. Seq(Items) \subseteq Seq(Items')
  BY <1>2, SeqMonotonic
<1>. QED
  BY <1>1, <1>3, <1>4

(* Another stream of a kind that still has fresh ones is one of them. *)
LEMMA AnotherIsFresh ==
  ASSUME NEW S, Fresh(S) # {}
  PROVE  Another(S) \in S /\ stage[Another(S)] = "idle"
BY DEF Another, Fresh

(* At the start there is a stream to begin with. *)
LEMMA FirstIsFresh ==
  ASSUME \A s \in Streams : stage[s] = "idle"
  PROVE  Another(ActionStreams) \in ActionStreams /\ stage[Another(ActionStreams)] = "idle"
<1>1. Fresh(ActionStreams) # {}
  BY StreamsDiffer DEF Fresh, Streams
<1>. QED
  BY <1>1, AnotherIsFresh

(* In particular of a sequence of streams. *)
LEMMA AmongStreams ==
  ASSUME NEW line \in Seq(Streams), NEW T
  PROVE  /\ Among(line, T) \in Seq(Streams)
         /\ Range(Among(line, T)) = Range(line) \cap T
         /\ IsInjective(line) => IsInjective(Among(line, T))
BY AmongFacts

(* Every step keeps the types of the broadcaster's state. *)
LEMMA GameTypedNext ==
  ASSUME GameTyped, [Next]_vars
  PROVE  GameTyped'
<1>. USE DEF GameTyped
<1>1. /\ emitted' \in Seq(Audiences) /\ last_sequence \in Nat /\ last_sequence' \in Nat
      /\ UNCHANGED emitted \/ last_sequence' = last_sequence + 1
  BY Grows
<1>2. CASE Emit \/ GameOver
  <2>1. /\ last_sequence' # 0
        /\ calling' \in Seq(Streams) /\ locked' \in BOOLEAN /\ finished' \in BOOLEAN
    <3>1. last_sequence' = last_sequence + 1
      BY <1>2, Grows
    <3>2. last_sequence' # 0
      BY <1>1, <3>1
    <3>3. CASE Emit
      <4>1. PICK to : calling' = Among(subscribers, {s \in Streams : Wants(s, to)})
        BY <3>3 DEF Emit
      <4>2. calling' \in Seq(Streams)
        BY <4>1, AmongStreams
      <4>3. locked' = FALSE \/ locked' = (calling' # <<>>)
        BY <3>3 DEF Emit
      <4>. QED
        BY <3>2, <3>3, <4>2, <4>3 DEF Emit
    <3>4. CASE GameOver
      BY <3>2, <3>4 DEF GameOver
    <3>. QED
      BY <1>2, <3>3, <3>4
  <2>. QED
    BY <1>1, <1>2, <2>1 DEF Emit, GameOver, flow
<1>3. CASE CallBack
  <2>1. Tail(calling) \in Seq(Streams) /\ Head(calling) \in Streams
    BY <1>3, TailFacts DEF CallBack, Emitting
  <2>2. last_sequence' = last_sequence
    BY <1>3 DEF CallBack, last_sequence
  <2>3. dropped' \subseteq Streams
    BY <1>3, <2>1 DEF CallBack
  <2>4. locked' = (locked /\ calling' # <<>>)
    BY <1>3 DEF CallBack
  <2>. QED
    BY <1>1, <1>3, <2>1, <2>2, <2>3, <2>4 DEF CallBack, Emitting
<1>4. CASE Begin
  <2>1. ASSUME NEW s \in Streams, NEW next \in {"subscribed", "loop"}, Subscribed(s, next)
        PROVE  GameTyped'
    <3>1. subscribers' \in Seq(Streams)
      BY <2>1, AppendFacts DEF Subscribed
    <3>. QED
      BY <1>1, <2>1, <3>1 DEF Subscribed, Stages, last_sequence, flow
  <2>2. ASSUME NEW s \in Streams, Snapshotted(s, "loop") \/ Replay(s)
        PROVE  GameTyped'
    BY <1>1, <2>2 DEF Snapshotted, Replay, Stages, last_sequence, game
  <2>. QED
    BY <1>4, <2>1, <2>2 DEF Begin, BeginAction, BeginState, Streams
<1>5. CASE Join
  <2>1. Another(ActionStreams) \in Streams
    BY <1>5, FirstIsFresh DEF Join, Streams
  <2>. QED
    BY <1>1, <1>5, <2>1 DEF Join, Stages, last_sequence, game, flow
<1>6. CASE Reconnect
  <2>1. stage' \in [Streams -> Stages]
    <3>1. Another(ActionStreams) \in Streams
      BY <1>6, AnotherIsFresh DEF Reconnect, Streams
    <3>2. Fresh(StateStreams) # {} => Another(StateStreams) \in Streams
      BY AnotherIsFresh DEF Streams
    <3>. QED
      BY <1>6, <3>1, <3>2 DEF Reconnect, Stages
  <2>. QED
    BY <1>1, <1>6, <2>1 DEF Reconnect, last_sequence, game
<1>7. CASE CloseState
  BY <1>1, <1>7 DEF CloseState, last_sequence, game, flow
<1>8. ASSUME NEW s \in Streams, Serve(s)
      PROVE  GameTyped'
  <2>1. CASE Loop(s) \/ TakeBatch(s) \/ Write(s)
    BY <1>1, <2>1 DEF Loop, TakeBatch, Write, Stages, last_sequence, game, flow
  <2>2. CASE End(s)
    <3>1. subscribers' \in Seq(Streams)
      BY <2>2, AmongStreams DEF End, Unsubscribe
    <3>. QED
      BY <1>1, <2>2, <3>1 DEF End, Stages, last_sequence, flow
  <2>. QED
    BY <1>8, <2>1, <2>2 DEF Serve
<1>9. ASSUME NEW s \in Streams, Receive(s)
      PROVE  GameTyped'
  BY <1>1, <1>9 DEF Receive, last_sequence, game
<1>10. ASSUME NEW s \in Streams, Lose(s)
       PROVE  GameTyped'
  <2>1. /\ subscribers' \in Seq(Streams) /\ calling' \in Seq(Streams)
        /\ calling' # <<>> => calling # <<>>
    <3>1. subscribers' \in Seq(Streams) /\ calling' \in Seq(Streams)
      BY <1>10, AmongStreams DEF Lose, Unsubscribe
    <3>2. Range(calling') \subseteq Range(calling)
      BY <1>10, AmongStreams DEF Lose
    <3>3. ASSUME calling = <<>>
          PROVE  calling' = <<>>
      <4>1. Range(calling) = {}
        BY <3>3, EmptyRange
      <4>2. Range(calling') = {}
        BY <3>2, <4>1
      <4>. QED
        BY <3>1, <4>2, EmptyRange
    <3>. QED
      BY <3>1, <3>3
  <2>2. locked' = (locked /\ calling' # <<>>)
    BY <1>10 DEF Lose
  <2>. QED
    BY <1>1, <1>10, <2>1, <2>2 DEF Lose, Stages, last_sequence
<1>11. CASE UNCHANGED vars
  BY <1>1, <1>11 DEF vars, game, flow, last_sequence
<1>. QED
  BY <1>2, <1>3, <1>4, <1>5, <1>6, <1>7, <1>8, <1>9, <1>10, <1>11 DEF Next

(* What an action does not touch keeps its type as the history grows. *)
LEMMA FlowUntouched ==
  ASSUME FlowTyped, emitted \in Seq(Audiences), [Next]_vars, UNCHANGED flow
  PROVE  FlowTyped'
<1>1. /\ Seq(Events) \subseteq Seq(Events') /\ Seq(Items) \subseteq Seq(Items')
  <2>1. /\ last_sequence \in Nat /\ last_sequence' \in Nat
        /\ UNCHANGED emitted \/ last_sequence' = last_sequence + 1
    BY Grows
  <2>2. last_sequence <= last_sequence'
    BY <2>1 DEF last_sequence
  <2>. QED
    BY <2>1, <2>2, StillTyped
<1>2. /\ pending' = pending /\ batch' = batch /\ sent' = sent /\ wire' = wire
  BY DEF flow
<1>. HIDE DEF Events, Items
<1>3. ASSUME NEW s \in Streams
      PROVE  pending[s] \in Seq(Events) /\ batch[s] \in Seq(Events) /\ sent[s] \in Seq(Events)
             /\ wire[s] \in Seq(Items)
  BY DEF FlowTyped
<1>. QED
  BY <1>1, <1>2, <1>3 DEF FlowTyped

(* An item put on the wire joins the others. *)
LEMMA WireTyped ==
  ASSUME FlowTyped, NEW s \in Streams, NEW item \in Items
  PROVE  [wire EXCEPT ![s] = Append(@, item)] \in [Streams -> Seq(Items)]
<1>. HIDE DEF Items
<1>1. wire[s] \in Seq(Items) /\ wire \in [Streams -> Seq(Items)]
  BY DEF FlowTyped
<1>2. Append(wire[s], item) \in Seq(Items)
  BY <1>1, AppendProperties
<1>. QED
  BY <1>1, <1>2

(* The events read from the log were emitted, and come after those asked for. *)
LEMMA EventsSince ==
  ASSUME last_sequence \in Nat, NEW n \in 0 .. last_sequence
  PROVE  /\ get_events_since(n) \in Seq(Events)
         /\ LET line == get_events_since(n)
            IN  /\ \A i, j \in DOMAIN line : i < j => line[i] < line[j]
                /\ \A i \in DOMAIN line : line[i] > n
<1>. DEFINE from == IF n > forgotten THEN n ELSE forgotten
            line == [i \in 1 .. last_sequence - from |-> from + i]
<1>1. get_events_since(n) = line
  BY DEF get_events_since
<1>2. forgotten \in 0 .. last_sequence
  BY LimitsAreNumbers DEF forgotten
<1>3. from \in 0 .. last_sequence /\ from >= n
  BY <1>2
<1>. HIDE DEF from
<1>4. last_sequence - from \in Nat /\ \A i \in 1 .. last_sequence - from : from + i \in Events
  BY <1>3 DEF Events
<1>5. line \in Seq(Events)
  <2>. DEFINE k == last_sequence - from
  <2>1. k \in Nat /\ line \in [1 .. k -> Events]
    BY <1>4
  <2>. HIDE DEF k, line
  <2>. QED
    BY <2>1, SeqDef
<1>6. \A i, j \in DOMAIN line : i < j => line[i] < line[j]
  BY <1>3
<1>7. \A i \in DOMAIN line : line[i] > n
  BY <1>3
<1>. QED
  BY <1>1, <1>5, <1>6, <1>7

(* Every step keeps the types of what travels, and the limit of pending. *)
LEMMA FlowTypedNext ==
  ASSUME GameTyped, FlowTyped, ClientTyped, [Next]_vars
  PROVE  FlowTyped'
<1>. DEFINE Line == Seq(Events)
            Items1 == Items
<1>1. /\ emitted \in Seq(Audiences) /\ last_sequence \in Nat
      /\ calling \in Seq(Streams)
      /\ calling # <<>> => last_sequence # 0
  BY LenProperties DEF GameTyped, last_sequence
<1>2. /\ pending \in [Streams -> Line] /\ batch \in [Streams -> Line]
      /\ sent \in [Streams -> Line] /\ wire \in [Streams -> Seq(Items1)]
      /\ \A s \in Streams : Len(pending[s]) <= MaxPending
  BY DEF FlowTyped
<1>3. <<>> \in Line /\ <<>> \in Seq(Items1) /\ Len(<<>>) <= MaxPending
  BY LimitsAreNumbers, EmptySeq
<1>4. UNCHANGED emitted => Events' = Events /\ Items' = Items
  BY DEF Events, Items, last_sequence
<1>. HIDE DEF Line, Items1
<1>5. ASSUME UNCHANGED emitted,
             pending' \in [Streams -> Line], batch' \in [Streams -> Line],
             sent' \in [Streams -> Line], wire' \in [Streams -> Seq(Items1)],
             \A s \in Streams : Len(pending'[s]) <= MaxPending
      PROVE  FlowTyped'
  BY <1>4, <1>5 DEF FlowTyped, Line, Items1
<1>6. CASE Emit \/ GameOver \/ Join \/ CloseState
  <2>1. UNCHANGED flow
    BY <1>6 DEF Emit, GameOver, Join, CloseState
  <2>. QED
    BY <1>1, <2>1, FlowUntouched
<1>7. CASE CallBack
  <2>. DEFINE s == Head(calling)
  <2>1. s \in Streams /\ UNCHANGED <<emitted, batch, sent, wire>> /\ last_sequence \in Events
    BY <1>1, <1>7, TailFacts DEF CallBack, Emitting, Events
  <2>2. CASE UNCHANGED pending
    BY <1>2, <1>5, <2>1, <2>2
  <2>3. CASE Room(s) /\ pending' = [pending EXCEPT ![s] = Append(@, last_sequence)]
    <3>1. /\ Append(pending[s], last_sequence) \in Line
          /\ Len(Append(pending[s], last_sequence)) = Len(pending[s]) + 1
          /\ Len(pending[s]) \in Nat
      BY <1>2, <2>1, AppendProperties, LenProperties DEF Line
    <3>. HIDE DEF s
    <3>2. /\ pending' \in [Streams -> Line]
          /\ \A r \in Streams : pending'[r] = IF r = s THEN Append(pending[s], last_sequence)
                                              ELSE pending[r]
      BY <1>2, <2>1, <2>3, <3>1
    <3>3. \A r \in Streams : Len(pending'[r]) <= MaxPending
      BY <1>2, <2>3, <3>1, <3>2, LimitsAreNumbers DEF Room
    <3>. QED
      BY <1>2, <1>5, <2>1, <3>2, <3>3
  <2>. QED
    BY <1>7, <2>2, <2>3 DEF CallBack
<1>8. CASE Begin
  <2>1. ASSUME NEW s \in Streams, NEW next, Subscribed(s, next)
        PROVE  FlowTyped'
    BY <1>1, <2>1, FlowUntouched DEF Subscribed
  <2>2. ASSUME NEW s \in Streams, Snapshotted(s, "loop")
        PROVE  FlowTyped'
    <3>1. [kind |-> "snapshot", number |-> last_sequence] \in Items
      BY <1>1 DEF Items
    <3>2. wire' \in [Streams -> Seq(Items1)]
      BY <2>2, <3>1, WireTyped DEF Snapshotted, OnWire, Items1
    <3>. QED
      BY <1>2, <1>5, <2>2, <3>2 DEF Snapshotted, game
  <2>3. ASSUME NEW s \in StateStreams, Replay(s)
        PROVE  FlowTyped'
    <3>1. since[s] \in 0 .. last_sequence /\ s \in Streams
      BY DEF ClientTyped, Streams
    <3>2. get_events_since(since[s]) \in Line
      BY <1>1, <3>1, EventsSince DEF Line
    <3>. QED
      BY <1>2, <1>5, <2>3, <3>1, <3>2 DEF Replay, game
  <2>. QED
    BY <1>8, <2>1, <2>2, <2>3 DEF Begin, BeginAction, BeginState, Streams
<1>9. CASE Reconnect
  BY <1>2, <1>5, <1>9 DEF Reconnect, game
<1>10. ASSUME NEW s \in Streams, Serve(s)
       PROVE  FlowTyped'
  <2>1. CASE Loop(s) \/ End(s)
    BY <1>1, <2>1, FlowUntouched DEF Loop, End
  <2>2. CASE TakeBatch(s)
    <3>1. pending[s] \in Line
      BY <1>2
    <3>2. \A r \in Streams : pending'[r] = <<>> \/ pending'[r] = pending[r]
      BY <1>2, <2>2 DEF TakeBatch, TakePending
    <3>. QED
      BY <1>2, <1>3, <1>5, <2>2, <3>1, <3>2 DEF TakeBatch, TakePending, game
  <2>3. CASE Write(s)
    <3>1. batch[s] \in Seq(Events) /\ batch[s] # <<>> /\ sent[s] \in Seq(Events)
      BY <1>2, <2>3 DEF Write, Line
    <3>2. Head(batch[s]) \in Events /\ Tail(batch[s]) \in Seq(Events)
      BY <3>1, TailFacts
    <3>3. Append(sent[s], Head(batch[s])) \in Seq(Events)
      BY <3>1, <3>2, AppendProperties
    <3>4. [kind |-> "event", number |-> Head(batch[s])] \in Items
      BY <1>1, <3>2 DEF Items, Events
    <3>5. wire' \in [Streams -> Seq(Items1)]
      BY <2>3, <3>4, WireTyped DEF Write, OnWire, Items1
    <3>6. batch' \in [Streams -> Line] /\ sent' \in [Streams -> Line]
      BY <1>2, <2>3, <3>2, <3>3 DEF Write, Line
    <3>. QED
      BY <1>2, <1>5, <2>3, <3>5, <3>6 DEF Write, game
  <2>. QED
    BY <1>10, <2>1, <2>2, <2>3 DEF Serve
<1>11. ASSUME NEW s \in Streams, Receive(s)
       PROVE  FlowTyped'
  <2>1. wire[s] # <<>> /\ wire[s] \in Seq(Items1)
    BY <1>2, <1>11 DEF Receive
  <2>2. Tail(wire[s]) \in Seq(Items1)
    BY <2>1, TailFacts
  <2>. QED
    BY <1>2, <1>5, <1>11, <2>2 DEF Receive, game
<1>12. ASSUME NEW s \in Streams, Lose(s)
       PROVE  FlowTyped'
  <2>1. \A r \in Streams : pending'[r] = <<>> \/ pending'[r] = pending[r]
    BY <1>2, <1>12 DEF Lose
  <2>. QED
    BY <1>2, <1>3, <1>5, <1>12, <2>1 DEF Lose
<1>13. CASE UNCHANGED vars
  BY <1>1, <1>13, FlowUntouched DEF vars
<1>. QED
  BY <1>6, <1>7, <1>8, <1>9, <1>10, <1>11, <1>12, <1>13 DEF Next

(* What the client is told of was emitted. *)
LEMMA ClientTypedNext ==
  ASSUME GameTyped, FlowTyped, ClientTyped, [Next]_vars
  PROVE  ClientTyped'
<1>. DEFINE upTo == 0 .. last_sequence
            Client == [action : ActionStreams \cup {NoStream},
                       state : StateStreams \cup {NoStream},
                       seen : SUBSET Events, last : upTo, over : BOOLEAN]
<1>1. /\ emitted \in Seq(Audiences) /\ last_sequence \in Nat /\ last_sequence' \in Nat
      /\ UNCHANGED emitted \/ last_sequence' = last_sequence + 1
  BY Grows DEF GameTyped
<1>2. /\ snapshot \in [Streams -> upTo] /\ since \in [StateStreams -> upTo] /\ client \in Client
      /\ client.action \in ActionStreams \cup {NoStream}
      /\ client.state \in StateStreams \cup {NoStream}
      /\ client.seen \in SUBSET Events /\ client.last \in upTo /\ client.over \in BOOLEAN
  BY DEF ClientTyped
<1>3. Events \subseteq Events' /\ upTo \subseteq 0 .. last_sequence'
  BY <1>1 DEF Events, last_sequence
<1>4. ASSUME snapshot' \in [Streams -> upTo], since' \in [StateStreams -> upTo],
             client' \in Client
      PROVE  ClientTyped'
  <2>. HIDE DEF upTo
  <2>. QED
    BY <1>3, <1>4 DEF ClientTyped
<1>. HIDE DEF upTo, Client
<1>5. last_sequence \in upTo
  BY <1>1 DEF upTo
<1>6. CASE Emit \/ GameOver \/ CallBack
  BY <1>2, <1>4, <1>6 DEF Emit, GameOver, CallBack, flow
<1>7. CASE Begin
  <2>1. ASSUME NEW s \in Streams, NEW next, Subscribed(s, next) \/ Replay(s)
        PROVE  ClientTyped'
    BY <1>2, <1>4, <2>1 DEF Subscribed, Replay, flow
  <2>2. ASSUME NEW s \in Streams, Snapshotted(s, "loop")
        PROVE  ClientTyped'
    BY <1>2, <1>4, <1>5, <2>2 DEF Snapshotted
  <2>. QED
    BY <1>7, <2>1, <2>2 DEF Begin, BeginAction, BeginState, Streams
<1>8. CASE Join
  <2>1. Another(ActionStreams) \in ActionStreams
    BY <1>8, FirstIsFresh DEF Join
  <2>2. client' \in Client
    BY <1>2, <1>8, <2>1 DEF Join, Client
  <2>. QED
    BY <1>2, <1>4, <1>8, <2>2 DEF Join, flow
<1>9. CASE Reconnect
  <2>1. Another(ActionStreams) \in ActionStreams
    BY <1>9, AnotherIsFresh DEF Reconnect
  <2>2. Fresh(StateStreams) # {} => Another(StateStreams) \in StateStreams
    BY AnotherIsFresh
  <2>3. client' \in Client
    BY <1>2, <1>9, <2>1, <2>2 DEF Reconnect, Client
  <2>4. since' \in [StateStreams -> upTo]
    BY <1>2, <1>9, <2>2 DEF Reconnect
  <2>. QED
    BY <1>2, <1>4, <1>9, <2>3, <2>4 DEF Reconnect
<1>10. CASE CloseState
  <2>1. client' \in Client
    BY <1>2, <1>10 DEF CloseState, Client
  <2>. QED
    BY <1>2, <1>4, <1>10, <2>1 DEF CloseState, flow
<1>11. ASSUME NEW s \in Streams, Serve(s)
       PROVE  ClientTyped'
  BY <1>2, <1>4, <1>11 DEF Serve, Loop, End, TakeBatch, Write, flow
<1>12. ASSUME NEW s \in Streams, Receive(s)
       PROVE  ClientTyped'
  <2>. DEFINE item == Head(wire[s])
              n == item.number
              event == item.kind = "event"
              seen1 == client.seen \cup (IF event THEN {n} ELSE 1 .. n)
              last1 == IF event /\ n > client.last THEN n ELSE client.last
              over1 == client.over \/ (event /\ emitted[n] = "game_over")
  <2>1. item \in Items
    BY <1>12, TailFacts DEF FlowTyped, Receive
  <2>2. n \in 0 .. last_sequence /\ (event => n # 0)
    BY <2>1 DEF Items
  <2>3. seen1 \in SUBSET Events /\ last1 \in upTo
    BY <1>1, <1>2, <2>2 DEF Events, upTo
  <2>4. over1 \in BOOLEAN
    BY <1>2
  <2>5. client' = [client EXCEPT !.seen = seen1, !.last = last1, !.over = over1]
    BY <1>2, <1>12 DEF Receive
  <2>. HIDE DEF seen1, last1, over1
  <2>6. client' \in Client
    BY <1>2, <2>3, <2>4, <2>5 DEF Client
  <2>. QED
    BY <1>2, <1>4, <1>12, <2>6 DEF Receive
<1>13. ASSUME NEW s \in Streams, Lose(s)
       PROVE  ClientTyped'
  <2>1. client' \in Client
    BY <1>2, <1>13 DEF Lose, Client
  <2>. QED
    BY <1>2, <1>4, <1>13, <2>1 DEF Lose
<1>14. CASE UNCHANGED vars
  BY <1>2, <1>4, <1>14 DEF vars, flow
<1>. QED
  BY <1>6, <1>7, <1>8, <1>9, <1>10, <1>11, <1>12, <1>13, <1>14 DEF Next

-----------------------------------------------------------------------------
(* Where a stream is *)

\* A stream takes part in emissions from its subscription on; what it is to
\* write is written whole before it takes more.
Placed(s) ==
  /\ stage[s] \in {"idle", "opened"} => sent[s] = <<>> /\ batch[s] = <<>>
  /\ stage[s] \in {"idle", "opened", "replay"} =>
       pending[s] = <<>> /\ s \notin Range(subscribers) /\ s \notin Range(calling)
  /\ stage[s] \in {"subscribed", "loop", "waiting"} => batch[s] = <<>>
  /\ stage[s] \in {"subscribed", "loop", "waiting", "writing"} => s \in Range(subscribers)

\* It is subscribed and called back once.
Orderly ==
  /\ IsInjective(subscribers) /\ IsInjective(calling)
  /\ \A s \in Streams : Placed(s)

(* A stream that was not subscribed is then subscribed once, and not called back
   for the event that is being told. *)
LEMMA SubscribedInOrder ==
  ASSUME GameTyped, FlowTyped, Orderly, NEW s \in Streams, NEW next, Subscribed(s, next),
         \/ stage[s] = "opened" /\ next = "subscribed"
         \/ stage[s] = "replay" /\ batch[s] = <<>> /\ next = "loop"
  PROVE  Orderly'
<1>1. s \notin Range(subscribers) /\ IsInjective(subscribers) /\ batch[s] = <<>>
  BY DEF Orderly, Placed
<1>2. Range(subscribers') = Range(subscribers) \cup {s} /\ IsInjective(subscribers')
  BY <1>1, AppendFacts DEF GameTyped, Subscribed
<1>3. ASSUME NEW r \in Streams
      PROVE  Placed(r)'
  <2>1. Placed(r)
    BY DEF Orderly
  <2>2. stage'[r] = IF r = s THEN next ELSE stage[r]
    BY DEF GameTyped, Subscribed
  <2>3. UNCHANGED <<pending, batch, sent, calling>>
    BY DEF Subscribed, flow
  <2>. QED
    BY <1>1, <1>2, <2>1, <2>2, <2>3 DEF Placed
<1>. QED
  BY <1>2, <1>3 DEF Orderly, Subscribed

(* A stream that ends, and is unsubscribed, leaves the others in order. *)
LEMMA EndedInOrder ==
  ASSUME GameTyped, Orderly, NEW s \in Streams,
         stage' = [stage EXCEPT ![s] = "ended"], Unsubscribe(s),
         calling' = calling \/ calling' = Among(calling, Streams \ {s}),
         \A r \in Streams \ {s} : /\ pending'[r] = pending[r] /\ batch'[r] = batch[r]
                                  /\ sent'[r] = sent[r]
  PROVE  Orderly'
<1>1. IsInjective(subscribers) /\ IsInjective(calling)
  BY DEF Orderly
<1>2. Range(subscribers') = Range(subscribers) \cap (Streams \ {s}) /\ IsInjective(subscribers')
  BY <1>1, AmongStreams DEF GameTyped, Unsubscribe
<1>3. Range(calling') \subseteq Range(calling) /\ IsInjective(calling')
  <2>1. CASE calling' = calling
    BY <1>1, <2>1
  <2>2. CASE calling' = Among(calling, Streams \ {s})
    <3>1. calling \in Seq(Streams)
      BY DEF GameTyped
    <3>. QED
      BY <1>1, <2>2, <3>1, AmongStreams
  <2>. QED
    BY <2>1, <2>2
<1>4. ASSUME NEW r \in Streams
      PROVE  Placed(r)'
  <2>1. Placed(r)
    BY DEF Orderly
  <2>2. stage'[r] = IF r = s THEN "ended" ELSE stage[r]
    BY DEF GameTyped
  <2>. QED
    BY <1>2, <1>3, <2>1, <2>2 DEF Placed
<1>. QED
  BY <1>2, <1>3, <1>4 DEF Orderly

(* Every step leaves each stream where its stage says. *)
LEMMA OrderlyNext ==
  ASSUME Typed, Orderly, [Next]_vars
  PROVE  Orderly'
<1>. USE DEF Typed
<1>1. /\ calling \in Seq(Streams) /\ subscribers \in Seq(Streams)
      /\ stage \in [Streams -> Stages]
      /\ pending \in [Streams -> Seq(Events)] /\ batch \in [Streams -> Seq(Events)]
      /\ sent \in [Streams -> Seq(Events)]
  BY DEF GameTyped, FlowTyped
<1>2. /\ IsInjective(subscribers) /\ IsInjective(calling)
      /\ \A s \in Streams : Placed(s)
  BY DEF Orderly
<1>3. ASSUME UNCHANGED <<subscribers, calling>>, NEW s \in Streams, Placed(s)',
             \A r \in Streams \ {s} : /\ stage'[r] = stage[r] /\ pending'[r] = pending[r]
                                      /\ batch'[r] = batch[r] /\ sent'[r] = sent[r]
      PROVE  Orderly'
  <2>1. ASSUME NEW r \in Streams
        PROVE  Placed(r)'
    <3>1. CASE r = s
      BY <1>3, <3>1
    <3>2. CASE r # s
      BY <1>2, <1>3, <3>2 DEF Placed
    <3>. QED
      BY <3>1, <3>2
  <2>. QED
    BY <1>2, <1>3, <2>1 DEF Orderly
<1>4. ASSUME UNCHANGED <<subscribers, stage, batch, sent>>,
             Range(calling') \subseteq Range(calling) \cup Range(subscribers),
             IsInjective(calling'),
             \A s \in Streams : pending'[s] # pending[s] => s \in Range(calling)
      PROVE  Orderly'
  BY <1>2, <1>4 DEF Orderly, Placed
<1>5. CASE Emit
  <2>1. PICK to : calling' = Among(subscribers, {s \in Streams : Wants(s, to)})
    BY <1>5 DEF Emit
  <2>2. IsInjective(calling') /\ Range(calling') \subseteq Range(subscribers)
    BY <1>1, <1>2, <2>1, AmongStreams
  <2>. QED
    BY <1>4, <1>5, <2>2 DEF Emit, flow
<1>6. CASE GameOver
  BY <1>2, <1>4, <1>6 DEF GameOver, flow
<1>7. CASE CallBack
  <2>1. /\ IsInjective(calling') /\ Range(calling') \subseteq Range(calling)
        /\ Head(calling) \in Range(calling)
    BY <1>1, <1>2, <1>7, TailFacts DEF CallBack, Emitting
  <2>2. \A s \in Streams : pending'[s] # pending[s] => s = Head(calling)
    BY <1>1, <1>7 DEF CallBack
  <2>. QED
    BY <1>4, <1>7, <2>1, <2>2 DEF CallBack
<1>8. CASE Begin
  <2>1. ASSUME NEW s \in Streams, NEW next, Subscribed(s, next),
               \/ stage[s] = "opened" /\ next = "subscribed"
               \/ stage[s] = "replay" /\ batch[s] = <<>> /\ next = "loop"
        PROVE  Orderly'
    BY <2>1, SubscribedInOrder
  <2>2. ASSUME NEW s \in Streams, stage[s] = "subscribed", Snapshotted(s, "loop")
        PROVE  Orderly'
    <3>1. Placed(s)'
      BY <1>1, <1>2, <2>2 DEF Snapshotted, Placed, game
    <3>. QED
      BY <1>1, <1>3, <2>2, <3>1 DEF Snapshotted, game
  <2>3. ASSUME NEW s \in Streams, stage[s] = "opened", Replay(s)
        PROVE  Orderly'
    <3>1. Placed(s)'
      BY <1>1, <1>2, <2>3 DEF Replay, Placed, game
    <3>. QED
      BY <1>1, <1>3, <2>3, <3>1 DEF Replay, game
  <2>. QED
    BY <1>8, <2>1, <2>2, <2>3 DEF Begin, BeginAction, BeginState, Streams
<1>9. CASE Join
  <2>1. PICK s \in Streams : stage[s] = "idle" /\ stage' = [stage EXCEPT ![s] = "opened"]
    BY <1>9, FirstIsFresh DEF Join, Streams
  <2>2. UNCHANGED <<game, flow>>
    BY <1>9 DEF Join
  <2>3. Placed(s)'
    BY <1>1, <1>2, <2>1, <2>2 DEF Placed, game, flow
  <2>. QED
    BY <1>1, <1>3, <2>1, <2>2, <2>3 DEF game, flow
<1>10. CASE Reconnect
  <2>1. ASSUME NEW r \in Streams, stage'[r] # stage[r]
        PROVE  stage[r] = "idle" /\ stage'[r] = "opened"
    <3>. DEFINE s == Another(ActionStreams)
                t == Another(StateStreams)
    <3>1. s \in Streams /\ stage[s] = "idle"
      BY <1>10, AnotherIsFresh DEF Reconnect, Streams
    <3>2. Fresh(StateStreams) # {} => t \in Streams /\ stage[t] = "idle"
      BY AnotherIsFresh DEF Streams
    <3>3. \/ stage' = [stage EXCEPT ![s] = "opened"]
          \/ /\ Fresh(StateStreams) # {}
             /\ stage' = [stage EXCEPT ![s] = "opened", ![t] = "opened"]
      BY <1>10 DEF Reconnect
    <3>. HIDE DEF s, t
    <3>. QED
      BY <1>1, <2>1, <3>1, <3>2, <3>3
  <2>2. \A r \in Streams : Placed(r)'
    BY <1>2, <1>10, <2>1 DEF Reconnect, Placed, game
  <2>. QED
    BY <1>2, <1>10, <2>2 DEF Reconnect, Orderly, game
<1>11. CASE CloseState \/ \E s \in Streams : Receive(s)
  BY <1>2, <1>11 DEF CloseState, Receive, Orderly, Placed, game, flow
<1>12. ASSUME NEW s \in Streams, Serve(s)
       PROVE  Orderly'
  <2>1. CASE Loop(s)
    <3>1. Placed(s)'
      BY <1>1, <1>2, <2>1 DEF Loop, Placed, game, flow
    <3>. QED
      BY <1>1, <1>3, <2>1, <3>1 DEF Loop, game, flow
  <2>2. CASE End(s)
    BY <2>2, EndedInOrder DEF End, flow
  <2>3. CASE TakeBatch(s)
    <3>1. Placed(s)'
      BY <1>1, <1>2, <2>3 DEF TakeBatch, TakePending, Placed, game
    <3>. QED
      BY <1>1, <1>3, <2>3, <3>1 DEF TakeBatch, TakePending, game
  <2>4. CASE Write(s)
    <3>1. /\ batch[s] \in Seq(Events) /\ batch[s] # <<>>
          /\ Tail(batch[s]) \in Seq(Events) /\ Len(Tail(batch[s])) = Len(batch[s]) - 1
      BY <1>1, <2>4, HeadTailProperties DEF Write
    <3>2. Len(batch[s]) = 1 => Tail(batch[s]) = <<>>
      <4>1. Tail(batch[s]) # <<>> => Len(Tail(batch[s])) \in Nat \ {0}
        BY <3>1, EmptySeq
      <4>. QED
        BY <3>1, <4>1
    <3>3. Placed(s)'
      BY <1>1, <1>2, <2>4, <3>2 DEF Write, Placed, game
    <3>. QED
      BY <1>1, <1>3, <2>4, <3>3 DEF Write, game
  <2>. QED
    BY <1>12, <2>1, <2>2, <2>3, <2>4 DEF Serve
<1>13. ASSUME NEW s \in Streams, Lose(s)
       PROVE  Orderly'
  <2>1. \A r \in Streams \ {s} : /\ pending'[r] = pending[r] /\ batch'[r] = batch[r]
                                 /\ sent'[r] = sent[r]
    BY <1>1, <1>13 DEF Lose
  <2>. QED
    BY <1>13, <2>1, EndedInOrder DEF Lose
<1>14. CASE UNCHANGED vars
  BY <1>2, <1>14 DEF vars, game, flow, Orderly, Placed
<1>. QED
  BY <1>5, <1>6, <1>7, <1>8, <1>9, <1>10, <1>11, <1>12, <1>13, <1>14 DEF Next

-----------------------------------------------------------------------------
(* What a stream has sent and has still to send *)

\* The sequence number after which the stream was asked to begin.
Bottom(s) == IF s \in StateStreams THEN since[s] ELSE 0

Rising(line, n) ==
  /\ \A i, j \in DOMAIN line : i < j => line[i] < line[j]
  /\ \A i \in DOMAIN line : line[i] > n

Advancing == \A s \in Streams : Rising(UnderWay(s), Bottom(s))

\* A stream that is still to be called back has nothing of the last event.
Ahead ==
  \A s \in Range(calling) :
    /\ Bottom(s) < last_sequence
    /\ \A i \in DOMAIN UnderWay(s) : UnderWay(s)[i] < last_sequence

DeliveryInv == Typed /\ Orderly /\ Advancing /\ Ahead /\ NothingLost

(* What a stream has sent and has still to send are events that were emitted. *)
LEMMA UnderWayTyped ==
  ASSUME GameTyped, FlowTyped, NEW s \in Streams
  PROVE  /\ UnderWay(s) \in Seq(Events)
         /\ last_sequence \in Nat
         /\ \A i \in DOMAIN UnderWay(s) : UnderWay(s)[i] \in 1 .. last_sequence
<1>1. UnderWay(s) \in Seq(Events)
  BY LineFacts DEF FlowTyped, UnderWay
<1>2. last_sequence \in Nat
  BY LenProperties DEF GameTyped, last_sequence
<1>3. \A i \in DOMAIN UnderWay(s) : UnderWay(s)[i] \in Events
  BY <1>1, ElementOfSeq, LenProperties
<1>. QED
  BY <1>1, <1>2, <1>3 DEF Events

(* A rising line that is given something higher rises. *)
LEMMA RisingAppend ==
  ASSUME NEW S \in SUBSET Nat, NEW line \in Seq(S), NEW x \in S, NEW n \in Nat,
         Rising(line, n), n < x, \A i \in DOMAIN line : line[i] < x
  PROVE  Rising(Append(line, x), n)
<1>. DEFINE a == Append(line, x)
            m == Len(line)
<1>1. /\ a \in Seq(S) /\ m \in Nat /\ Len(a) = m + 1
      /\ \A j \in 1 .. m : a[j] = line[j]
      /\ a[m + 1] = x
  BY AppendProperties, LenProperties
<1>2. DOMAIN a = 1 .. m + 1 /\ DOMAIN line = 1 .. m
  BY <1>1, LenProperties
<1>. HIDE DEF a, m
<1>3. \A i \in DOMAIN a : i = m + 1 \/ i \in DOMAIN line
  BY <1>1, <1>2
<1>4. \A i, j \in DOMAIN a : i < j => a[i] < a[j]
  BY <1>1, <1>2, <1>3 DEF Rising
<1>5. \A i \in DOMAIN a : a[i] > n
  BY <1>1, <1>2, <1>3 DEF Rising
<1>. QED
  BY <1>4, <1>5 DEF Rising, a

(* Nothing rises trivially. *)
LEMMA RisingEmpty ==
  ASSUME NEW n
  PROVE  Rising(<<>>, n)
BY DEF Rising

(* What a step does to what a stream has sent and has still to send: nothing, an
   event is added, the log is read, or the stream is lost. *)
LEMMA LineMoves ==
  ASSUME Typed, Orderly, [Next]_vars, NEW s \in Streams
  PROVE  \/ UnderWay(s)' = UnderWay(s)
         \/ /\ CallBack /\ s = Head(calling) /\ stage[s] # "ended"
            /\ UnderWay(s)' = Append(UnderWay(s), last_sequence)
         \/ /\ s \in StateStreams /\ stage[s] = "opened" /\ Replay(s)
            /\ UnderWay(s)' = get_events_since(since[s])
         \/ Lose(s) /\ UnderWay(s)' = <<>>
<1>1. /\ stage \in [Streams -> Stages]
      /\ pending \in [Streams -> Seq(Events)] /\ batch \in [Streams -> Seq(Events)]
      /\ sent \in [Streams -> Seq(Events)]
      /\ pending[s] \in Seq(Events) /\ batch[s] \in Seq(Events) /\ sent[s] \in Seq(Events)
  BY DEF Typed, GameTyped, FlowTyped
<1>2. Placed(s)
  BY DEF Orderly
<1>3. ASSUME pending'[s] = pending[s], batch'[s] = batch[s], sent'[s] = sent[s]
      PROVE  UnderWay(s)' = UnderWay(s)
  BY <1>3 DEF UnderWay
<1>4. CASE Emit \/ GameOver \/ Join \/ Reconnect \/ CloseState
  BY <1>3, <1>4 DEF Emit, GameOver, Join, Reconnect, CloseState, flow
<1>5. CASE CallBack
  <2>1. CASE pending' = pending
    BY <1>3, <1>5, <2>1 DEF CallBack
  <2>2. CASE /\ stage[Head(calling)] # "ended"
             /\ pending' = [pending EXCEPT ![Head(calling)] = Append(@, last_sequence)]
    <3>1. CASE s # Head(calling)
      BY <1>1, <1>3, <1>5, <2>2, <3>1 DEF CallBack
    <3>2. CASE s = Head(calling)
      <4>1. last_sequence \in Events
        BY <1>5, LenProperties DEF CallBack, Emitting, Typed, GameTyped, Events, last_sequence
      <4>2. pending'[s] = Append(pending[s], last_sequence) /\ batch' = batch /\ sent' = sent
        BY <1>1, <1>5, <2>2, <3>2 DEF CallBack
      <4>3. UnderWay(s)' = Append(UnderWay(s), last_sequence)
        BY <1>1, <4>1, <4>2, LineFacts DEF UnderWay
      <4>. QED
        BY <1>5, <2>2, <3>2, <4>3
    <3>. QED
      BY <3>1, <3>2
  <2>. QED
    BY <1>5, <2>1, <2>2 DEF CallBack
<1>6. CASE Begin
  <2>1. ASSUME NEW r \in Streams, NEW next, Subscribed(r, next) \/ Snapshotted(r, next)
        PROVE  UnderWay(s)' = UnderWay(s)
    BY <1>3, <2>1 DEF Subscribed, Snapshotted, flow
  <2>2. ASSUME NEW r \in StateStreams, stage[r] = "opened", Replay(r), r # s
        PROVE  UnderWay(s)' = UnderWay(s)
    BY <1>1, <1>3, <2>2 DEF Replay
  <2>3. ASSUME s \in StateStreams, stage[s] = "opened", Replay(s)
        PROVE  UnderWay(s)' = get_events_since(since[s])
    <3>1. sent'[s] = <<>> /\ pending'[s] = <<>> /\ batch'[s] = get_events_since(since[s])
      BY <1>1, <1>2, <2>3 DEF Replay, Placed
    <3>2. get_events_since(since[s]) \in Seq(Events)
      <4>1. since[s] \in 0 .. last_sequence /\ last_sequence \in Nat
        BY <2>3, LenProperties DEF Typed, ClientTyped, GameTyped, last_sequence
      <4>. QED
        BY <4>1, EventsSince
    <3>3. <<>> \in Seq(Events)
      BY EmptySeq
    <3>. QED
      BY <3>1, <3>2, <3>3, LineFacts DEF UnderWay
  <2>. QED
    BY <1>6, <2>1, <2>2, <2>3 DEF Begin, BeginAction, BeginState, Streams
<1>7. ASSUME NEW r \in Streams, Serve(r)
      PROVE  UnderWay(s)' = UnderWay(s)
  <2>1. CASE Loop(r) \/ End(r)
    BY <1>3, <2>1 DEF Loop, End, flow
  <2>2. CASE TakeBatch(r) /\ r = s
    <3>1. sent'[s] = sent[s] /\ batch'[s] = pending[s] /\ pending'[s] = <<>>
      BY <1>1, <2>2 DEF TakeBatch, TakePending
    <3>2. batch[s] = <<>>
      BY <1>2, <2>2 DEF TakeBatch, Placed
    <3>. QED
      BY <1>1, <3>1, <3>2, LineFacts DEF UnderWay
  <2>3. CASE Write(r) /\ r = s
    <3>1. /\ sent'[s] = Append(sent[s], Head(batch[s])) /\ batch'[s] = Tail(batch[s])
          /\ pending'[s] = pending[s] /\ batch[s] # <<>>
      BY <1>1, <2>3 DEF Write
    <3>. QED
      BY <1>1, <3>1, LineFacts DEF UnderWay
  <2>4. CASE (TakeBatch(r) \/ Write(r)) /\ r # s
    BY <1>1, <1>3, <2>4 DEF TakeBatch, TakePending, Write
  <2>. QED
    BY <1>7, <2>1, <2>2, <2>3, <2>4 DEF Serve
<1>8. ASSUME NEW r \in Streams, Receive(r)
      PROVE  UnderWay(s)' = UnderWay(s)
  BY <1>3, <1>8 DEF Receive
<1>9. ASSUME NEW r \in Streams, Lose(r), r # s
      PROVE  UnderWay(s)' = UnderWay(s)
  BY <1>1, <1>3, <1>9 DEF Lose
<1>10. ASSUME Lose(s)
       PROVE  UnderWay(s)' = <<>>
  <2>1. pending'[s] = <<>> /\ batch'[s] = <<>> /\ sent'[s] = <<>>
    BY <1>1, <1>10 DEF Lose
  <2>2. <<>> \in Seq(Events)
    BY EmptySeq
  <2>. QED
    BY <2>1, <2>2, LineFacts DEF UnderWay
<1>11. CASE UNCHANGED vars
  BY <1>3, <1>11 DEF vars, flow
<1>. QED
  BY <1>4, <1>5, <1>6, <1>7, <1>8, <1>9, <1>10, <1>11 DEF Next

(* A stream is asked where to begin when it is opened, and not again. *)
LEMMA BottomMoves ==
  ASSUME Typed, [Next]_vars, NEW s \in Streams
  PROVE  /\ Bottom(s) \in 0 .. last_sequence
         /\ Bottom(s)' = Bottom(s) \/ (Reconnect /\ stage[s] = "idle")
<1>1. since \in [StateStreams -> 0 .. last_sequence] /\ last_sequence \in Nat
  BY LenProperties DEF Typed, ClientTyped, GameTyped, last_sequence
<1>2. Bottom(s) \in 0 .. last_sequence
  BY <1>1 DEF Bottom
<1>3. CASE Reconnect
  <2>1. CASE since' = since
    BY <1>2, <2>1 DEF Bottom
  <2>2. CASE since' # since
    <3>. DEFINE t == Another(StateStreams)
    <3>1. /\ Fresh(StateStreams) # {}
          /\ since' = [since EXCEPT ![t] = client.last]
      BY <1>3, <2>2 DEF Reconnect
    <3>2. stage[t] = "idle"
      BY <3>1, AnotherIsFresh
    <3>. HIDE DEF t
    <3>3. s # t => Bottom(s)' = Bottom(s)
      BY <1>1, <3>1 DEF Bottom
    <3>. QED
      BY <1>2, <1>3, <3>2, <3>3
  <2>. QED
    BY <2>1, <2>2
<1>4. CASE ~Reconnect
  <2>1. since' = since
    BY <1>4 DEF Next, Emit, GameOver, CallBack, Begin, BeginAction, BeginState, Subscribed,
       Snapshotted, Replay, Join, CloseState, Serve, Loop, End, TakeBatch, Write, Receive,
       Lose, vars, flow
  <2>. QED
    BY <1>2, <2>1 DEF Bottom
<1>. QED
  BY <1>3, <1>4

(* No step repeats an event on a stream or goes back. *)
LEMMA AdvancingNext ==
  ASSUME Typed, Orderly, Advancing, Ahead, [Next]_vars
  PROVE  Advancing'
<1>1. SUFFICES ASSUME NEW s \in Streams
               PROVE  Rising(UnderWay(s)', Bottom(s)')
  BY DEF Advancing
<1>2. Rising(UnderWay(s), Bottom(s)) /\ Placed(s)
  BY DEF Advancing, Orderly
<1>3. Bottom(s) \in 0 .. last_sequence /\ last_sequence \in Nat
  BY BottomMoves, LenProperties DEF Typed, GameTyped, last_sequence
<1>4. CASE Bottom(s)' # Bottom(s)
  <2>1. Reconnect /\ stage[s] = "idle"
    BY <1>4, BottomMoves
  <2>2. sent'[s] = <<>> /\ batch'[s] = <<>> /\ pending'[s] = <<>>
    BY <1>2, <2>1 DEF Reconnect, Placed
  <2>3. <<>> \in Seq(Events)
    BY EmptySeq
  <2>4. UnderWay(s)' = <<>>
    BY <2>2, <2>3, LineFacts DEF UnderWay
  <2>. QED
    BY <2>4, RisingEmpty
<1>5. CASE Bottom(s)' = Bottom(s)
  <2>1. CASE UnderWay(s)' = UnderWay(s)
    BY <1>2, <1>5, <2>1
  <2>2. CASE /\ CallBack /\ s = Head(calling)
             /\ UnderWay(s)' = Append(UnderWay(s), last_sequence)
    <3>1. s \in Range(calling) /\ last_sequence \in Events
      BY <1>3, <2>2, TailFacts DEF CallBack, Emitting, Typed, GameTyped, Events
    <3>2. /\ Bottom(s) < last_sequence
          /\ \A i \in DOMAIN UnderWay(s) : UnderWay(s)[i] < last_sequence
      BY <3>1 DEF Ahead
    <3>3. UnderWay(s) \in Seq(Events) /\ Events \in SUBSET Nat /\ Bottom(s) \in Nat
      BY <1>3, UnderWayTyped DEF Typed, Events
    <3>. QED
      BY <1>2, <1>5, <2>2, <3>1, <3>2, <3>3, RisingAppend
  <2>3. CASE s \in StateStreams /\ UnderWay(s)' = get_events_since(since[s])
    BY <1>3, <1>5, <2>3, EventsSince DEF Rising, Bottom
  <2>4. CASE UnderWay(s)' = <<>>
    BY <2>4, RisingEmpty
  <2>. QED
    BY <2>1, <2>2, <2>3, <2>4, LineMoves
<1>. QED
  BY <1>4, <1>5

(* A stream that is still to be called back has nothing of the last event. *)
LEMMA AheadNext ==
  ASSUME Typed, Orderly, Ahead, [Next]_vars
  PROVE  Ahead'
<1>1. SUFFICES ASSUME NEW s \in Streams, s \in Range(calling')
               PROVE  /\ Bottom(s)' < last_sequence'
                      /\ \A i \in DOMAIN UnderWay(s)' : UnderWay(s)'[i] < last_sequence'
  <2>1. Range(calling') \subseteq Streams
    <3>1. calling' \in Seq(Streams)
      BY GameTypedNext DEF GameTyped, Typed
    <3>. QED
      BY <3>1, ElementOfSeq, LenProperties DEF Range
  <2>. QED
    BY <2>1 DEF Ahead
<1>2. /\ calling \in Seq(Streams) /\ subscribers \in Seq(Streams) /\ Placed(s)
      /\ IsInjective(calling)
  BY DEF Typed, GameTyped, Orderly
<1>3. /\ last_sequence \in Nat /\ Bottom(s) \in 0 .. last_sequence
      /\ Bottom(s)' = Bottom(s) \/ (Reconnect /\ stage[s] = "idle")
      /\ \A i \in DOMAIN UnderWay(s) : UnderWay(s)[i] \in 1 .. last_sequence
  BY BottomMoves, UnderWayTyped DEF Typed
<1>4. CASE Emit \/ GameOver
  <2>1. last_sequence' = last_sequence + 1
    BY <1>4, Grows DEF Typed, GameTyped
  <2>2. pending' = pending /\ batch' = batch /\ sent' = sent /\ since' = since
    BY <1>4 DEF Emit, GameOver, flow
  <2>3. UnderWay(s)' = UnderWay(s) /\ Bottom(s)' = Bottom(s)
    BY <2>2 DEF UnderWay, Bottom
  <2>. QED
    BY <1>3, <2>1, <2>3
<1>5. CASE ~(Emit \/ GameOver)
  <2>1. /\ s \in Range(calling) /\ last_sequence' = last_sequence
        /\ CallBack => s # Head(calling)
    <3>1. UNCHANGED emitted
      BY <1>5, Grows DEF Typed, GameTyped
    <3>2. CASE CallBack
      BY <1>1, <1>2, <3>1, <3>2, TailFacts DEF CallBack, Emitting, last_sequence
    <3>3. CASE \E r \in Streams : Lose(r)
      <4>1. PICK r \in Streams : Lose(r)
        BY <3>3
      <4>2. s \in Range(calling)
        BY <1>1, <1>2, <4>1, AmongStreams DEF Lose
      <4>3. ~CallBack \/ s # Head(calling)
        <5>1. SUFFICES ASSUME CallBack
                       PROVE  FALSE
          OBVIOUS
        <5>2. broken' = broken /\ client' = client /\ stage' = stage
          BY <5>1 DEF CallBack
        <5>. QED
          BY <4>1, <5>2 DEF Lose, Typed, GameTyped
      <4>. QED
        BY <3>1, <4>2, <4>3 DEF last_sequence
    <3>4. CASE ~CallBack /\ ~(\E r \in Streams : Lose(r))
      <4>1. calling' = calling
        BY <1>5, <3>4 DEF Next, Begin, BeginAction, BeginState, Subscribed, Snapshotted, Replay,
           Join, Reconnect, CloseState, Serve, Loop, End, TakeBatch, Write, Receive, vars, game
      <4>. QED
        BY <1>1, <3>1, <3>4, <4>1 DEF last_sequence
    <3>. QED
      BY <3>2, <3>3, <3>4
  <2>2. stage[s] \notin {"idle", "opened"}
    BY <1>2, <2>1 DEF Placed
  <2>3. Bottom(s)' = Bottom(s)
    BY <1>3, <2>2
  <2>4. UnderWay(s)' = UnderWay(s) \/ UnderWay(s)' = <<>>
    BY <2>1, <2>2, LineMoves
  <2>5. /\ Bottom(s) < last_sequence
        /\ \A i \in DOMAIN UnderWay(s) : UnderWay(s)[i] < last_sequence
    BY <2>1 DEF Ahead
  <2>. QED
    BY <2>1, <2>3, <2>4, <2>5
<1>. QED
  BY <1>4, <1>5

(* No step makes a gap on an action stream. *)
LEMMA NothingLostNext ==
  ASSUME Typed, Orderly, NothingLost, [Next]_vars
  PROVE  NothingLost'
<1>1. SUFFICES ASSUME NEW s \in ActionStreams, s \notin broken', s \notin dropped',
                      stage'[s] \in {"loop", "waiting", "writing"},
                      NEW n \in DOMAIN emitted', Wants(s, emitted'[n])
               PROVE  \/ n <= snapshot'[s]
                      \/ n \in Range(UnderWay(s)')
                      \/ n = last_sequence' /\ s \in Range(calling')
  BY DEF NothingLost, Wants
<1>2. s \in Streams /\ s \notin StateStreams
  BY StreamsDiffer DEF Streams
<1>3. /\ calling \in Seq(Streams) /\ subscribers \in Seq(Streams) /\ Placed(s)
      /\ stage \in [Streams -> Stages] /\ snapshot \in [Streams -> 0 .. last_sequence]
      /\ emitted \in Seq(Audiences) /\ emitted' \in Seq(Audiences)
  BY <1>2, Grows DEF Typed, GameTyped, ClientTyped, Orderly
<1>4. /\ last_sequence \in Nat /\ n \in 1 .. last_sequence'
      /\ DOMAIN emitted = 1 .. last_sequence
  BY <1>1, <1>3, LenProperties DEF last_sequence
<1>5. ~Lose(s)
  BY <1>1 DEF Lose
<1>6. CASE Snapshotted(s, "loop")
  <2>1. snapshot'[s] = last_sequence /\ last_sequence' = last_sequence
    BY <1>2, <1>3, <1>6 DEF Snapshotted, game, last_sequence
  <2>. QED
    BY <1>4, <2>1
<1>7. CASE ~Snapshotted(s, "loop")
  <2>1. /\ stage[s] \in {"loop", "waiting", "writing"} /\ snapshot'[s] = snapshot[s]
        /\ s \notin broken /\ s \notin dropped
    <3>1. CASE Emit \/ GameOver \/ CallBack \/ CloseState \/ \E r \in Streams : Receive(r)
      BY <1>1, <3>1 DEF Emit, GameOver, CallBack, CloseState, Receive, game, flow
    <3>2. CASE Begin
      <4>1. PICK r \in Streams, next \in Stages :
              \/ Subscribed(r, next) /\ (r = s => next = "subscribed")
              \/ Snapshotted(r, "loop") /\ r # s
              \/ Replay(r)
        BY <1>2, <1>7, <3>2 DEF Begin, BeginAction, BeginState, Streams, Stages
      <4>. QED
        BY <1>1, <1>2, <1>3, <4>1 DEF Subscribed, Snapshotted, Replay, flow, game
    <3>3. CASE Join \/ Reconnect
      <4>1. UNCHANGED <<broken, dropped, snapshot>>
        BY <3>3 DEF Join, Reconnect, flow
      <4>2. \A r \in Streams : stage'[r] # stage[r] => stage'[r] = "opened"
        BY <1>3, <3>3 DEF Join, Reconnect
      <4>. QED
        BY <1>1, <1>2, <4>1, <4>2
    <3>4. ASSUME NEW r \in Streams, Serve(r)
          PROVE  /\ stage[s] \in {"loop", "waiting", "writing"} /\ snapshot'[s] = snapshot[s]
                 /\ s \notin broken /\ s \notin dropped
      <4>1. UNCHANGED <<broken, dropped, snapshot>>
        BY <3>4 DEF Serve, Loop, End, TakeBatch, Write, flow
      <4>2. /\ stage'[s] = stage[s] \/ r = s
            /\ r = s => stage[s] \in {"loop", "waiting", "replay", "writing"}
        BY <1>2, <1>3, <3>4 DEF Serve, Loop, End, TakeBatch, Write
      <4>3. r = s /\ stage[s] = "replay" => stage'[s] = "replay"
        BY <1>2, <1>3, <3>4 DEF Serve, Loop, End, TakeBatch, Write
      <4>. QED
        BY <1>1, <4>1, <4>2, <4>3
    <3>5. ASSUME NEW r \in Streams, Lose(r)
          PROVE  /\ stage[s] \in {"loop", "waiting", "writing"} /\ snapshot'[s] = snapshot[s]
                 /\ s \notin broken /\ s \notin dropped
      BY <1>1, <1>2, <1>3, <1>5, <3>5 DEF Lose
    <3>6. CASE UNCHANGED vars
      BY <1>1, <3>6 DEF vars, flow
    <3>. QED
      BY <3>1, <3>2, <3>3, <3>4, <3>5, <3>6 DEF Next
  <2>2. n \in 1 .. last_sequence /\ Wants(s, emitted[n]) =>
          \/ n <= snapshot[s]
          \/ n \in Range(UnderWay(s))
          \/ n = last_sequence /\ s \in Range(calling)
    BY <1>4, <2>1 DEF NothingLost
  <2>3. CASE Emit \/ GameOver
    <3>1. last_sequence' = last_sequence + 1 /\ \A m \in Events : emitted'[m] = emitted[m]
      BY <1>3, <2>3, Grows
    <3>2. Range(calling) = {}
      BY <1>3, <2>3, EmptyRange DEF Emit, GameOver, Emitting
    <3>3. UnderWay(s)' = UnderWay(s)
      BY <2>3 DEF Emit, GameOver, flow, UnderWay
    <3>4. CASE n = last_sequence'
      <4>1. s \in Range(subscribers)
        BY <1>3, <2>1 DEF Placed
      <4>2. CASE Emit
        <5>1. PICK to : /\ emitted' = Append(emitted, to) /\ to \in Audiences
                        /\ calling' = Among(subscribers, {r \in Streams : Wants(r, to)})
          BY <4>2 DEF Emit
        <5>2. emitted'[n] = to
          BY <1>3, <3>1, <3>4, <5>1, AppendProperties DEF last_sequence
        <5>3. s \in Range(calling')
          BY <1>1, <1>2, <1>3, <4>1, <5>1, <5>2, AmongStreams
        <5>. QED
          BY <3>4, <5>3
      <4>3. CASE GameOver
        BY <3>4, <4>1, <4>3 DEF GameOver
      <4>. QED
        BY <2>3, <4>2, <4>3
    <3>5. CASE n # last_sequence'
      <4>1. n \in 1 .. last_sequence
        BY <1>4, <3>1, <3>5
      <4>2. Wants(s, emitted[n])
        BY <1>1, <3>1, <4>1 DEF Events
      <4>. QED
        BY <2>1, <2>2, <3>2, <3>3, <4>1, <4>2
    <3>. QED
      BY <3>4, <3>5
  <2>4. CASE ~(Emit \/ GameOver)
    <3>1. emitted' = emitted /\ last_sequence' = last_sequence
      BY <1>3, <2>4, Grows DEF last_sequence
    <3>2. \/ n <= snapshot[s]
          \/ n \in Range(UnderWay(s))
          \/ n = last_sequence /\ s \in Range(calling)
      BY <1>1, <1>4, <2>2, <3>1
    <3>3. \/ UnderWay(s)' = UnderWay(s)
          \/ CallBack /\ UnderWay(s)' = Append(UnderWay(s), last_sequence)
      BY <1>2, <1>5, LineMoves
    <3>4. CASE CallBack
      <4>1. UnderWay(s) \in Seq(Events) /\ last_sequence \in Events
        BY <1>2, <1>4, <3>4, UnderWayTyped
        DEF CallBack, Emitting, Typed, GameTyped, Events
      <4>2. Range(UnderWay(s)) \subseteq Range(UnderWay(s)')
        <5>1. Range(Append(UnderWay(s), last_sequence)) =
                Range(UnderWay(s)) \cup {last_sequence}
          BY <4>1, AppendFacts
        <5>. QED
          BY <3>3, <5>1
      <4>3. CASE s = Head(calling)
        <5>1. pending'[s] = Append(pending[s], last_sequence) /\ batch' = batch /\ sent' = sent
          BY <1>1, <1>2, <2>1, <3>4, <4>3 DEF CallBack, Typed, FlowTyped
        <5>2. UnderWay(s)' = Append(UnderWay(s), last_sequence)
          BY <1>2, <4>1, <5>1, LineFacts DEF Typed, FlowTyped, UnderWay
        <5>3. last_sequence \in Range(UnderWay(s)')
          BY <4>1, <5>2, AppendFacts
        <5>. QED
          BY <2>1, <3>2, <4>2, <5>3
      <4>4. CASE s # Head(calling)
        <5>1. s \in Range(calling) => s \in Range(calling')
          BY <1>3, <3>4, <4>4, TailFacts DEF CallBack, Emitting
        <5>. QED
          BY <2>1, <3>1, <3>2, <4>2, <5>1
      <4>. QED
        BY <4>3, <4>4
    <3>5. CASE ~CallBack
      <4>1. s \in Range(calling) => s \in Range(calling')
        <5>1. CASE \E r \in Streams : Lose(r)
          <6>1. PICK r \in Streams : Lose(r)
            BY <5>1
          <6>2. r # s
            BY <1>5, <6>1
          <6>3. Range(calling') = Range(calling) \cap (Streams \ {r})
            BY <1>3, <6>1, AmongStreams DEF Lose
          <6>. QED
            BY <1>2, <6>2, <6>3
        <5>2. CASE ~\E r \in Streams : Lose(r)
          <6>1. calling' = calling
            BY <2>4, <3>5, <5>2 DEF Next, Begin, BeginAction, BeginState, Subscribed,
               Snapshotted, Replay, Join, Reconnect, CloseState, Serve, Loop, End, TakeBatch,
               Write, Receive, vars, game
          <6>. QED
            BY <6>1
        <5>. QED
          BY <5>1, <5>2
      <4>. QED
        BY <2>1, <3>1, <3>2, <3>3, <3>5, <4>1
    <3>. QED
      BY <3>4, <3>5
  <2>. QED
    BY <2>3, <2>4
<1>. QED
  BY <1>6, <1>7

-----------------------------------------------------------------------------
(* The theorems *)

(* At the start nothing was emitted and no stream is open. *)
LEMMA DeliveryInit ==
  ASSUME Init
  PROVE  DeliveryInv
<1>1. /\ last_sequence = 0
      /\ \A S : <<>> \in Seq(S) /\ Len(<<>>) = 0
      /\ Range(<<>>) = {}
  BY DEF Init, last_sequence, Range
<1>2. GameTyped
  BY <1>1 DEF Init, GameTyped, Stages
<1>3. FlowTyped
  <2>1. <<>> \in Seq(Events) /\ <<>> \in Seq(Items) /\ Len(<<>>) <= MaxPending
    BY <1>1, LimitsAreNumbers
  <2>. QED
    BY <2>1 DEF Init, FlowTyped
<1>4. ClientTyped
  BY <1>1 DEF Init, ClientTyped
<1>5. Orderly
  BY <1>1 DEF Init, Orderly, Placed, IsInjective
<1>6. Advancing
  <2>1. ASSUME NEW s \in Streams
        PROVE  UnderWay(s) = <<>>
    <3>1. sent[s] = <<>> /\ batch[s] = <<>> /\ pending[s] = <<>>
      BY DEF Init
    <3>2. <<>> \in Seq(Events)
      BY <1>1
    <3>. QED
      BY <3>1, <3>2, LineFacts DEF UnderWay
  <2>. QED
    BY <2>1, RisingEmpty DEF Advancing
<1>7. Ahead
  BY <1>1 DEF Init, Ahead
<1>8. NothingLost
  BY DEF Init, NothingLost
<1>. QED
  BY <1>2, <1>3, <1>4, <1>5, <1>6, <1>7, <1>8 DEF DeliveryInv, Typed

(* DeliveryInv holds in every state of every behaviour: it is kept by every step
   of the broadcaster, of the streams and of the client. *)
THEOREM DeliveryInvariant == Spec => []DeliveryInv
<1>1. DeliveryInv /\ [Next]_vars => DeliveryInv'
  <2>1. SUFFICES ASSUME DeliveryInv, [Next]_vars
                 PROVE  DeliveryInv'
    OBVIOUS
  <2>2. Typed'
    BY <2>1, GameTypedNext, FlowTypedNext, ClientTypedNext DEF DeliveryInv, Typed
  <2>3. Orderly' /\ Advancing' /\ Ahead' /\ NothingLost'
    BY <2>1, OrderlyNext, AdvancingNext, AheadNext, NothingLostNext DEF DeliveryInv
  <2>. QED
    BY <2>2, <2>3 DEF DeliveryInv
<1>. QED
  BY <1>1, DeliveryInit, PTL DEF Spec

(* What travels on any stream are events that were emitted, no queue of a stream
   is longer than max_pending_events, and what the client has applied was emitted
   (EventBroadcaster, SubmitAction, StreamGameState, Game_Client). *)
THEOREM DeliveryTypeOK == Spec => []TypeOK
<1>1. DeliveryInv => TypeOK
  <2>1. SUFFICES ASSUME DeliveryInv
                 PROVE  TypeOK
    OBVIOUS
  <2>2. Typed
    BY <2>1 DEF DeliveryInv
  <2>3. emitted \in Seq(Audiences) /\ last_sequence \in Nat /\ DOMAIN emitted = Events
    BY <2>2, LenProperties DEF Typed, GameTyped, Events, last_sequence
  <2>4. Items \subseteq Item
    BY <2>3 DEF Items, Item
  <2>5. ASSUME NEW s \in Streams
        PROVE  /\ UnderWay(s) \in Seq(DOMAIN emitted) /\ Len(pending[s]) <= MaxPending
               /\ wire[s] \in Seq(Item)
    <3>1. UnderWay(s) \in Seq(DOMAIN emitted)
      BY <2>2, <2>3, UnderWayTyped DEF Typed
    <3>2. wire[s] \in Seq(Items) /\ Len(pending[s]) <= MaxPending
      BY <2>2 DEF Typed, FlowTyped
    <3>3. wire[s] \in Seq(Item)
      BY <2>4, <3>2, SeqMonotonic
    <3>. QED
      BY <3>1, <3>2, <3>3
  <2>6. /\ client.action \in ActionStreams \cup {NoStream}
        /\ client.state \in StateStreams \cup {NoStream}
        /\ client.seen \subseteq DOMAIN emitted /\ client.last \in 0 .. last_sequence
        /\ client.over \in BOOLEAN
    <3>. HIDE DEF Events
    <3>. QED
      BY <2>2, <2>3 DEF Typed, ClientTyped
  <2>. QED
    BY <2>2, <2>5, <2>6 DEF TypeOK, Typed, GameTyped, ClientTyped
<1>. QED
  BY <1>1, DeliveryInvariant, PTL

(* On every stream the sequence numbers only grow, across the replay and the live
   events, and an action stream that is neither lost nor overrun has every event
   for its player after its snapshot: sent, on the way or about to be
   (SubmitAction subscribes before its snapshot, a writer takes all of pending). *)
THEOREM NeitherGapNorRepeat == Spec => []NoGapNoRepeat
<1>1. DeliveryInv => NoGapNoRepeat
  <2>1. SUFFICES ASSUME DeliveryInv
                 PROVE  StreamsAdvance
    BY DEF NoGapNoRepeat, DeliveryInv
  <2>2. ASSUME NEW s \in Streams
        PROVE  Rising(UnderWay(s), Bottom(s))
    BY <2>1 DEF DeliveryInv, Advancing
  <2>. QED
    BY <2>2 DEF StreamsAdvance, Rising, Bottom
<1>. QED
  BY <1>1, DeliveryInvariant, PTL

-----------------------------------------------------------------------------
(* ClientView: a stack that loses an entry *)

(* What is left when the k-th element is taken out. *)
LEMMA RemovedAt ==
  ASSUME NEW S, NEW s \in Seq(S), NEW k \in 1 .. Len(s)
  PROVE  /\ RemoveAt(s, k) \in Seq(S) /\ Len(RemoveAt(s, k)) = Len(s) - 1
         /\ \A i \in 1 .. Len(s) - 1 : RemoveAt(s, k)[i] = s[IF i < k THEN i ELSE i + 1]
<1>. DEFINE n == Len(s)
            a == SubSeq(s, 1, k - 1)
            b == SubSeq(s, k + 1, n)
            r == RemoveAt(s, k)
<1>1. n \in Nat /\ k \in 1 .. n /\ \A i \in 1 .. n : s[i] \in S
  BY LenProperties, ElementOfSeq
<1>2. a \in Seq(S) /\ Len(a) = k - 1 /\ \A i \in 1 .. k - 1 : a[i] = s[i]
  <2>1. 1 \in Int /\ k - 1 \in Int /\ \A i \in 1 .. k - 1 : s[i] \in S
    BY <1>1
  <2>2. /\ a \in Seq(S) /\ Len(a) = IF 1 <= k - 1 THEN (k - 1) - 1 + 1 ELSE 0
        /\ \A i \in 1 .. (k - 1) - 1 + 1 : a[i] = s[1 + i - 1]
    BY <2>1, SubSeqProperties
  <2>3. \A i \in 1 .. k - 1 : 1 + i - 1 = i
    BY <1>1
  <2>. QED
    BY <1>1, <2>2, <2>3
<1>3. b \in Seq(S) /\ Len(b) = n - k /\ \A i \in 1 .. n - k : b[i] = s[k + i]
  <2>1. k + 1 \in Int /\ n \in Int /\ \A i \in k + 1 .. n : s[i] \in S
    BY <1>1
  <2>2. /\ b \in Seq(S) /\ Len(b) = IF k + 1 <= n THEN n - (k + 1) + 1 ELSE 0
        /\ \A i \in 1 .. n - (k + 1) + 1 : b[i] = s[(k + 1) + i - 1]
    BY <2>1, SubSeqProperties
  <2>3. \A i \in 1 .. n - k : (k + 1) + i - 1 = k + i
    BY <1>1
  <2>. QED
    BY <1>1, <2>2, <2>3
<1>. HIDE DEF a, b
<1>4. r = a \o b
  BY DEF RemoveAt, a, b
<1>5. /\ r \in Seq(S) /\ Len(r) = n - 1
      /\ \A i \in 1 .. n - 1 : r[i] = IF i <= k - 1 THEN a[i] ELSE b[i - (k - 1)]
  <2>0. a \in Seq(S) /\ b \in Seq(S)
    BY <1>2, <1>3
  <2>1. /\ r \in Seq(S) /\ Len(r) = Len(a) + Len(b)
        /\ \A i \in 1 .. Len(a) + Len(b) : r[i] = IF i <= Len(a) THEN a[i] ELSE b[i - Len(a)]
    <3>. HIDE DEF r
    <3>. QED
      BY <2>0, <1>4, ConcatProperties
  <2>2. (k - 1) + (n - k) = n - 1
    BY <1>1
  <2>. HIDE DEF r, n
  <2>. QED
    BY <1>2, <1>3, <2>1, <2>2
<1>6. \A i \in 1 .. n - 1 : r[i] = s[IF i < k THEN i ELSE i + 1]
  <2>1. SUFFICES ASSUME NEW i \in 1 .. n - 1
                 PROVE  r[i] = s[IF i < k THEN i ELSE i + 1]
    OBVIOUS
  <2>2. CASE i < k
    <3>1. i \in 1 .. k - 1 /\ i <= k - 1
      BY <1>1, <2>2
    <3>2. r[i] = a[i]
      BY <1>5, <3>1
    <3>. QED
      BY <1>2, <2>2, <3>1, <3>2
  <2>3. CASE ~(i < k)
    <3>1. i - (k - 1) \in 1 .. n - k /\ k + (i - (k - 1)) = i + 1 /\ ~(i <= k - 1)
      BY <1>1, <2>3
    <3>. QED
      BY <1>3, <1>5, <2>3, <3>1
  <2>. QED
    BY <2>2, <2>3
<1>. QED
  BY <1>5, <1>6

(* r is s without the k-th element: where an element of the rest was before, *)
(* and where the others have gone.                                           *)
TakenOut(r, s, k) ==
  LET rest == 1 .. Len(s) - 1
      others == {j \in 1 .. Len(s) : j # k}
  IN  /\ \A i \in rest : \E j \in others : r[i] = s[j]
      /\ \A j \in others : \E i \in rest : r[i] = s[j]
      /\ \A i, j \in rest : i # j => \E a, b \in others : a # b /\ r[i] = s[a] /\ r[j] = s[b]

(* RemoveAt takes out one element and moves the others. *)
LEMMA RemovedFrom ==
  ASSUME NEW S, NEW s \in Seq(S), NEW k \in 1 .. Len(s)
  PROVE  TakenOut(RemoveAt(s, k), s, k)
<1>. DEFINE n == Len(s)
            r == RemoveAt(s, k)
            At(i) == IF i < k THEN i ELSE i + 1
            others == {j \in 1 .. n : j # k}
<1>1. n \in Nat /\ k \in 1 .. n
  BY LenProperties
<1>2. \A i \in 1 .. n - 1 : r[i] = s[At(i)]
  BY RemovedAt
<1>. HIDE DEF r
<1>3. \A i \in 1 .. n - 1 : At(i) \in others
  <2>. HIDE DEF n
  <2>. QED
    BY <1>1
<1>4. \A j \in others : \E i \in 1 .. n - 1 : At(i) = j
  <2>1. SUFFICES ASSUME NEW j \in others
                 PROVE  \E i \in 1 .. n - 1 : At(i) = j
    OBVIOUS
  <2>. HIDE DEF n
  <2>2. CASE j < k
    <3>1. j \in 1 .. n - 1 /\ At(j) = j
      BY <1>1, <2>2
    <3>. QED
      BY <3>1
  <2>3. CASE ~(j < k)
    <3>1. j - 1 \in 1 .. n - 1 /\ At(j - 1) = j
      BY <1>1, <2>3
    <3>. QED
      BY <3>1
  <2>. QED
    BY <2>2, <2>3
<1>5. \A i, j \in 1 .. n - 1 : i # j => At(i) # At(j)
  <2>. HIDE DEF n
  <2>. QED
    BY <1>1
<1>. HIDE DEF n, At, others
<1>6. /\ \A i \in 1 .. n - 1 : \E j \in others : r[i] = s[j]
      /\ \A j \in others : \E i \in 1 .. n - 1 : r[i] = s[j]
  BY <1>2, <1>3, <1>4
<1>7. \A i, j \in 1 .. n - 1 : i # j =>
        \E a, b \in others : a # b /\ r[i] = s[a] /\ r[j] = s[b]
  BY <1>2, <1>3, <1>5
<1>. QED
  BY <1>6, <1>7 DEF n, r, TakenOut, others

(* A number less than which no other of the set is. *)
LEMMA LeastOf ==
  ASSUME NEW I, I \subseteq Nat, I # {}
  PROVE  \E k \in I : \A j \in I : k <= j
<1>1. PICK k \in I : \A j \in I : <<j, k>> \notin OpToRel(<, Nat)
  BY WFMin, NatLessThanWellFounded
<1>2. \A j \in I : ~(j < k)
  BY <1>1 DEF OpToRel
<1>. QED
  BY <1>2

(* Erase takes out the one entry with this id. *)
LEMMA Erased ==
  ASSUME NEW S, NEW s \in Seq(S), IsInjective(s), NEW id
  PROVE  /\ RemoveFirst(s, id) \in Seq(S) /\ IsInjective(RemoveFirst(s, id))
         /\ Range(RemoveFirst(s, id)) = Range(s) \ {id}
<1>1. Len(s) \in Nat /\ DOMAIN s = 1 .. Len(s)
  BY LenProperties
<1>2. CASE ~\E i \in 1 .. Len(s) : s[i] = id
  <2>1. RemoveFirst(s, id) = s
    BY <1>2 DEF RemoveFirst
  <2>. QED
    BY <1>1, <1>2, <2>1 DEF Range
<1>3. CASE \E i \in 1 .. Len(s) : s[i] = id
  <2>. DEFINE I == {i \in 1 .. Len(s) : s[i] = id}
              k == Min(I)
  <2>1. k \in I
    <3>1. I \subseteq Nat /\ I # {}
      BY <1>1, <1>3
    <3>. HIDE DEF I
    <3>. QED
      BY <3>1, LeastOf DEF Min
  <2>2. RemoveFirst(s, id) = RemoveAt(s, k)
    BY <1>3 DEF RemoveFirst, SelectInSeq
  <2>. HIDE DEF k
  <2>. DEFINE r == RemoveAt(s, k)
  <2>3. k \in 1 .. Len(s) /\ s[k] = id
    BY <2>1
  <2>4. r \in Seq(S) /\ Len(r) = Len(s) - 1
    BY <2>3, RemovedAt
  <2>5. TakenOut(r, s, k)
    BY <2>3, RemovedFrom
  <2>. HIDE DEF r
  <2>6. DOMAIN r = 1 .. Len(s) - 1
    BY <2>4, LenProperties
  <2>7. \A i, j \in 1 .. Len(s) : s[i] = s[j] => i = j
    BY <1>1 DEF IsInjective
  <2>8. IsInjective(r)
    <3>1. SUFFICES ASSUME NEW i \in 1 .. Len(s) - 1, NEW j \in 1 .. Len(s) - 1,
                          r[i] = r[j], i # j
                   PROVE  FALSE
      BY <2>6 DEF IsInjective
    <3>2. PICK x, y \in 1 .. Len(s) : x # y /\ r[i] = s[x] /\ r[j] = s[y]
      BY <2>5, <3>1 DEF TakenOut
    <3>. QED
      BY <2>7, <3>1, <3>2
  <2>9. ASSUME NEW x
        PROVE  x \in Range(r) <=> x \in Range(s) /\ x # id
    <3>1. ASSUME NEW i \in 1 .. Len(s) - 1, r[i] = x
          PROVE  x \in Range(s) /\ x # id
      <4>1. PICK j \in 1 .. Len(s) : j # k /\ r[i] = s[j]
        BY <2>5 DEF TakenOut
      <4>. QED
        BY <1>1, <2>3, <2>7, <3>1, <4>1 DEF Range
    <3>2. ASSUME NEW j \in 1 .. Len(s), s[j] = x, x # id
          PROVE  x \in Range(r)
      <4>1. PICK i \in 1 .. Len(s) - 1 : r[i] = s[j]
        BY <2>3, <2>5, <3>2 DEF TakenOut
      <4>. QED
        BY <2>6, <3>2, <4>1 DEF Range
    <3>. QED
      BY <1>1, <2>6, <3>1, <3>2 DEF Range
  <2>11. Range(r) = Range(s) \ {id}
    BY <2>9
  <2>. QED
    BY <2>2, <2>4, <2>8, <2>11 DEF r
<1>. QED
  BY <1>2, <1>3

(* Push appends an entry that is not there yet. *)
LEMMA Pushes ==
  ASSUME NEW S, NEW s \in Seq(S), IsInjective(s), NEW id \in S, id \notin Range(s)
  PROVE  /\ Append(s, id) \in Seq(S) /\ IsInjective(Append(s, id))
         /\ Range(Append(s, id)) = Range(s) \cup {id}
<1>1. Len(s) \in Nat /\ DOMAIN s = 1 .. Len(s)
  BY LenProperties
<1>. DEFINE t == Append(s, id)
<1>2. /\ t \in Seq(S) /\ DOMAIN t = 1 .. Len(s) + 1
      /\ \A i \in 1 .. Len(s) : t[i] = s[i]
      /\ t[Len(s) + 1] = id
  BY AppendProperties, LenProperties
<1>. HIDE DEF t
<1>3. IsInjective(t)
  <2>1. SUFFICES ASSUME NEW a \in DOMAIN t, NEW b \in DOMAIN t, t[a] = t[b]
                 PROVE  a = b
    BY DEF IsInjective
  <2>2. \A i \in 1 .. Len(s) : s[i] # id
    BY <1>1 DEF Range
  <2>3. \A i \in DOMAIN t : i \in 1 .. Len(s) \/ i = Len(s) + 1
    BY <1>1, <1>2
  <2>. QED
    BY <1>1, <1>2, <2>1, <2>2, <2>3 DEF IsInjective
<1>4. Range(t) = Range(s) \cup {id}
  <2>1. \A x : x \in Range(t) <=> \E i \in 1 .. Len(s) + 1 : t[i] = x
    BY <1>2 DEF Range
  <2>2. \A x : x \in Range(s) <=> \E i \in 1 .. Len(s) : s[i] = x
    BY <1>1 DEF Range
  <2>3. \A i \in 1 .. Len(s) + 1 : i \in 1 .. Len(s) \/ i = Len(s) + 1
    BY <1>1
  <2>4. 1 .. Len(s) \subseteq 1 .. Len(s) + 1 /\ Len(s) + 1 \in 1 .. Len(s) + 1
    BY <1>1
  <2>. QED
    BY <1>2, <2>1, <2>2, <2>3, <2>4
<1>. QED
  BY <1>2, <1>3, <1>4 DEF t

-----------------------------------------------------------------------------
(* Views and events that fit a game of which k stack entries were made *)

ViewsTo(k) ==
  [life : [Players -> Int], library_count : [Players -> 0 .. Cardinality(Cards)],
   hand : [Players -> SUBSET Cards], hand_count : [Players -> Nat],
   battlefield : [Players -> SUBSET Cards], stack : Seq(1 .. k)]

\* A view holds a card on its owner's side, and an entry once.
Sorted(v) == /\ IsInjective(v.stack)
             /\ \A p \in Players : \A c \in v.hand[p] \cup v.battlefield[p] : Owner[c] = p

ShowsTo(v, k) == v \in ViewsTo(k) /\ Sorted(v)

OfCard == {"card_drawn", "card_played", "permanent_entered", "zone_transfer"}

Fits(e, k) ==
  /\ e.to \subseteq Players
  /\ e.kind \in OfCard \cup {"snapshot", "life_changed", "damage_dealt", "permanent_destroyed",
                             "spell_resolved", "ability_activated", "action_prompt", "game_over"}
  /\ e.kind = "snapshot" => e.for \in Players /\ e.to = {e.for} /\ ShowsTo(e.view, k)
  /\ e.kind = "life_changed" => e.player \in Players /\ e.total \in Int
  /\ e.kind = "damage_dealt" => e.player \in Players /\ e.amount \in Int
  /\ e.kind \in OfCard => e.card \in Cards /\ e.player = Owner[e.card]
  /\ e.kind = "permanent_destroyed" => e.card \in Cards
  /\ e.kind = "zone_transfer" => /\ e.from \in {"library", "hand", "battlefield"}
                                 /\ e.dest \in {"hand", "graveyard"}
  /\ e.kind = "card_played" => e.entry \in 0 .. k
  /\ e.kind \in {"spell_resolved", "ability_activated"} => e.entry \in 1 .. k
  /\ e.kind = "action_prompt" => e.to = {Me}

(* The fields of a view. *)
LEMMA ViewFields ==
  ASSUME NEW k, NEW v \in ViewsTo(k)
  PROVE  /\ v.life \in [Players -> Int]
         /\ v.library_count \in [Players -> 0 .. Cardinality(Cards)]
         /\ v.hand \in [Players -> SUBSET Cards] /\ v.hand_count \in [Players -> Nat]
         /\ v.battlefield \in [Players -> SUBSET Cards] /\ v.stack \in Seq(1 .. k)
BY DEF ViewsTo

(* How many cards there can be. *)
LEMMA HandsFinite ==
  /\ Cardinality(Cards) \in Nat
  /\ \A S \in SUBSET Cards : IsFiniteSet(S) /\ Cardinality(S) \in 0 .. Cardinality(Cards)
BY FS_Subset, FS_CardinalityType, CardsOwned

(* A count that is taken down stays one. *)
LEMMA LessFits ==
  /\ \A n \in Nat : Less(n) \in Nat
  /\ \A n \in 0 .. Cardinality(Cards) : Less(n) \in 0 .. Cardinality(Cards)
BY HandsFinite DEF Less

\* What is the same in both views.
SameBoard(w, v) == w.life = v.life /\ w.battlefield = v.battlefield /\ w.stack = v.stack
SameHands(w, v) == w.hand = v.hand /\ w.hand_count = v.hand_count

IsDrawn(w, v, c, k) ==
  LET p == Owner[c]
      hand == v.hand[p] \cup {c}
      n == v.hand_count[p]
  IN  /\ ShowsTo(w, k) /\ SameBoard(w, v)
      /\ w.library_count = [v.library_count EXCEPT ![p] = Less(v.library_count[p])]
      /\ w.hand = [v.hand EXCEPT ![p] = hand]
      /\ w.hand_count = [v.hand_count EXCEPT ![p] =
                            IF Cardinality(hand) >= n THEN Cardinality(hand) ELSE n + 1]

(* What card_drawn makes of a view. *)
LEMMA DrawnFits ==
  ASSUME NEW k, NEW v, ShowsTo(v, k), NEW c \in Cards
  PROVE  IsDrawn(Drawn(v, Owner[c], c), v, c, k)
<1>. DEFINE p == Owner[c]
            hand == v.hand[p] \cup {c}
            n == v.hand_count[p]
            m == IF Cardinality(hand) >= n THEN Cardinality(hand) ELSE n + 1
            l == Less(v.library_count[p])
            w == Drawn(v, p, c)
<1>1. v \in ViewsTo(k) /\ p \in Players
  BY CardsOwned DEF ShowsTo
<1>2. hand \in SUBSET Cards /\ n \in Nat /\ l \in 0 .. Cardinality(Cards)
  BY <1>1, ViewFields, LessFits
<1>3. m \in Nat
  BY <1>2, HandsFinite
<1>4. w = [v EXCEPT !.hand[p] = hand, !.hand_count[p] = m, !.library_count[p] = l]
  BY <1>1 DEF Drawn, ViewsTo
<1>. HIDE DEF hand, n, m, l, w, p
<1>5. /\ w \in ViewsTo(k) /\ SameBoard(w, v)
      /\ w.library_count = [v.library_count EXCEPT ![p] = l]
      /\ w.hand = [v.hand EXCEPT ![p] = hand]
      /\ w.hand_count = [v.hand_count EXCEPT ![p] = m]
  BY <1>1, <1>2, <1>3, <1>4 DEF ViewsTo, SameBoard
<1>6. Sorted(w)
  BY <1>1, <1>5, ViewFields DEF ShowsTo, Sorted, SameBoard, hand, p
<1>. QED
  BY <1>5, <1>6 DEF IsDrawn, ShowsTo, p, hand, n, m, l, w

IsOut(w, v, c, k) ==
  LET p == Owner[c]
  IN  /\ ShowsTo(w, k) /\ SameBoard(w, v) /\ w.library_count = v.library_count
      /\ w.hand = [v.hand EXCEPT ![p] = v.hand[p] \ {c}]
      /\ w.hand_count = [v.hand_count EXCEPT ![p] =
                            IF c \in v.hand[p] THEN Cardinality(v.hand[p] \ {c})
                                               ELSE Less(v.hand_count[p])]

(* What a card that leaves a hand makes of a view. *)
LEMMA OutOfHandFits ==
  ASSUME NEW k, NEW v, ShowsTo(v, k), NEW c \in Cards
  PROVE  IsOut(OutOfHand(v, Owner[c], c), v, c, k)
<1>. DEFINE p == Owner[c]
            hand == v.hand[p] \ {c}
            m == IF c \in v.hand[p] THEN Cardinality(hand) ELSE Less(v.hand_count[p])
            w == OutOfHand(v, p, c)
<1>1. v \in ViewsTo(k) /\ p \in Players
  BY CardsOwned DEF ShowsTo
<1>2. hand \in SUBSET Cards /\ v.hand_count[p] \in Nat
  BY <1>1, ViewFields
<1>3. m \in Nat
  BY <1>2, HandsFinite, LessFits
<1>4. w = [v EXCEPT !.hand[p] = hand, !.hand_count[p] = m]
  BY <1>1 DEF OutOfHand, ViewsTo
<1>. HIDE DEF hand, m, w, p
<1>5. /\ w \in ViewsTo(k) /\ SameBoard(w, v) /\ w.library_count = v.library_count
      /\ w.hand = [v.hand EXCEPT ![p] = hand]
      /\ w.hand_count = [v.hand_count EXCEPT ![p] = m]
  BY <1>1, <1>2, <1>3, <1>4 DEF ViewsTo, SameBoard
<1>6. Sorted(w)
  BY <1>1, <1>5, ViewFields DEF ShowsTo, Sorted, SameBoard, hand, p
<1>. QED
  BY <1>5, <1>6 DEF IsOut, ShowsTo, p, hand, m, w

IsLife(w, v, p, n, k) ==
  /\ ShowsTo(w, k) /\ SameHands(w, v) /\ w.battlefield = v.battlefield
  /\ w.stack = v.stack /\ w.library_count = v.library_count
  /\ w.life = [v.life EXCEPT ![p] = n]

(* What life_changed makes of a view. *)
LEMMA LifeFits ==
  ASSUME NEW k, NEW v, ShowsTo(v, k), NEW p \in Players, NEW n \in Int
  PROVE  IsLife(LifeShown(v, p, n), v, p, n, k)
<1>. DEFINE w == LifeShown(v, p, n)
<1>1. /\ w \in ViewsTo(k) /\ SameHands(w, v) /\ w.life = [v.life EXCEPT ![p] = n]
      /\ w.battlefield = v.battlefield /\ w.stack = v.stack
      /\ w.library_count = v.library_count
  BY DEF ShowsTo, ViewsTo, LifeShown, SameHands
<1>. QED
  BY <1>1 DEF IsLife, ShowsTo, Sorted, SameHands

(* What damage_dealt makes of a view. *)
LEMMA HitFits ==
  ASSUME NEW k, NEW v, ShowsTo(v, k), NEW p \in Players, NEW n \in Int
  PROVE  v.life[p] - n \in Int /\ IsLife(Hit(v, p, n), v, p, v.life[p] - n, k)
<1>1. Hit(v, p, n) = LifeShown(v, p, v.life[p] - n) /\ v.life[p] - n \in Int
  BY DEF ShowsTo, ViewsTo, LifeShown, Hit
<1>. QED
  BY <1>1, LifeFits

(* What permanent_entered makes of a view. *)
LEMMA EntersFits ==
  ASSUME NEW k, NEW v, ShowsTo(v, k), NEW c \in Cards
  PROVE  LET p == Owner[c]
             w == Enters(v, p, c)
         IN  /\ ShowsTo(w, k) /\ SameHands(w, v) /\ w.life = v.life /\ w.stack = v.stack
             /\ w.library_count = v.library_count
             /\ w.battlefield = [v.battlefield EXCEPT ![p] = v.battlefield[p] \cup {c}]
<1>. DEFINE p == Owner[c]
            w == Enters(v, p, c)
            S == v.battlefield[p] \cup {c}
<1>1. v \in ViewsTo(k) /\ p \in Players
  BY CardsOwned DEF ShowsTo
<1>2. S \in SUBSET Cards
  BY <1>1, ViewFields
<1>3. w = [v EXCEPT !.battlefield[p] = S]
  BY <1>1 DEF Enters, ViewsTo
<1>. HIDE DEF S, w, p
<1>4. /\ w \in ViewsTo(k) /\ SameHands(w, v) /\ w.life = v.life /\ w.stack = v.stack
      /\ w.library_count = v.library_count /\ w.battlefield = [v.battlefield EXCEPT ![p] = S]
  BY <1>1, <1>2, <1>3 DEF ViewsTo, SameHands
<1>5. Sorted(w)
  BY <1>1, <1>4, ViewFields DEF ShowsTo, Sorted, SameHands, S, p
<1>. QED
  BY <1>4, <1>5 DEF ShowsTo, p, w, S

(* What permanent_destroyed makes of a view. *)
LEMMA DestroyedFits ==
  ASSUME NEW k, NEW v, ShowsTo(v, k), NEW c
  PROVE  LET w == Destroyed(v, c)
         IN  /\ ShowsTo(w, k) /\ SameHands(w, v) /\ w.life = v.life /\ w.stack = v.stack
             /\ w.library_count = v.library_count
             /\ w.battlefield = [p \in Players |-> v.battlefield[p] \ {c}]
<1>. DEFINE w == Destroyed(v, c)
<1>1. /\ w \in ViewsTo(k) /\ SameHands(w, v) /\ w.life = v.life /\ w.stack = v.stack
      /\ w.library_count = v.library_count
      /\ w.battlefield = [p \in Players |-> v.battlefield[p] \ {c}]
  BY DEF ShowsTo, ViewsTo, Destroyed, SameHands
<1>. HIDE DEF w
<1>2. Sorted(w)
  BY <1>1 DEF ShowsTo, ViewsTo, Sorted, SameHands
<1>. QED
  BY <1>1, <1>2 DEF ShowsTo, w

\* What is the same but for the stack.
OtherStack(w, v) ==
  w.life = v.life /\ w.battlefield = v.battlefield /\ w.library_count = v.library_count
    /\ SameHands(w, v)

(* A view with another stack. *)
LEMMA StackFits ==
  ASSUME NEW k, NEW v, ShowsTo(v, k), NEW s \in Seq(1 .. k), IsInjective(s)
  PROVE  LET w == [v EXCEPT !.stack = s]
         IN  ShowsTo(w, k) /\ OtherStack(w, v) /\ w.stack = s
<1>. DEFINE w == [v EXCEPT !.stack = s]
<1>1. w \in ViewsTo(k) /\ OtherStack(w, v) /\ w.stack = s
  BY DEF ShowsTo, ViewsTo, OtherStack, SameHands
<1>. HIDE DEF w
<1>2. Sorted(w)
  BY <1>1 DEF ShowsTo, Sorted, OtherStack, SameHands
<1>. QED
  BY <1>1, <1>2 DEF ShowsTo, w

IsPushed(w, v, id, k) ==
  /\ ShowsTo(w, k) /\ OtherStack(w, v)
  /\ \A x \in Nat \ {0} : x \in Range(w.stack) <=> x \in Range(v.stack) \/ x = id

(* Push adds an entry once. *)
LEMMA PushFits ==
  ASSUME NEW k \in Nat, NEW v, ShowsTo(v, k), NEW id \in 0 .. k
  PROVE  IsPushed(Push(v, id), v, id, k)
<1>1. v.stack \in Seq(1 .. k) /\ IsInjective(v.stack)
  BY DEF ShowsTo, ViewsTo, Sorted
<1>2. CASE id = 0 \/ id \in Range(v.stack)
  BY <1>2 DEF IsPushed, Push, OtherStack, SameHands
<1>3. CASE id # 0 /\ id \notin Range(v.stack)
  <2>. DEFINE s == Append(v.stack, id)
  <2>1. id \in 1 .. k
    BY <1>3
  <2>2. s \in Seq(1 .. k) /\ IsInjective(s) /\ Range(s) = Range(v.stack) \cup {id}
    BY <1>1, <1>3, <2>1, Pushes
  <2>3. Push(v, id) = [v EXCEPT !.stack = s]
    BY <1>3 DEF Push, ShowsTo, ViewsTo
  <2>. HIDE DEF s
  <2>4. ShowsTo(Push(v, id), k) /\ OtherStack(Push(v, id), v) /\ Push(v, id).stack = s
    BY <2>2, <2>3, StackFits
  <2>. QED
    BY <2>2, <2>4 DEF IsPushed
<1>. QED
  BY <1>2, <1>3

IsErased(w, v, id, k) ==
  ShowsTo(w, k) /\ OtherStack(w, v) /\ Range(w.stack) = Range(v.stack) \ {id}

(* Erase takes an entry away. *)
LEMMA EraseFits ==
  ASSUME NEW k \in Nat, NEW v, ShowsTo(v, k), NEW id
  PROVE  IsErased(Erase(v, id), v, id, k)
<1>1. v.stack \in Seq(1 .. k) /\ IsInjective(v.stack)
  BY DEF ShowsTo, ViewsTo, Sorted
<1>. DEFINE s == RemoveFirst(v.stack, id)
<1>2. s \in Seq(1 .. k) /\ IsInjective(s) /\ Range(s) = Range(v.stack) \ {id}
  BY <1>1, Erased
<1>3. Erase(v, id) = [v EXCEPT !.stack = s]
  BY DEF Erase, ShowsTo, ViewsTo
<1>. HIDE DEF s
<1>4. ShowsTo(Erase(v, id), k) /\ OtherStack(Erase(v, id), v) /\ Erase(v, id).stack = s
  BY <1>2, <1>3, StackFits
<1>. QED
  BY <1>2, <1>4 DEF IsErased

\* Transferred in two parts.
Left(v, p, c) == [v EXCEPT !.battlefield[p] = @ \ {c}]
Fewer(v, p) == [v EXCEPT !.library_count[p] = Less(@)]

Taken(v, e) ==
  CASE e.from = "hand" -> OutOfHand(v, e.player, e.card)
    [] e.from = "battlefield" -> Left(v, e.player, e.card)
    [] e.from = "library" -> Fewer(v, e.player)

Brought(v, p, c) ==
  [v EXCEPT !.hand[p] = @ \cup {c}, !.hand_count[p] = Cardinality(v.hand[p] \cup {c})]

IsBrought(w, v, c, k) ==
  LET p == Owner[c]
      hand == v.hand[p] \cup {c}
  IN  /\ ShowsTo(w, k) /\ SameBoard(w, v) /\ w.library_count = v.library_count
      /\ w.hand = [v.hand EXCEPT ![p] = hand]
      /\ w.hand_count = [v.hand_count EXCEPT ![p] = Cardinality(hand)]

(* A card that is brought to a hand. *)
LEMMA BroughtFits ==
  ASSUME NEW k, NEW v, ShowsTo(v, k), NEW c \in Cards
  PROVE  IsBrought(Brought(v, Owner[c], c), v, c, k)
<1>. DEFINE p == Owner[c]
            hand == v.hand[p] \cup {c}
            m == Cardinality(hand)
            w == Brought(v, p, c)
<1>1. v \in ViewsTo(k) /\ p \in Players
  BY CardsOwned DEF ShowsTo
<1>2. hand \in SUBSET Cards
  BY <1>1, ViewFields
<1>3. m \in Nat
  BY <1>2, HandsFinite
<1>4. w = [v EXCEPT !.hand[p] = hand, !.hand_count[p] = m]
  BY <1>1 DEF Brought, ViewsTo
<1>. HIDE DEF hand, m, w, p
<1>5. /\ w \in ViewsTo(k) /\ SameBoard(w, v) /\ w.library_count = v.library_count
      /\ w.hand = [v.hand EXCEPT ![p] = hand]
      /\ w.hand_count = [v.hand_count EXCEPT ![p] = m]
  BY <1>1, <1>2, <1>3, <1>4 DEF ViewsTo, SameBoard
<1>6. Sorted(w)
  BY <1>1, <1>5, ViewFields DEF ShowsTo, Sorted, SameBoard, hand, p
<1>. QED
  BY <1>5, <1>6 DEF IsBrought, ShowsTo, p, hand, m, w

HasLeft(w, v, c, k) ==
  LET p == Owner[c]
  IN  /\ ShowsTo(w, k) /\ SameHands(w, v) /\ w.life = v.life /\ w.stack = v.stack
      /\ w.library_count = v.library_count
      /\ w.battlefield = [v.battlefield EXCEPT ![p] = v.battlefield[p] \ {c}]

(* A card that leaves the battlefield. *)
LEMMA LeftFits ==
  ASSUME NEW k, NEW v, ShowsTo(v, k), NEW c \in Cards
  PROVE  HasLeft(Left(v, Owner[c], c), v, c, k)
<1>. DEFINE p == Owner[c]
            w == Left(v, p, c)
            S == v.battlefield[p] \ {c}
<1>1. v \in ViewsTo(k) /\ p \in Players
  BY CardsOwned DEF ShowsTo
<1>2. S \in SUBSET Cards
  BY <1>1, ViewFields
<1>3. w = [v EXCEPT !.battlefield[p] = S]
  BY <1>1 DEF ViewsTo, Left
<1>. HIDE DEF S, w, p
<1>4. /\ w \in ViewsTo(k) /\ SameHands(w, v) /\ w.life = v.life /\ w.stack = v.stack
      /\ w.library_count = v.library_count /\ w.battlefield = [v.battlefield EXCEPT ![p] = S]
  BY <1>1, <1>2, <1>3 DEF ViewsTo, SameHands
<1>5. Sorted(w)
  BY <1>1, <1>4, ViewFields DEF ShowsTo, Sorted, SameHands, S, p
<1>. QED
  BY <1>4, <1>5 DEF HasLeft, ShowsTo, p, w, S

IsFewer(w, v, p, k) ==
  /\ ShowsTo(w, k) /\ SameBoard(w, v) /\ SameHands(w, v)
  /\ w.library_count = [v.library_count EXCEPT ![p] = Less(v.library_count[p])]

(* A card that leaves a library. *)
LEMMA FewerFits ==
  ASSUME NEW k, NEW v, ShowsTo(v, k), NEW p \in Players
  PROVE  IsFewer(Fewer(v, p), v, p, k)
<1>. DEFINE l == Less(v.library_count[p])
            w == Fewer(v, p)
<1>1. v \in ViewsTo(k)
  BY DEF ShowsTo
<1>2. l \in 0 .. Cardinality(Cards)
  BY <1>1, ViewFields, LessFits
<1>3. w = [v EXCEPT !.library_count[p] = l]
  BY <1>1 DEF ViewsTo, Fewer
<1>. HIDE DEF w, l
<1>4. /\ w \in ViewsTo(k) /\ SameBoard(w, v) /\ SameHands(w, v)
      /\ w.library_count = [v.library_count EXCEPT ![p] = l]
  BY <1>1, <1>2, <1>3 DEF ViewsTo, SameBoard, SameHands
<1>5. Sorted(w)
  BY <1>4 DEF ShowsTo, Sorted, SameHands, SameBoard
<1>. QED
  BY <1>4, <1>5 DEF IsFewer, ShowsTo, l, w

(* zone_transfer is a card taken, and perhaps brought to a hand. *)
LEMMA TransferredParts ==
  ASSUME NEW k, NEW v \in ViewsTo(k), NEW e, Fits(e, k), e.kind = "zone_transfer"
  PROVE  Transferred(v, e) = IF e.dest = "hand" THEN Brought(Taken(v, e), e.player, e.card)
                                                ELSE Taken(v, e)
BY DEF Transferred, Brought, Taken, Left, Fewer

OwnCards == {c \in Cards : Owner[c] = Me}

\* The facts that a view shows or does not: a life total, a permanent, an entry
\* of the stack, a card in the own hand.
Marks == [of : {"life"}, who : Players, total : Int]
           \cup [of : {"battlefield"}, card : Cards]
           \cup [of : {"stack"}, id : Nat \ {0}]
           \cup [of : {"hand"}, card : OwnCards]

Has(v, m) ==
  \/ m.of = "life" /\ v.life[m.who] = m.total
  \/ m.of = "battlefield" /\ m.card \in v.battlefield[Owner[m.card]]
  \/ m.of = "stack" /\ m.id \in Range(v.stack)
  \/ m.of = "hand" /\ m.card \in v.hand[Me]

\* An event by which a view may change in the fact m.  The other player's
\* snapshot says nothing of the own hand.
Touches(e, m) ==
  \/ e.kind = "snapshot" /\ (m.of = "hand" => e.for = Me)
  \/ m.of = "life" /\ e.kind \in {"life_changed", "damage_dealt"} /\ e.player = m.who
  \/ /\ m.of = "battlefield" /\ e.kind \in {"permanent_entered", "permanent_destroyed"}
     /\ e.card = m.card
  \/ /\ m.of = "battlefield" /\ e.kind = "zone_transfer" /\ e.from = "battlefield"
     /\ e.card = m.card
  \/ /\ m.of = "stack" /\ e.kind \in {"card_played", "spell_resolved", "ability_activated"}
     /\ e.entry = m.id
  \/ m.of = "hand" /\ e.kind \in {"card_drawn", "card_played"} /\ e.card = m.card
  \/ /\ m.of = "hand" /\ e.kind = "zone_transfer" /\ "hand" \in {e.from, e.dest}
     /\ e.card = m.card

\* Whether m holds in a view after such an event.
Says(e, m) ==
  \/ e.kind = "snapshot" /\ Has(e.view, m)
  \/ e.kind = "life_changed" /\ e.total = m.total
  \/ m.of = "battlefield" /\ e.kind = "permanent_entered"
  \/ m.of = "stack" /\ e.kind \in {"card_played", "ability_activated"}
  \/ m.of = "hand" /\ e.kind = "card_drawn"
  \/ m.of = "hand" /\ e.kind = "zone_transfer" /\ e.dest = "hand"

(* The fields of a mark. *)
LEMMA MarkFields ==
  ASSUME NEW m \in Marks
  PROVE  /\ m.of \in {"life", "battlefield", "stack", "hand"}
         /\ m.of = "life" => m.who \in Players /\ m.total \in Int
         /\ m.of = "battlefield" => m.card \in Cards
         /\ m.of = "stack" => m.id \in Nat \ {0}
         /\ m.of = "hand" => m.card \in Cards /\ Owner[m.card] = Me
BY DEF Marks, OwnCards

\* w is a view to which e has been applied, as far as m goes.
Follows(w, v, e, m) ==
  /\ Touches(e, m) /\ e.kind # "damage_dealt" => (Has(w, m) <=> Says(e, m))
  /\ ~Touches(e, m) /\ (m.of = "hand" => e.kind # "snapshot") => (Has(w, m) <=> Has(v, m))

\* What Applied makes of a view: it still fits, and follows the event.
Sees(w, v, e, k) == ShowsTo(w, k) /\ \A m \in Marks : Follows(w, v, e, m)

(* A snapshot replaces the view. *)
LEMMA SeesSnapshot ==
  ASSUME NEW k \in Nat, NEW v, ShowsTo(v, k), NEW e, Fits(e, k), e.kind = "snapshot"
  PROVE  Sees(Applied(v, e), v, e, k)
<1>1. Applied(v, e) = e.view
  BY DEF Applied
<1>2. ShowsTo(e.view, k)
  BY DEF Fits
<1>3. ASSUME NEW m \in Marks
      PROVE  Follows(e.view, v, e, m)
  BY DEF Follows, Touches, Says
<1>. QED
  BY <1>1, <1>2, <1>3 DEF Sees

(* The events of life totals. *)
LEMMA SeesLife ==
  ASSUME NEW k \in Nat, NEW v, ShowsTo(v, k), NEW e, Fits(e, k),
         e.kind \in {"life_changed", "damage_dealt"}
  PROVE  Sees(Applied(v, e), v, e, k)
<1>. DEFINE w == Applied(v, e)
            p == e.player
<1>1. p \in Players
  BY DEF Fits
<1>2. PICK n \in Int : /\ IsLife(w, v, p, n, k)
                       /\ e.kind = "life_changed" => n = e.total
  <2>1. CASE e.kind = "life_changed"
    <3>1. w = LifeShown(v, p, e.total) /\ e.total \in Int
      BY <2>1 DEF Fits, Applied
    <3>. QED
      BY <1>1, <3>1, LifeFits
  <2>2. CASE e.kind = "damage_dealt"
    <3>1. w = Hit(v, p, e.amount) /\ e.amount \in Int
      BY <2>2 DEF Fits, Applied
    <3>. HIDE DEF w
    <3>. QED
      BY <1>1, <2>2, <3>1, HitFits
  <2>. QED
    BY <2>1, <2>2
<1>. HIDE DEF w
<1>3. /\ ShowsTo(w, k) /\ SameHands(w, v) /\ w.battlefield = v.battlefield
      /\ w.stack = v.stack
      /\ \A q \in Players : q # p => w.life[q] = v.life[q]
      /\ e.kind = "life_changed" => w.life[p] = n
  <2>1. v.life \in [Players -> Int]
    BY DEF ShowsTo, ViewsTo
  <2>. QED
    BY <1>1, <1>2, <2>1 DEF IsLife
<1>4. ASSUME NEW m \in Marks
      PROVE  Follows(w, v, e, m)
  BY <1>2, <1>3, MarkFields DEF Follows, Touches, Says, Has, SameHands
<1>. QED
  BY <1>3, <1>4 DEF Sees, w

(* A card that is drawn. *)
LEMMA SeesHand ==
  ASSUME NEW k \in Nat, NEW v, ShowsTo(v, k), NEW e, Fits(e, k), e.kind = "card_drawn"
  PROVE  Sees(Applied(v, e), v, e, k)
<1>. DEFINE w == Applied(v, e)
            c == e.card
<1>1. c \in Cards /\ e.player = Owner[c] /\ v.hand \in [Players -> SUBSET Cards]
      /\ Owner[c] \in Players /\ Me \in Players
  BY CardsOwned DEF Fits, OfCard, ShowsTo, ViewsTo, Players
<1>2. w = Drawn(v, Owner[c], c)
  BY <1>1 DEF Applied
<1>. HIDE DEF w
<1>3. /\ ShowsTo(w, k) /\ SameBoard(w, v)
      /\ w.hand = [v.hand EXCEPT ![Owner[c]] = v.hand[Owner[c]] \cup {c}]
  <2>1. IsDrawn(w, v, c, k)
    BY <1>1, <1>2, DrawnFits
  <2>. QED
    BY <2>1 DEF IsDrawn
<1>4. ASSUME NEW m \in Marks
      PROVE  Follows(w, v, e, m)
  BY <1>1, <1>3, MarkFields DEF Follows, Touches, Says, Has, SameBoard
<1>. QED
  BY <1>3, <1>4 DEF Sees, w

(* A card that is played. *)
LEMMA SeesPlayed ==
  ASSUME NEW k \in Nat, NEW v, ShowsTo(v, k), NEW e, Fits(e, k), e.kind = "card_played"
  PROVE  Sees(Applied(v, e), v, e, k)
<1>. DEFINE w == Applied(v, e)
            c == e.card
            u == OutOfHand(v, Owner[c], c)
<1>1. c \in Cards /\ e.player = Owner[c] /\ v.hand \in [Players -> SUBSET Cards]
      /\ Owner[c] \in Players /\ Me \in Players /\ e.entry \in 0 .. k
  BY CardsOwned DEF Fits, OfCard, ShowsTo, ViewsTo, Players
<1>2. w = Push(u, e.entry)
  BY <1>1 DEF Applied, CardPlayed
<1>3. /\ ShowsTo(u, k) /\ SameBoard(u, v)
      /\ u.hand = [v.hand EXCEPT ![Owner[c]] = v.hand[Owner[c]] \ {c}]
  <2>1. IsOut(u, v, c, k)
    BY <1>1, OutOfHandFits
  <2>. HIDE DEF u
  <2>. QED
    BY <2>1 DEF IsOut
<1>. HIDE DEF w, u
<1>4. /\ ShowsTo(w, k) /\ OtherStack(w, u)
      /\ \A x \in Nat \ {0} : x \in Range(w.stack) <=> x \in Range(u.stack) \/ x = e.entry
  <2>1. IsPushed(w, u, e.entry, k)
    BY <1>1, <1>2, <1>3, PushFits
  <2>. QED
    BY <2>1 DEF IsPushed
<1>5. /\ w.life = v.life /\ w.battlefield = v.battlefield /\ u.stack = v.stack
      /\ w.hand = [v.hand EXCEPT ![Owner[c]] = v.hand[Owner[c]] \ {c}]
  BY <1>3, <1>4 DEF SameBoard, OtherStack, SameHands
<1>6. ASSUME NEW m \in Marks
      PROVE  Follows(w, v, e, m)
  BY <1>1, <1>4, <1>5, MarkFields DEF Follows, Touches, Says, Has
<1>. QED
  BY <1>4, <1>6 DEF Sees, w

(* A permanent that is destroyed. *)
LEMMA SeesDestroyed ==
  ASSUME NEW k \in Nat, NEW v, ShowsTo(v, k), NEW e, Fits(e, k),
         e.kind = "permanent_destroyed"
  PROVE  Sees(Applied(v, e), v, e, k)
<1>. DEFINE w == Applied(v, e)
            c == e.card
<1>1. c \in Cards /\ w = Destroyed(v, c) /\ v.battlefield \in [Players -> SUBSET Cards]
      /\ \A d \in Cards : Owner[d] \in Players
  BY CardsOwned DEF Fits, Applied, ShowsTo, ViewsTo
<1>. HIDE DEF w
<1>2. /\ ShowsTo(w, k) /\ SameHands(w, v) /\ w.life = v.life /\ w.stack = v.stack
      /\ w.battlefield = [p \in Players |-> v.battlefield[p] \ {c}]
  BY <1>1, DestroyedFits
<1>3. ASSUME NEW m \in Marks
      PROVE  Follows(w, v, e, m)
  BY <1>1, <1>2, MarkFields DEF Follows, Touches, Says, Has, SameHands
<1>. QED
  BY <1>2, <1>3 DEF Sees, w

(* A permanent that enters. *)
LEMMA SeesEntered ==
  ASSUME NEW k \in Nat, NEW v, ShowsTo(v, k), NEW e, Fits(e, k),
         e.kind = "permanent_entered"
  PROVE  Sees(Applied(v, e), v, e, k)
<1>. DEFINE w == Applied(v, e)
            c == e.card
<1>1. c \in Cards /\ e.player = Owner[c] /\ w = Enters(v, Owner[c], c)
      /\ v.battlefield \in [Players -> SUBSET Cards] /\ \A d \in Cards : Owner[d] \in Players
  BY CardsOwned DEF Fits, OfCard, Applied, ShowsTo, ViewsTo
<1>. HIDE DEF w
<1>2. /\ ShowsTo(w, k) /\ SameHands(w, v) /\ w.life = v.life /\ w.stack = v.stack
      /\ w.battlefield = [v.battlefield EXCEPT ![Owner[c]] = v.battlefield[Owner[c]] \cup {c}]
  BY <1>1, EntersFits
<1>3. ASSUME NEW m \in Marks
      PROVE  Follows(w, v, e, m)
  BY <1>1, <1>2, MarkFields DEF Follows, Touches, Says, Has, SameHands
<1>. QED
  BY <1>2, <1>3 DEF Sees, w

(* The events of the stack. *)
LEMMA SeesStack ==
  ASSUME NEW k \in Nat, NEW v, ShowsTo(v, k), NEW e, Fits(e, k),
         e.kind \in {"spell_resolved", "ability_activated"}
  PROVE  Sees(Applied(v, e), v, e, k)
<1>. DEFINE w == Applied(v, e)
<1>1. e.entry \in 1 .. k /\ e.entry \in 0 .. k
  BY DEF Fits
<1>2. /\ e.kind = "spell_resolved" => w = Erase(v, e.entry)
      /\ e.kind = "ability_activated" => w = Push(v, e.entry)
  BY DEF Applied
<1>. HIDE DEF w
<1>3. /\ ShowsTo(w, k) /\ OtherStack(w, v)
      /\ e.kind = "spell_resolved" => Range(w.stack) = Range(v.stack) \ {e.entry}
      /\ e.kind = "ability_activated" =>
           \A x \in Nat \ {0} : x \in Range(w.stack) <=> x \in Range(v.stack) \/ x = e.entry
  <2>1. CASE e.kind = "spell_resolved"
    <3>1. IsErased(w, v, e.entry, k)
      BY <1>2, <2>1, EraseFits
    <3>. QED
      BY <2>1, <3>1 DEF IsErased
  <2>2. CASE e.kind = "ability_activated"
    <3>1. IsPushed(w, v, e.entry, k)
      BY <1>1, <1>2, <2>2, PushFits
    <3>. QED
      BY <2>2, <3>1 DEF IsPushed
  <2>. QED
    BY <2>1, <2>2
<1>4. ASSUME NEW m \in Marks
      PROVE  Follows(w, v, e, m)
  BY <1>1, <1>3, MarkFields DEF Follows, Touches, Says, Has, OtherStack, SameHands
<1>. QED
  BY <1>3, <1>4 DEF Sees, w

(* A card that changes zones. *)
LEMMA SeesTransfer ==
  ASSUME NEW k \in Nat, NEW v, ShowsTo(v, k), NEW e, Fits(e, k), e.kind = "zone_transfer"
  PROVE  Sees(Applied(v, e), v, e, k)
<1>. DEFINE w == Applied(v, e)
            c == e.card
            u == Taken(v, e)
<1>1. c \in Cards /\ e.player = Owner[c] /\ v.hand \in [Players -> SUBSET Cards]
      /\ v.battlefield \in [Players -> SUBSET Cards]
      /\ (\A d \in Cards : Owner[d] \in Players) /\ Me \in Players
      /\ e.from \in {"library", "hand", "battlefield"}
      /\ e.dest \in {"hand", "graveyard"}
  BY CardsOwned DEF Fits, OfCard, ShowsTo, ViewsTo, Players
<1>2. w = IF e.dest = "hand" THEN Brought(u, Owner[c], c) ELSE u
  <2>1. w = Transferred(v, e)
    BY DEF Applied
  <2>. QED
    BY <1>1, <2>1, TransferredParts DEF ShowsTo
<1>3. /\ ShowsTo(u, k) /\ u.life = v.life /\ u.stack = v.stack
      /\ u.hand = IF e.from = "hand"
                  THEN [v.hand EXCEPT ![Owner[c]] = v.hand[Owner[c]] \ {c}] ELSE v.hand
      /\ u.battlefield = IF e.from = "battlefield"
                         THEN [v.battlefield EXCEPT ![Owner[c]] = v.battlefield[Owner[c]] \ {c}]
                         ELSE v.battlefield
  <2>1. CASE e.from = "hand"
    <3>1. u = OutOfHand(v, Owner[c], c)
      BY <1>1, <2>1 DEF Taken
    <3>. HIDE DEF u
    <3>2. IsOut(u, v, c, k)
      BY <1>1, <3>1, OutOfHandFits
    <3>. QED
      BY <2>1, <3>2 DEF IsOut, SameBoard
  <2>2. CASE e.from = "battlefield"
    <3>1. u = Left(v, Owner[c], c)
      BY <1>1, <2>2 DEF Taken
    <3>. HIDE DEF u
    <3>2. HasLeft(u, v, c, k)
      BY <1>1, <3>1, LeftFits
    <3>. QED
      BY <2>2, <3>2 DEF HasLeft, SameHands
  <2>3. CASE e.from = "library"
    <3>1. u = Fewer(v, Owner[c])
      BY <1>1, <2>3 DEF Taken
    <3>. HIDE DEF u
    <3>2. IsFewer(u, v, Owner[c], k)
      BY <1>1, <3>1, FewerFits
    <3>. QED
      BY <2>3, <3>2 DEF IsFewer, SameHands, SameBoard
  <2>. QED
    BY <1>1, <2>1, <2>2, <2>3
<1>. HIDE DEF w, u
<1>4. /\ ShowsTo(w, k) /\ w.life = v.life /\ w.stack = v.stack
      /\ w.battlefield = u.battlefield
      /\ w.hand = IF e.dest = "hand"
                  THEN [u.hand EXCEPT ![Owner[c]] = u.hand[Owner[c]] \cup {c}] ELSE u.hand
  <2>1. CASE e.dest = "hand"
    <3>1. IsBrought(w, u, c, k)
      BY <1>1, <1>2, <1>3, <2>1, BroughtFits
    <3>. QED
      BY <1>3, <2>1, <3>1 DEF IsBrought, SameBoard
  <2>2. CASE e.dest # "hand"
    BY <1>2, <1>3, <2>2
  <2>. QED
    BY <2>1, <2>2
<1>5. ASSUME NEW m \in Marks
      PROVE  Follows(w, v, e, m)
  <2>1. CASE m.of = "hand"
    <3>1. m.card \in Cards /\ Owner[m.card] = Me
      BY <2>1, MarkFields
    <3>2. Has(w, m) <=> m.card \in w.hand[Me]
      BY <2>1 DEF Has
    <3>3. Has(v, m) <=> m.card \in v.hand[Me]
      BY <2>1 DEF Has
    <3>4. /\ Touches(e, m) <=> "hand" \in {e.from, e.dest} /\ c = m.card
          /\ Says(e, m) <=> e.dest = "hand"
      BY <2>1 DEF Touches, Says
    <3>. QED
      BY <1>1, <1>3, <1>4, <2>1, <3>1, <3>2, <3>3, <3>4 DEF Follows
  <2>2. CASE m.of = "battlefield"
    BY <1>1, <1>3, <1>4, <2>2, MarkFields DEF Follows, Touches, Says, Has
  <2>3. CASE m.of \in {"life", "stack"}
    BY <1>1, <1>3, <1>4, <2>3, MarkFields DEF Follows, Touches, Says, Has
  <2>. QED
    BY <2>1, <2>2, <2>3, MarkFields
<1>. QED
  BY <1>4, <1>5 DEF Sees, w

(* A prompt and the end of the game change no view. *)
LEMMA SeesOther ==
  ASSUME NEW k \in Nat, NEW v, ShowsTo(v, k), NEW e, Fits(e, k),
         e.kind \in {"action_prompt", "game_over"}
  PROVE  Sees(Applied(v, e), v, e, k)
<1>1. Applied(v, e) = v
  BY DEF Applied
<1>2. ASSUME NEW m \in Marks
      PROVE  Follows(v, v, e, m)
  BY DEF Follows, Touches
<1>. QED
  BY <1>1, <1>2 DEF Sees

(* Every event. *)
LEMMA SeesEvent ==
  ASSUME NEW k \in Nat, NEW v, ShowsTo(v, k), NEW e, Fits(e, k)
  PROVE  Sees(Applied(v, e), v, e, k)
<1>1. e.kind \in OfCard \cup {"snapshot", "life_changed", "damage_dealt", "permanent_destroyed",
                             "spell_resolved", "ability_activated", "action_prompt", "game_over"}
  BY DEF Fits
<1>. QED
  BY <1>1, SeesSnapshot, SeesLife, SeesHand, SeesPlayed, SeesDestroyed, SeesEntered,
     SeesStack, SeesTransfer, SeesOther DEF OfCard

-----------------------------------------------------------------------------
(* The game's side *)

Zones == {"library", "hand", "battlefield", "graveyard", "stack", "nowhere"}
Entries == [id : Nat \ {0}, card : SUBSET Cards]

Games == [life : [Players -> Int], zone : [Cards -> Zones], stack : Seq(Entries),
          entries : Nat, awaiting : Nat, over : BOOLEAN]

\* The stack holds entries with ids of their own, at most one card in each, which
\* is on the stack and in no other entry; a ghost is gone from it.
TableFits(s, zone, n, ghosts) ==
  /\ \A i \in 1 .. Len(s) : /\ s[i].id \in 1 .. n /\ s[i].id \notin ghosts
                            /\ \A c \in s[i].card : zone[c] = "stack"
                            /\ \A c, d \in s[i].card : c = d
  /\ \A i, j \in 1 .. Len(s) : i # j => s[i].id # s[j].id /\ s[i].card \cap s[j].card = {}
  /\ ghosts \subseteq 1 .. n

\* The ids on a stack.
IdsOn(s) == {s[i].id : i \in 1 .. Len(s)}

(* The cards of an entry are cards. *)
LEMMA CardsOf ==
  ASSUME NEW s \in Seq(Entries), NEW i \in 1 .. Len(s)
  PROVE  s[i].card \subseteq Cards
<1>1. s[i] \in Entries
  BY ElementOfSeq
<1>. QED
  BY <1>1 DEF Entries

(* Cards that are not on the stack may move. *)
LEMMA TableMoves ==
  ASSUME NEW s \in Seq(Entries), NEW zone, NEW n, NEW ghosts, TableFits(s, zone, n, ghosts),
         NEW zone2, \A c \in Cards : zone[c] = "stack" => zone2[c] = "stack"
  PROVE  TableFits(s, zone2, n, ghosts)
<1>1. \A i \in 1 .. Len(s) : s[i].card \subseteq Cards
  BY CardsOf
<1>. QED
  BY <1>1 DEF TableFits

\* The entry e, the next one made, joins the stack with its card.
Joins(e, n, zone, zone2) ==
  /\ e \in Entries /\ e.id = n + 1
  /\ \A c \in Cards : zone[c] = "stack" => zone2[c] = "stack"
  /\ \A c \in e.card : zone2[c] = "stack" /\ zone[c] # "stack"
  /\ \A c, d \in e.card : c = d

PushedOn(t, s, zone2, n, ghosts) ==
  /\ t \in Seq(Entries) /\ TableFits(t, zone2, n + 1, ghosts)
  /\ IdsOn(t) = IdsOn(s) \cup {n + 1}

(* An entry is pushed. *)
LEMMA TablePushed ==
  ASSUME NEW s \in Seq(Entries), NEW zone, NEW n \in Nat, NEW ghosts,
         TableFits(s, zone, n, ghosts), NEW e, NEW zone2, Joins(e, n, zone, zone2)
  PROVE  PushedOn(Append(s, e), s, zone2, n, ghosts)
<1>a. /\ e \in Entries /\ e.id = n + 1
      /\ \A c \in Cards : zone[c] = "stack" => zone2[c] = "stack"
      /\ \A c \in e.card : zone2[c] = "stack" /\ zone[c] # "stack"
      /\ \A c, d \in e.card : c = d
  BY DEF Joins
<1>. DEFINE t == Append(s, e)
            L == Len(s)
<1>1. /\ L \in Nat /\ t \in Seq(Entries) /\ Len(t) = L + 1
      /\ (\A i \in 1 .. L : t[i] = s[i]) /\ t[L + 1] = e
  BY <1>a, LenProperties, AppendProperties
<1>0. \A i \in 1 .. L : s[i].card \subseteq Cards
  BY CardsOf
<1>2. \A i \in 1 .. L : s[i].id \in Nat /\ s[i].id <= n
  BY DEF TableFits
<1>. HIDE DEF t, L
<1>3. \A i \in 1 .. L + 1 : i \in 1 .. L \/ i = L + 1
  BY <1>1
<1>4. ASSUME NEW i \in 1 .. L + 1
      PROVE  /\ t[i].id \in 1 .. n + 1 /\ t[i].id \notin ghosts
             /\ \A c \in t[i].card : zone2[c] = "stack"
             /\ \A c, d \in t[i].card : c = d
  <2>1. CASE i \in 1 .. L
    BY <1>a, <1>0, <1>1, <2>1 DEF TableFits, L
  <2>2. CASE i = L + 1
    BY <1>a, <1>1, <1>2, <2>2 DEF TableFits
  <2>. QED
    BY <1>3, <2>1, <2>2
<1>5. ASSUME NEW i \in 1 .. L, NEW j \in 1 .. L, i # j
      PROVE  t[i].id # t[j].id /\ t[i].card \cap t[j].card = {}
  BY <1>1, <1>5 DEF TableFits, L
<1>6. ASSUME NEW i \in 1 .. L
      PROVE  t[i].id # e.id /\ t[i].card \cap e.card = {}
  <2>1. t[i] = s[i] /\ s[i].id # n + 1
    BY <1>1, <1>2
  <2>2. \A c \in s[i].card : zone[c] = "stack"
    BY DEF TableFits, L
  <2>. QED
    BY <1>a, <2>1, <2>2
<1>7. ASSUME NEW i \in 1 .. L + 1, NEW j \in 1 .. L + 1, i # j
      PROVE  t[i].id # t[j].id /\ t[i].card \cap t[j].card = {}
  BY <1>1, <1>3, <1>5, <1>6, <1>7
<1>8. TableFits(t, zone2, n + 1, ghosts)
  <2>1. ghosts \subseteq 1 .. n + 1
    BY DEF TableFits
  <2>. QED
    BY <1>1, <1>4, <1>7, <2>1 DEF TableFits
<1>9. IdsOn(t) = IdsOn(s) \cup {n + 1}
  <2>1. \A x : x \in IdsOn(t) <=> \E i \in 1 .. L + 1 : t[i].id = x
    BY <1>1 DEF IdsOn
  <2>2. \A x : x \in IdsOn(s) <=> \E i \in 1 .. L : s[i].id = x
    BY DEF IdsOn, L
  <2>3. 1 .. L \subseteq 1 .. L + 1 /\ L + 1 \in 1 .. L + 1
    BY <1>1
  <2>. QED
    BY <1>a, <1>1, <1>3, <2>1, <2>2, <2>3
<1>. QED
  BY <1>1, <1>8, <1>9 DEF PushedOn, t

\* What is left when the k-th entry goes.
Popped(t, s, zone2, n, ghosts, k) ==
  /\ t \in Seq(Entries) /\ TableFits(t, zone2, n, ghosts)
  /\ TableFits(t, zone2, n, ghosts \cup {s[k].id})
  /\ IdsOn(t) = IdsOn(s) \ {s[k].id}

(* An entry is taken out. *)
LEMMA TablePopped ==
  ASSUME NEW s \in Seq(Entries), NEW zone, NEW n \in Nat, NEW ghosts,
         TableFits(s, zone, n, ghosts), NEW k \in 1 .. Len(s),
         NEW zone2, \A c \in Cards : c \in s[k].card \/ zone2[c] = zone[c]
  PROVE  Popped(RemoveAt(s, k), s, zone2, n, ghosts, k)
<1>. DEFINE t == RemoveAt(s, k)
<1>1. t \in Seq(Entries) /\ Len(t) = Len(s) - 1 /\ TakenOut(t, s, k) /\ Len(s) \in Nat
  BY RemovedAt, RemovedFrom, LenProperties
<1>. HIDE DEF t
<1>2. \A i \in 1 .. Len(t) : \E j \in 1 .. Len(s) : j # k /\ t[i] = s[j]
  BY <1>1 DEF TakenOut
<1>3. \A j \in 1 .. Len(s) : j # k => \E i \in 1 .. Len(t) : t[i] = s[j]
  BY <1>1 DEF TakenOut
<1>4. \A i, j \in 1 .. Len(t) : i # j =>
        \E a, b \in 1 .. Len(s) : a # b /\ t[i] = s[a] /\ t[j] = s[b]
  <2>1. SUFFICES ASSUME NEW i \in 1 .. Len(t), NEW j \in 1 .. Len(t), i # j
                 PROVE  \E a, b \in 1 .. Len(s) : a # b /\ t[i] = s[a] /\ t[j] = s[b]
    OBVIOUS
  <2>2. i \in 1 .. Len(s) - 1 /\ j \in 1 .. Len(s) - 1
    BY <1>1
  <2>3. PICK a, b \in {x \in 1 .. Len(s) : x # k} : a # b /\ t[i] = s[a] /\ t[j] = s[b]
    BY <1>1, <2>1, <2>2 DEF TakenOut
  <2>. QED
    BY <2>3
<1>5. \A j \in 1 .. Len(s) : j # k => s[j].id # s[k].id /\ s[j].card \cap s[k].card = {}
  BY DEF TableFits
<1>6. ASSUME NEW i \in 1 .. Len(t)
      PROVE  /\ t[i].id \in 1 .. n /\ t[i].id \notin ghosts \cup {s[k].id}
             /\ \A c \in t[i].card : zone2[c] = "stack"
             /\ \A c, d \in t[i].card : c = d
  <2>1. PICK j \in 1 .. Len(s) : j # k /\ t[i] = s[j]
    BY <1>2
  <2>2. s[j].card \subseteq Cards
    BY CardsOf
  <2>. QED
    BY <1>5, <2>1, <2>2 DEF TableFits
<1>7. ASSUME NEW i \in 1 .. Len(t), NEW j \in 1 .. Len(t), i # j
      PROVE  t[i].id # t[j].id /\ t[i].card \cap t[j].card = {}
  <2>1. PICK a, b \in 1 .. Len(s) : a # b /\ t[i] = s[a] /\ t[j] = s[b]
    BY <1>4, <1>7
  <2>. QED
    BY <2>1 DEF TableFits
<1>8. ghosts \subseteq 1 .. n /\ ghosts \cup {s[k].id} \subseteq 1 .. n
  BY DEF TableFits
<1>9. IdsOn(t) = IdsOn(s) \ {s[k].id}
  <2>1. \A x : x \in IdsOn(t) <=> \E i \in 1 .. Len(t) : t[i].id = x
    BY DEF IdsOn
  <2>2. \A x : x \in IdsOn(s) <=> \E i \in 1 .. Len(s) : s[i].id = x
    BY DEF IdsOn
  <2>3. ASSUME NEW x \in IdsOn(t)
        PROVE  x \in IdsOn(s) /\ x # s[k].id
    <3>1. PICK i \in 1 .. Len(t) : t[i].id = x
      BY <2>1, <2>3
    <3>2. PICK j \in 1 .. Len(s) : j # k /\ t[i] = s[j]
      BY <1>2
    <3>. QED
      BY <1>5, <2>2, <3>1, <3>2
  <2>4. ASSUME NEW x \in IdsOn(s), x # s[k].id
        PROVE  x \in IdsOn(t)
    BY <1>3, <2>1, <2>2, <2>4
  <2>. QED
    BY <2>3, <2>4
<1>10. TableFits(t, zone2, n, ghosts)
  BY <1>6, <1>7, <1>8 DEF TableFits
<1>11. TableFits(t, zone2, n, ghosts \cup {s[k].id})
  BY <1>6, <1>7, <1>8 DEF TableFits
<1>. QED
  BY <1>1, <1>9, <1>10, <1>11 DEF Popped, t

(* What is under the top of the stack. *)
LEMMA UnderTop ==
  ASSUME NEW S, NEW s \in Seq(S), s # <<>>
  PROVE  Len(s) \in 1 .. Len(s) /\ Front(s) = RemoveAt(s, Len(s)) /\ Last(s) = s[Len(s)]
<1>1. Len(s) \in Nat \ {0}
  BY EmptySeq
<1>2. SubSeq(s, Len(s) + 1, Len(s)) = <<>>
  BY <1>1, SubSeqEmpty
<1>3. SubSeq(s, 1, Len(s) - 1) \in Seq(S)
  <2>1. 1 \in Int /\ Len(s) - 1 \in Int /\ \A i \in 1 .. Len(s) - 1 : s[i] \in S
    BY <1>1, ElementOfSeq
  <2>. QED
    BY <2>1, SubSeqProperties
<1>. QED
  BY <1>1, <1>2, <1>3, ConcatEmptySeq DEF RemoveAt, Front, Last

-----------------------------------------------------------------------------
(* The log *)

LogTyped == log \in Seq(Range(log))

(* What a sequence holds says in which sets of sequences it is. *)
LEMMA SeqOfItsOwn ==
  ASSUME NEW S, NEW s \in Seq(S), NEW T, \A i \in 1 .. Len(s) : s[i] \in T
  PROVE  s \in Seq(T)
<1>1. 1 \in Int /\ Len(s) \in Int
  BY LenProperties
<1>2. SubSeq(s, 1, Len(s)) \in Seq(T)
  BY <1>1, SubSeqProperties
<1>3. SubSeq(s, 1, Len(s)) = s
  BY SubSeqFull
<1>. QED
  BY <1>2, <1>3

\* The log grows by k events.
Longer(k) ==
  /\ LogTyped /\ LogTyped' /\ Len(log) \in Nat /\ Len(log') = Len(log) + k
  /\ \A n \in 1 .. Len(log) : log'[n] = log[n]

(* Events are appended to the log. *)
LEMMA LogLonger ==
  ASSUME LogTyped, NEW S, NEW ev \in Seq(S), log' = log \o ev
  PROVE  /\ Longer(Len(ev)) /\ \A i \in 1 .. Len(ev) : log'[Len(log) + i] = ev[i]
<1>. DEFINE T == Range(log) \cup S
<1>1. Len(log) \in Nat /\ Len(ev) \in Nat
  BY LenProperties DEF LogTyped
<1>2. log \in Seq(T) /\ ev \in Seq(T)
  BY DEF LogTyped
<1>. HIDE DEF T
<1>3. /\ log' \in Seq(T) /\ Len(log') = Len(log) + Len(ev)
      /\ \A i \in 1 .. Len(log) + Len(ev) :
           log'[i] = IF i <= Len(log) THEN log[i] ELSE ev[i - Len(log)]
  BY <1>2, ConcatProperties
<1>4. LogTyped'
  <2>1. DOMAIN log' = 1 .. Len(log') /\ Len(log') \in Nat
    BY <1>3, LenProperties
  <2>2. \A i \in 1 .. Len(log') : log'[i] \in Range(log')
    BY <2>1 DEF Range
  <2>. QED
    BY <1>3, <2>2, SeqOfItsOwn DEF LogTyped
<1>5. \A n \in 1 .. Len(log) : log'[n] = log[n]
  <2>1. SUFFICES ASSUME NEW n \in 1 .. Len(log)
                 PROVE  log'[n] = log[n]
    OBVIOUS
  <2>2. n \in 1 .. Len(log) + Len(ev) /\ n <= Len(log)
    BY <1>1
  <2>. QED
    BY <1>3, <2>2
<1>6. \A i \in 1 .. Len(ev) : log'[Len(log) + i] = ev[i]
  <2>1. SUFFICES ASSUME NEW i \in 1 .. Len(ev)
                 PROVE  log'[Len(log) + i] = ev[i]
    OBVIOUS
  <2>2. /\ Len(log) + i \in 1 .. Len(log) + Len(ev) /\ ~(Len(log) + i <= Len(log))
        /\ (Len(log) + i) - Len(log) = i
    BY <1>1
  <2>. QED
    BY <1>3, <2>2
<1>. QED
  BY <1>1, <1>3, <1>4, <1>5, <1>6 DEF Longer

(* No event. *)
LEMMA NoneTold ==
  ASSUME LogTyped, log' = log \o <<>>
  PROVE  Longer(0)
<1>1. <<>> \in Seq({}) /\ Len(<<>>) = 0
  BY EmptySeq
<1>. QED
  BY <1>1, LogLonger

(* One event. *)
LEMMA OneTold ==
  ASSUME LogTyped, NEW a, log' = log \o <<a>> \/ log' = Append(log, a)
  PROVE  Longer(1) /\ log'[Len(log) + 1] = a
<1>1. <<a>> \in Seq({a}) /\ Len(<<a>>) = 1 /\ <<a>>[1] = a
  OBVIOUS
<1>2. log' = log \o <<a>>
  <2>1. Append(log, a) = log \o <<a>>
    BY AppendIsConcat DEF LogTyped
  <2>. QED
    BY <2>1
<1>3. Longer(Len(<<a>>)) /\ \A i \in 1 .. Len(<<a>>) : log'[Len(log) + i] = <<a>>[i]
  BY <1>1, <1>2, LogLonger
<1>. QED
  BY <1>1, <1>3

(* Two events. *)
LEMMA TwoTold ==
  ASSUME LogTyped, NEW a, NEW b, log' = log \o <<a, b>>
  PROVE  Longer(2) /\ log'[Len(log) + 1] = a /\ log'[Len(log) + 2] = b
<1>. DEFINE ev == <<a, b>>
<1>1. ev \in Seq({a, b}) /\ Len(ev) = 2 /\ ev[1] = a /\ ev[2] = b
  OBVIOUS
<1>2. Longer(Len(ev)) /\ \A i \in 1 .. Len(ev) : log'[Len(log) + i] = ev[i]
  BY <1>1, LogLonger
<1>. QED
  BY <1>1, <1>2

GameFits == /\ match \in Games
            /\ TableFits(match.stack, match.zone, match.entries, history.ghosts)

LogFits == LogTyped /\ \A n \in 1 .. Len(log) : Fits(log[n], match.entries)

\* Whether m holds in the game g.
RealIn(g, m) ==
  \/ m.of = "life" /\ g.life[m.who] = m.total
  \/ m.of = "battlefield" /\ g.zone[m.card] = "battlefield"
  \/ m.of = "stack" /\ m.id \in IdsOn(g.stack)
  \/ m.of = "hand" /\ g.zone[m.card] = "hand"

\* An event that says of m what is so in g, or nothing.
Right(e, m, g) == Touches(e, m) => e.kind # "damage_dealt" /\ (Says(e, m) <=> RealIn(g, m))

\* The k new events tell of m: nothing has changed, or the client's player is
\* told and nothing false is told after.
TellsOf(m, k) ==
  \/ /\ RealIn(match', m) <=> RealIn(match, m)
     /\ \A i \in 1 .. k : Right(log'[Len(log) + i], m, match')
  \/ \E i \in 1 .. k : /\ Touches(log'[Len(log) + i], m) /\ Me \in log'[Len(log) + i].to
                       /\ \A j \in i .. k : Right(log'[Len(log) + j], m, match')

\* A card that leaves p's library, as the client's player is told.
LibraryEvent(e, p) ==
  /\ Me \in e.to /\ e.kind \in {"card_drawn", "zone_transfer"} /\ e.player = p
  /\ e.kind = "zone_transfer" => e.from = "library"

\* The own card c that comes into the hand or leaves it.
HandEvent(e, c) ==
  /\ Me \in e.to /\ e.kind \in {"card_drawn", "card_played", "zone_transfer"} /\ e.card = c
  /\ e.kind = "zone_transfer" => "hand" \in {e.from, e.dest}

Brings(e) == e.kind = "card_drawn" \/ (e.kind = "zone_transfer" /\ e.dest = "hand")

Library(g, p) == {c \in Cards : Owner[c] = p /\ g.zone[c] = "library"}

\* The k new events tell of p's library: it is as it was, or one card less.
CountsOf(p, k) ==
  \/ /\ Library(match', p) = Library(match, p)
     /\ \A i \in 1 .. k : ~LibraryEvent(log'[Len(log) + i], p)
  \/ /\ \E c \in Library(match, p) : Library(match', p) = Library(match, p) \ {c}
     /\ \E i \in 1 .. k : /\ LibraryEvent(log'[Len(log) + i], p)
                          /\ \A j \in 1 .. k \ {i} : ~LibraryEvent(log'[Len(log) + j], p)

\* The k new events tell of the own card c: it has stayed, or come, or gone.
HoldsOf(c, k) ==
  \/ /\ match'.zone[c] = "hand" <=> match.zone[c] = "hand"
     /\ \A i \in 1 .. k : ~HandEvent(log'[Len(log) + i], c)
  \/ /\ ~(match'.zone[c] = "hand" <=> match.zone[c] = "hand")
     /\ \E i \in 1 .. k : /\ HandEvent(log'[Len(log) + i], c)
                          /\ Brings(log'[Len(log) + i]) <=> match'.zone[c] = "hand"
                          /\ \A j \in 1 .. k \ {i} : ~HandEvent(log'[Len(log) + j], c)

Told == {m \in Marks : m.of = "stack" => m.id \notin history.ghosts}

HistoryTyped ==
  history \in [for : Players, upto : Nat, again : BOOLEAN, astray : Nat, missed : BOOLEAN,
               answered : BOOLEAN, ghosts : SUBSET Nat, losses : Nat]

\* Nothing but ghosts may change in the history.
SameHistory ==
  /\ history'.for = history.for /\ history'.upto = history.upto
  /\ history'.again = history.again /\ history'.astray = history.astray
  /\ history'.missed = history.missed /\ history'.answered = history.answered

\* A snapshot of the game, which has not changed.
TrueOf(e) == e.view = Snapshot(e.for) /\ match' = match

\* A step of the game with k events.
Plays(k) ==
  /\ k \in 0 .. 2 /\ Longer(k) /\ ~match.over
  /\ match' \in Games /\ match'.entries >= match.entries
  /\ TableFits(match'.stack, match'.zone, match'.entries, history'.ghosts)
  /\ \A i \in 1 .. k : Fits(log'[Len(log) + i], match'.entries)
  /\ UNCHANGED <<action, state, rejoin, local>>
  /\ SameHistory /\ HistoryTyped'
  /\ history.ghosts \subseteq history'.ghosts
  /\ match'.awaiting = match.awaiting /\ match'.over = match.over
  /\ \A i \in 1 .. k : /\ log'[Len(log) + i].kind \notin {"action_prompt", "game_over"}
                       /\ log'[Len(log) + i].kind = "snapshot" => TrueOf(log'[Len(log) + i])
  /\ \A m \in Told' : TellsOf(m, k)
  /\ \A p \in Players : CountsOf(p, k)
  /\ \A c \in OwnCards : HoldsOf(c, k)

(* One event tells of m. *)
LEMMA TellsOfOne ==
  ASSUME NEW m, NEW a, log'[Len(log) + 1] = a, Right(a, m, match'),
         \/ RealIn(match', m) <=> RealIn(match, m)
         \/ Touches(a, m) /\ Me \in a.to
  PROVE  TellsOf(m, 1)
BY DEF TellsOf

(* Two events tell of m. *)
LEMMA TellsOfTwo ==
  ASSUME NEW m, NEW a, NEW b, log'[Len(log) + 1] = a, log'[Len(log) + 2] = b,
         Right(b, m, match'),
         \/ Right(a, m, match') /\ (RealIn(match', m) <=> RealIn(match, m))
         \/ Right(a, m, match') /\ Touches(a, m) /\ Me \in a.to
         \/ Touches(b, m) /\ Me \in b.to
  PROVE  TellsOf(m, 2)
<1>1. 1 .. 2 = {1, 2} /\ 2 .. 2 = {2}
  OBVIOUS
<1>. QED
  BY <1>1 DEF TellsOf

(* One event tells of a library. *)
LEMMA CountsOfOne ==
  ASSUME NEW p, NEW a, log'[Len(log) + 1] = a,
         \/ ~LibraryEvent(a, p) /\ Library(match', p) = Library(match, p)
         \/ /\ LibraryEvent(a, p)
            /\ \E c \in Library(match, p) : Library(match', p) = Library(match, p) \ {c}
  PROVE  CountsOf(p, 1)
BY DEF CountsOf

(* Two events tell of a library. *)
LEMMA CountsOfTwo ==
  ASSUME NEW p, NEW a, NEW b, log'[Len(log) + 1] = a, log'[Len(log) + 2] = b,
         \/ /\ ~LibraryEvent(a, p) /\ ~LibraryEvent(b, p)
            /\ Library(match', p) = Library(match, p)
         \/ /\ LibraryEvent(a, p) <=> ~LibraryEvent(b, p)
            /\ \E c \in Library(match, p) : Library(match', p) = Library(match, p) \ {c}
  PROVE  CountsOf(p, 2)
<1>1. 1 .. 2 = {1, 2}
  OBVIOUS
<1>. QED
  BY <1>1 DEF CountsOf

(* One event tells of an own card. *)
LEMMA HoldsOfOne ==
  ASSUME NEW c, NEW a, log'[Len(log) + 1] = a,
         \/ ~HandEvent(a, c) /\ (match'.zone[c] = "hand" <=> match.zone[c] = "hand")
         \/ /\ HandEvent(a, c) /\ (Brings(a) <=> match'.zone[c] = "hand")
            /\ ~(match'.zone[c] = "hand" <=> match.zone[c] = "hand")
  PROVE  HoldsOf(c, 1)
BY DEF HoldsOf

(* Two events tell of an own card. *)
LEMMA HoldsOfTwo ==
  ASSUME NEW c, NEW a, NEW b, log'[Len(log) + 1] = a, log'[Len(log) + 2] = b,
         \/ /\ ~HandEvent(a, c) /\ ~HandEvent(b, c)
            /\ match'.zone[c] = "hand" <=> match.zone[c] = "hand"
         \/ /\ HandEvent(a, c) /\ ~HandEvent(b, c) /\ (Brings(a) <=> match'.zone[c] = "hand")
            /\ ~(match'.zone[c] = "hand" <=> match.zone[c] = "hand")
         \/ /\ ~HandEvent(a, c) /\ HandEvent(b, c) /\ (Brings(b) <=> match'.zone[c] = "hand")
            /\ ~(match'.zone[c] = "hand" <=> match.zone[c] = "hand")
  PROVE  HoldsOf(c, 2)
<1>1. 1 .. 2 = {1, 2}
  OBVIOUS
<1>. QED
  BY <1>1 DEF HoldsOf

(* A card moves, and not to or from the stack. *)
MovesTo(g, c, x, y) ==
  /\ g \in Games /\ c \in Cards /\ match.zone[c] = x /\ x # "stack" /\ x # y
  /\ g.zone[c] = y /\ \A d \in Cards : d # c => g.zone[d] = match.zone[d]
  /\ g.life = match.life /\ g.stack = match.stack /\ g.entries = match.entries
  /\ g.awaiting = match.awaiting /\ g.over = match.over
  /\ TableFits(g.stack, g.zone, g.entries, history.ghosts)

(* A card that is moved. *)
LEMMA MovedTo ==
  ASSUME GameFits, NEW c \in Cards, NEW x \in Zones \ {"stack"}, NEW y \in Zones,
         match.zone[c] = x, x # y
  PROVE  MovesTo(Moved(c, y), c, x, y)
<1>. DEFINE g == Moved(c, y)
<1>1. match \in Games
  BY DEF GameFits
<1>2. /\ g \in Games /\ g.zone = [match.zone EXCEPT ![c] = y]
      /\ g.life = match.life /\ g.stack = match.stack /\ g.entries = match.entries
      /\ g.awaiting = match.awaiting /\ g.over = match.over
  BY <1>1 DEF Games, Moved
<1>3. match.zone \in [Cards -> Zones]
  BY <1>1 DEF Games
<1>. HIDE DEF g
<1>4. \A d \in Cards : d # c => g.zone[d] = match.zone[d]
  BY <1>2, <1>3
<1>5. g.zone[c] = y
  BY <1>2, <1>3
<1>6. TableFits(g.stack, g.zone, g.entries, history.ghosts)
  <2>1. \A d \in Cards : match.zone[d] = "stack" => g.zone[d] = "stack"
    BY <1>4
  <2>2. match.stack \in Seq(Entries)
    BY <1>1 DEF Games
  <2>3. TableFits(match.stack, g.zone, match.entries, history.ghosts)
    BY <2>1, <2>2, TableMoves DEF GameFits
  <2>. QED
    BY <1>2, <2>3
<1>. QED
  BY <1>2, <1>4, <1>5, <1>6 DEF MovesTo, g

(* What is real after it. *)
LEMMA RealMoved ==
  ASSUME NEW g, NEW c, NEW x, NEW y, MovesTo(g, c, x, y), NEW m \in Marks
  PROVE  /\ m.of \in {"life", "stack"} => (RealIn(g, m) <=> RealIn(match, m))
         /\ m.of \in {"battlefield", "hand"} /\ m.card # c => (RealIn(g, m) <=> RealIn(match, m))
         /\ m.of \in {"battlefield", "hand"} /\ m.card = c =>
              /\ RealIn(g, m) <=> y = m.of
              /\ RealIn(match, m) <=> x = m.of
BY MarkFields DEF MovesTo, RealIn

(* The libraries when a card is moved. *)
LEMMA LibraryMoved ==
  ASSUME NEW g, NEW c, NEW x, NEW y, MovesTo(g, c, x, y), NEW p
  PROVE  /\ x = "library" /\ Owner[c] = p =>
              c \in Library(match, p) /\ Library(g, p) = Library(match, p) \ {c}
         /\ Owner[c] # p \/ (x # "library" /\ y # "library") => Library(g, p) = Library(match, p)
BY DEF MovesTo, Library

(* What a move of a card does, however it is told. *)
LEMMA MovePlays ==
  ASSUME GameFits, HistoryTyped, NEW k \in 0 .. 2, Longer(k), ~match.over, NEW c, NEW x, NEW y,
         MovesTo(match', c, x, y), history' = history,
         UNCHANGED <<action, state, rejoin, local>>,
         \A i \in 1 .. k : /\ Fits(log'[Len(log) + i], match'.entries)
                           /\ log'[Len(log) + i].kind \notin
                                {"action_prompt", "game_over", "snapshot"},
         \A m \in Marks : TellsOf(m, k),
         \A p \in Players : CountsOf(p, k),
         \A d \in OwnCards : HoldsOf(d, k)
  PROVE  Plays(k)
<1>1. /\ match' \in Games /\ match'.entries = match.entries /\ match'.awaiting = match.awaiting
      /\ match'.over = match.over
      /\ TableFits(match'.stack, match'.zone, match'.entries, history.ghosts)
  BY DEF MovesTo
<1>2. match.entries \in Nat /\ match'.entries >= match.entries
  BY <1>1 DEF GameFits, Games
<1>3. SameHistory /\ HistoryTyped' /\ history.ghosts \subseteq history'.ghosts
  BY DEF SameHistory, HistoryTyped
<1>4. \A m \in Told' : TellsOf(m, k)
  BY DEF Told
<1>. QED
  BY <1>1, <1>2, <1>3, <1>4 DEF Plays

(* The owner of a card. *)
LEMMA OwnerPlays ==
  ASSUME NEW c \in Cards
  PROVE  Owner[c] \in Players /\ Me \in Players /\ (Owner[c] = Me \/ Owner[c] # Me)
BY CardsOwned DEF Players

(* Draw tells what it does. *)
LEMMA DrawPlays ==
  ASSUME GameFits, HistoryTyped, LogFits, Draw
  PROVE  Plays(2)
<1>1. PICK c \in Cards :
        /\ match.zone[c] = "library"
        /\ Does(Moved(c, "hand"),
               <<[kind |-> "card_drawn", to |-> {Owner[c]}, player |-> Owner[c], card |-> c],
                 Transfer(c, "library", "hand", Players \ {Owner[c]})>>)
  BY DEF Draw
<1>. DEFINE a == [kind |-> "card_drawn", to |-> {Owner[c]}, player |-> Owner[c], card |-> c]
            b == Transfer(c, "library", "hand", Players \ {Owner[c]})
<1>2. /\ ~match.over /\ match' = Moved(c, "hand") /\ log' = log \o <<a, b>>
      /\ history' = history /\ UNCHANGED <<action, state, rejoin, local>>
  BY <1>1 DEF Does, Draw
<1>3. MovesTo(match', c, "library", "hand")
  BY <1>1, <1>2, MovedTo DEF Zones
<1>4. /\ a.kind = "card_drawn" /\ a.to = {Owner[c]} /\ a.player = Owner[c] /\ a.card = c
      /\ b.kind = "zone_transfer" /\ b.to = Players \ {Owner[c]} /\ b.player = Owner[c]
      /\ b.card = c /\ b.from = "library" /\ b.dest = "hand"
  BY DEF Transfer
<1>. HIDE DEF a, b
<1>5. Longer(2) /\ log'[Len(log) + 1] = a /\ log'[Len(log) + 2] = b
  BY <1>2, TwoTold DEF LogFits
<1>6. \A i \in 1 .. 2 : /\ Fits(log'[Len(log) + i], match'.entries)
                        /\ log'[Len(log) + i].kind \notin
                             {"action_prompt", "game_over", "snapshot"}
  <2>1. Fits(a, match'.entries) /\ Fits(b, match'.entries)
    BY <1>4, OwnerPlays DEF Fits, OfCard
  <2>2. 1 .. 2 = {1, 2}
    OBVIOUS
  <2>. QED
    BY <1>4, <1>5, <2>1, <2>2
<1>7. ASSUME NEW m \in Marks
      PROVE  TellsOf(m, 2)
  <2>1. CASE m.of = "hand" /\ m.card = c
    <3>1. Owner[c] = Me /\ RealIn(match', m)
      BY <1>3, <2>1, MarkFields, RealMoved
    <3>2. Right(a, m, match') /\ Right(b, m, match') /\ Touches(a, m) /\ Me \in a.to
      BY <1>4, <2>1, <3>1 DEF Right, Touches, Says
    <3>. QED
      BY <1>5, <3>2, TellsOfTwo
  <2>2. CASE ~(m.of = "hand" /\ m.card = c)
    <3>1. RealIn(match', m) <=> RealIn(match, m)
      BY <1>3, <2>2, MarkFields, RealMoved
    <3>2. Right(a, m, match') /\ Right(b, m, match')
      BY <1>4, <2>2 DEF Right, Touches
    <3>. QED
      BY <1>5, <3>1, <3>2, TellsOfTwo
  <2>. QED
    BY <2>1, <2>2
<1>8. ASSUME NEW p \in Players
      PROVE  CountsOf(p, 2)
  <2>1. CASE p = Owner[c]
    <3>1. c \in Library(match, p) /\ Library(match', p) = Library(match, p) \ {c}
      BY <1>3, <2>1, LibraryMoved
    <3>2. LibraryEvent(a, p) <=> ~LibraryEvent(b, p)
      BY <1>4, <2>1, OwnerPlays DEF LibraryEvent
    <3>. QED
      BY <1>5, <3>1, <3>2, CountsOfTwo
  <2>2. CASE p # Owner[c]
    <3>1. Library(match', p) = Library(match, p)
      BY <1>3, <2>2, LibraryMoved
    <3>2. ~LibraryEvent(a, p) /\ ~LibraryEvent(b, p)
      BY <1>4, <2>2 DEF LibraryEvent
    <3>. QED
      BY <1>5, <3>1, <3>2, CountsOfTwo
  <2>. QED
    BY <2>1, <2>2
<1>9. ASSUME NEW d \in OwnCards
      PROVE  HoldsOf(d, 2)
  <2>1. CASE d = c
    <3>1. Owner[c] = Me /\ match'.zone[d] = "hand" /\ match.zone[d] # "hand"
      BY <1>1, <1>3, <2>1 DEF MovesTo, OwnCards
    <3>2. HandEvent(a, d) /\ Brings(a) /\ ~HandEvent(b, d)
      BY <1>4, <2>1, <3>1 DEF HandEvent, Brings
    <3>. QED
      BY <1>5, <3>1, <3>2, HoldsOfTwo
  <2>2. CASE d # c
    <3>1. match'.zone[d] = match.zone[d]
      BY <1>3, <2>2 DEF MovesTo, OwnCards
    <3>2. ~HandEvent(a, d) /\ ~HandEvent(b, d)
      BY <1>4, <2>2 DEF HandEvent
    <3>. QED
      BY <1>5, <3>1, <3>2, HoldsOfTwo
  <2>. QED
    BY <2>1, <2>2
<1>. QED
  BY <1>2, <1>3, <1>5, <1>6, <1>7, <1>8, <1>9, MovePlays

(* Mill tells what it does. *)
LEMMA MillPlays ==
  ASSUME GameFits, HistoryTyped, LogFits, Mill
  PROVE  Plays(1)
<1>. DEFINE Ev(c) == <<Transfer(c, "library", "graveyard", Players)>>
<1>1. PICK c \in Cards : match.zone[c] = "library" /\ Does(Moved(c, "graveyard"), Ev(c))
  BY DEF Mill
<1>. DEFINE a == Transfer(c, "library", "graveyard", Players)
<1>2. /\ ~match.over /\ match' = Moved(c, "graveyard") /\ log' = log \o <<a>>
      /\ history' = history /\ UNCHANGED <<action, state, rejoin, local>>
  BY <1>1 DEF Does, Mill
<1>3. MovesTo(match', c, "library", "graveyard")
  BY <1>1, <1>2, MovedTo DEF Zones
<1>4. /\ a.kind = "zone_transfer" /\ a.to = Players /\ a.card = c /\ a.player = Owner[c]
      /\ a.from = "library" /\ a.dest = "graveyard"
  BY DEF Transfer
<1>. HIDE DEF a, Ev
<1>5. Longer(1) /\ log'[Len(log) + 1] = a
  BY <1>2, OneTold DEF LogFits
<1>6. \A i \in 1 .. 1 : /\ Fits(log'[Len(log) + i], match'.entries)
                        /\ log'[Len(log) + i].kind \notin
                             {"action_prompt", "game_over", "snapshot"}
  <2>1. Fits(a, match'.entries)
    BY <1>3, <1>4, OwnerPlays DEF Fits, OfCard, MovesTo, Games
  <2>2. 1 .. 1 = {1}
    OBVIOUS
  <2>. QED
    BY <1>4, <1>5, <2>1, <2>2
<1>7. ASSUME NEW m \in Marks
      PROVE  TellsOf(m, 1)
  <2>1. CASE m.of \in {"battlefield", "hand"} /\ m.card = c
    <3>1. /\ RealIn(match', m) <=> "graveyard" = m.of
          /\ RealIn(match, m) <=> "library" = m.of
      BY <1>3, <2>1, RealMoved
    <3>2. Right(a, m, match')
      BY <1>4, <2>1, <3>1 DEF Right, Touches, Says
    <3>3. (RealIn(match', m) <=> RealIn(match, m)) \/ Touches(a, m)
      BY <1>4, <2>1, <3>1 DEF Touches
    <3>. QED
      BY <1>4, <1>5, <3>2, <3>3, OwnerPlays, TellsOfOne
  <2>2. CASE ~(m.of \in {"battlefield", "hand"} /\ m.card = c)
    <3>1. RealIn(match', m) <=> RealIn(match, m)
      BY <1>3, <2>2, MarkFields, RealMoved
    <3>2. Right(a, m, match')
      BY <1>4, <2>2, MarkFields DEF Right, Touches
    <3>. QED
      BY <1>5, <3>1, <3>2, TellsOfOne
  <2>. QED
    BY <2>1, <2>2
<1>8. ASSUME NEW p \in Players
      PROVE  CountsOf(p, 1)
  <2>1. CASE p = Owner[c]
    <3>1. c \in Library(match, p) /\ Library(match', p) = Library(match, p) \ {c}
      BY <1>3, <2>1, LibraryMoved
    <3>2. LibraryEvent(a, p)
      BY <1>4, <2>1, OwnerPlays DEF LibraryEvent
    <3>. QED
      BY <1>5, <3>1, <3>2, CountsOfOne
  <2>2. CASE p # Owner[c]
    <3>1. Library(match', p) = Library(match, p)
      BY <1>3, <2>2, LibraryMoved
    <3>2. ~LibraryEvent(a, p)
      BY <1>4, <2>2 DEF LibraryEvent
    <3>. QED
      BY <1>5, <3>1, <3>2, CountsOfOne
  <2>. QED
    BY <2>1, <2>2
<1>9. ASSUME NEW d \in OwnCards
      PROVE  HoldsOf(d, 1)
  <2>1. match'.zone[d] = "hand" <=> match.zone[d] = "hand"
    BY <1>3 DEF MovesTo, OwnCards
  <2>2. ~HandEvent(a, d)
    BY <1>4 DEF HandEvent
  <2>. QED
    BY <1>5, <2>1, <2>2, HoldsOfOne
<1>. QED
  BY <1>2, <1>3, <1>5, <1>6, <1>7, <1>8, <1>9, MovePlays

(* Discard tells what it does. *)
LEMMA DiscardPlays ==
  ASSUME GameFits, HistoryTyped, LogFits, Discard
  PROVE  Plays(1)
<1>. DEFINE Ev(c) == <<Transfer(c, "hand", "graveyard", Players)>>
<1>1. PICK c \in Cards : match.zone[c] = "hand" /\ Does(Moved(c, "graveyard"), Ev(c))
  BY DEF Discard
<1>. DEFINE a == Transfer(c, "hand", "graveyard", Players)
<1>2. /\ ~match.over /\ match' = Moved(c, "graveyard") /\ log' = log \o <<a>>
      /\ history' = history /\ UNCHANGED <<action, state, rejoin, local>>
  BY <1>1 DEF Does, Discard
<1>3. MovesTo(match', c, "hand", "graveyard")
  BY <1>1, <1>2, MovedTo DEF Zones
<1>4. /\ a.kind = "zone_transfer" /\ a.to = Players /\ a.card = c /\ a.player = Owner[c]
      /\ a.from = "hand" /\ a.dest = "graveyard"
  BY DEF Transfer
<1>. HIDE DEF a, Ev
<1>5. Longer(1) /\ log'[Len(log) + 1] = a
  BY <1>2, OneTold DEF LogFits
<1>6. \A i \in 1 .. 1 : /\ Fits(log'[Len(log) + i], match'.entries)
                        /\ log'[Len(log) + i].kind \notin
                             {"action_prompt", "game_over", "snapshot"}
  <2>1. Fits(a, match'.entries)
    BY <1>3, <1>4, OwnerPlays DEF Fits, OfCard, MovesTo, Games
  <2>2. 1 .. 1 = {1}
    OBVIOUS
  <2>. QED
    BY <1>4, <1>5, <2>1, <2>2
<1>7. ASSUME NEW m \in Marks
      PROVE  TellsOf(m, 1)
  <2>1. CASE m.of \in {"battlefield", "hand"} /\ m.card = c
    <3>1. /\ RealIn(match', m) <=> "graveyard" = m.of
          /\ RealIn(match, m) <=> "hand" = m.of
      BY <1>3, <2>1, RealMoved
    <3>2. Right(a, m, match')
      BY <1>4, <2>1, <3>1 DEF Right, Touches, Says
    <3>3. (RealIn(match', m) <=> RealIn(match, m)) \/ Touches(a, m)
      BY <1>4, <2>1, <3>1 DEF Touches
    <3>. QED
      BY <1>4, <1>5, <3>2, <3>3, OwnerPlays, TellsOfOne
  <2>2. CASE ~(m.of \in {"battlefield", "hand"} /\ m.card = c)
    <3>1. RealIn(match', m) <=> RealIn(match, m)
      BY <1>3, <2>2, MarkFields, RealMoved
    <3>2. Right(a, m, match')
      BY <1>4, <2>2, MarkFields DEF Right, Touches
    <3>. QED
      BY <1>5, <3>1, <3>2, TellsOfOne
  <2>. QED
    BY <2>1, <2>2
<1>8. ASSUME NEW p \in Players
      PROVE  CountsOf(p, 1)
  <2>1. Library(match', p) = Library(match, p)
    BY <1>3, LibraryMoved
  <2>2. ~LibraryEvent(a, p)
    BY <1>4 DEF LibraryEvent
  <2>. QED
    BY <1>5, <2>1, <2>2, CountsOfOne
<1>9. ASSUME NEW d \in OwnCards
      PROVE  HoldsOf(d, 1)
  <2>1. CASE d = c
    <3>1. match'.zone[d] = "graveyard" /\ match.zone[d] = "hand"
      BY <1>3, <2>1 DEF MovesTo
    <3>2. HandEvent(a, d) /\ ~Brings(a)
      BY <1>4, <2>1, OwnerPlays DEF HandEvent, Brings
    <3>. QED
      BY <1>5, <3>1, <3>2, HoldsOfOne
  <2>2. CASE d # c
    <3>1. match'.zone[d] = match.zone[d]
      BY <1>3, <2>2 DEF MovesTo, OwnCards
    <3>2. ~HandEvent(a, d)
      BY <1>4, <2>2 DEF HandEvent
    <3>. QED
      BY <1>5, <3>1, <3>2, HoldsOfOne
  <2>. QED
    BY <2>1, <2>2
<1>. QED
  BY <1>2, <1>3, <1>5, <1>6, <1>7, <1>8, <1>9, MovePlays

(* PlayLand tells what it does. *)
LEMMA LandPlays ==
  ASSUME GameFits, HistoryTyped, LogFits, PlayLand
  PROVE  Plays(2)
<1>. DEFINE Ev(c) == <<Played(c, 0), Entered(c)>>
<1>1. PICK c \in Cards : match.zone[c] = "hand" /\ Does(Moved(c, "battlefield"), Ev(c))
  BY DEF PlayLand
<1>. DEFINE a == Played(c, 0)
            b == Entered(c)
<1>2. /\ ~match.over /\ match' = Moved(c, "battlefield") /\ log' = log \o <<a, b>>
      /\ history' = history /\ UNCHANGED <<action, state, rejoin, local>>
  BY <1>1 DEF Does, PlayLand
<1>3. MovesTo(match', c, "hand", "battlefield")
  BY <1>1, <1>2, MovedTo DEF Zones
<1>4. /\ a.kind = "card_played" /\ a.to = Players /\ a.card = c /\ a.player = Owner[c]
      /\ a.entry = 0 /\ b.kind = "permanent_entered" /\ b.to = Players /\ b.card = c
      /\ b.player = Owner[c]
  BY DEF Played, Entered
<1>. HIDE DEF a, b, Ev
<1>5. Longer(2) /\ log'[Len(log) + 1] = a /\ log'[Len(log) + 2] = b
  BY <1>2, TwoTold DEF LogFits
<1>6. \A i \in 1 .. 2 : /\ Fits(log'[Len(log) + i], match'.entries)
                        /\ log'[Len(log) + i].kind \notin
                             {"action_prompt", "game_over", "snapshot"}
  <2>1. Fits(a, match'.entries) /\ Fits(b, match'.entries)
    BY <1>3, <1>4, OwnerPlays DEF Fits, OfCard, MovesTo, Games
  <2>2. 1 .. 2 = {1, 2}
    OBVIOUS
  <2>. QED
    BY <1>4, <1>5, <2>1, <2>2
<1>7. ASSUME NEW m \in Marks
      PROVE  TellsOf(m, 2)
  <2>1. CASE m.of \in {"battlefield", "hand"} /\ m.card = c
    <3>1. /\ RealIn(match', m) <=> "battlefield" = m.of
          /\ RealIn(match, m) <=> "hand" = m.of
      BY <1>3, <2>1, RealMoved
    <3>2. Right(a, m, match') /\ Right(b, m, match')
      BY <1>4, <2>1, <3>1 DEF Right, Touches, Says
    <3>3. (RealIn(match', m) <=> RealIn(match, m)) \/ Touches(a, m) \/ Touches(b, m)
      BY <1>4, <2>1, <3>1 DEF Touches
    <3>. QED
      BY <1>4, <1>5, <3>2, <3>3, OwnerPlays, TellsOfTwo
  <2>2. CASE ~(m.of \in {"battlefield", "hand"} /\ m.card = c)
    <3>1. RealIn(match', m) <=> RealIn(match, m)
      BY <1>3, <2>2, MarkFields, RealMoved
    <3>2. Right(a, m, match') /\ Right(b, m, match')
      BY <1>4, <2>2, MarkFields DEF Right, Touches
    <3>. QED
      BY <1>5, <3>1, <3>2, TellsOfTwo
  <2>. QED
    BY <2>1, <2>2
<1>8. ASSUME NEW p \in Players
      PROVE  CountsOf(p, 2)
  <2>1. Library(match', p) = Library(match, p)
    BY <1>3, LibraryMoved
  <2>2. ~LibraryEvent(a, p) /\ ~LibraryEvent(b, p)
    BY <1>4 DEF LibraryEvent
  <2>. QED
    BY <1>5, <2>1, <2>2, CountsOfTwo
<1>9. ASSUME NEW d \in OwnCards
      PROVE  HoldsOf(d, 2)
  <2>1. CASE d = c
    <3>1. match'.zone[d] = "battlefield" /\ match.zone[d] = "hand"
      BY <1>3, <2>1 DEF MovesTo
    <3>2. HandEvent(a, d) /\ ~Brings(a) /\ ~HandEvent(b, d)
      BY <1>4, <2>1, OwnerPlays DEF HandEvent, Brings
    <3>. QED
      BY <1>5, <3>1, <3>2, HoldsOfTwo
  <2>2. CASE d # c
    <3>1. match'.zone[d] = match.zone[d]
      BY <1>3, <2>2 DEF MovesTo, OwnCards
    <3>2. ~HandEvent(a, d) /\ ~HandEvent(b, d)
      BY <1>4, <2>2 DEF HandEvent
    <3>. QED
      BY <1>5, <3>1, <3>2, HoldsOfTwo
  <2>. QED
    BY <2>1, <2>2
<1>. QED
  BY <1>2, <1>3, <1>5, <1>6, <1>7, <1>8, <1>9, MovePlays

(* Token tells what it does. *)
LEMMA TokenPlays ==
  ASSUME GameFits, HistoryTyped, LogFits, Token
  PROVE  Plays(1)
<1>. DEFINE Ev(c) == <<Entered(c)>>
<1>1. PICK c \in Cards : match.zone[c] = "nowhere" /\ Does(Moved(c, "battlefield"), Ev(c))
  BY DEF Token
<1>. DEFINE a == Entered(c)
<1>2. /\ ~match.over /\ match' = Moved(c, "battlefield") /\ log' = log \o <<a>>
      /\ history' = history /\ UNCHANGED <<action, state, rejoin, local>>
  BY <1>1 DEF Does, Token
<1>3. MovesTo(match', c, "nowhere", "battlefield")
  BY <1>1, <1>2, MovedTo DEF Zones
<1>4. /\ a.kind = "permanent_entered" /\ a.to = Players /\ a.card = c /\ a.player = Owner[c]
  BY DEF Entered
<1>. HIDE DEF a, Ev
<1>5. Longer(1) /\ log'[Len(log) + 1] = a
  BY <1>2, OneTold DEF LogFits
<1>6. \A i \in 1 .. 1 : /\ Fits(log'[Len(log) + i], match'.entries)
                        /\ log'[Len(log) + i].kind \notin
                             {"action_prompt", "game_over", "snapshot"}
  <2>1. Fits(a, match'.entries)
    BY <1>3, <1>4, OwnerPlays DEF Fits, OfCard, MovesTo, Games
  <2>2. 1 .. 1 = {1}
    OBVIOUS
  <2>. QED
    BY <1>4, <1>5, <2>1, <2>2
<1>7. ASSUME NEW m \in Marks
      PROVE  TellsOf(m, 1)
  <2>1. CASE m.of \in {"battlefield", "hand"} /\ m.card = c
    <3>1. /\ RealIn(match', m) <=> "battlefield" = m.of
          /\ RealIn(match, m) <=> "nowhere" = m.of
      BY <1>3, <2>1, RealMoved
    <3>2. Right(a, m, match')
      BY <1>4, <2>1, <3>1 DEF Right, Touches, Says
    <3>3. (RealIn(match', m) <=> RealIn(match, m)) \/ Touches(a, m)
      BY <1>4, <2>1, <3>1 DEF Touches
    <3>. QED
      BY <1>4, <1>5, <3>2, <3>3, OwnerPlays, TellsOfOne
  <2>2. CASE ~(m.of \in {"battlefield", "hand"} /\ m.card = c)
    <3>1. RealIn(match', m) <=> RealIn(match, m)
      BY <1>3, <2>2, MarkFields, RealMoved
    <3>2. Right(a, m, match')
      BY <1>4, <2>2, MarkFields DEF Right, Touches
    <3>. QED
      BY <1>5, <3>1, <3>2, TellsOfOne
  <2>. QED
    BY <2>1, <2>2
<1>8. ASSUME NEW p \in Players
      PROVE  CountsOf(p, 1)
  <2>1. Library(match', p) = Library(match, p)
    BY <1>3, LibraryMoved
  <2>2. ~LibraryEvent(a, p)
    BY <1>4 DEF LibraryEvent
  <2>. QED
    BY <1>5, <2>1, <2>2, CountsOfOne
<1>9. ASSUME NEW d \in OwnCards
      PROVE  HoldsOf(d, 1)
  <2>1. match'.zone[d] = "hand" <=> match.zone[d] = "hand"
    BY <1>3 DEF MovesTo, OwnCards
  <2>2. ~HandEvent(a, d)
    BY <1>4 DEF HandEvent
  <2>. QED
    BY <1>5, <2>1, <2>2, HoldsOfOne
<1>. QED
  BY <1>2, <1>3, <1>5, <1>6, <1>7, <1>8, <1>9, MovePlays

(* Leave, when the permanent is destroyed. *)
LEMMA DestroyPlays ==
  ASSUME GameFits, HistoryTyped, LogFits, NEW c \in Cards, match.zone[c] = "battlefield",
         history' = history,
         Does(Moved(c, "graveyard"),
              <<[kind |-> "permanent_destroyed", to |-> Players, card |-> c]>>)
  PROVE  Plays(1)
<1>. DEFINE a == [kind |-> "permanent_destroyed", to |-> Players, card |-> c]
<1>2. /\ ~match.over /\ match' = Moved(c, "graveyard") /\ log' = log \o <<a>>
      /\ history' = history /\ UNCHANGED <<action, state, rejoin, local>>
  BY DEF Does
<1>3. MovesTo(match', c, "battlefield", "graveyard")
  BY <1>2, MovedTo DEF Zones
<1>4. /\ a.kind = "permanent_destroyed" /\ a.to = Players /\ a.card = c
  BY DEF a
<1>. HIDE DEF a
<1>5. Longer(1) /\ log'[Len(log) + 1] = a
  BY <1>2, OneTold DEF LogFits
<1>6. \A i \in 1 .. 1 : /\ Fits(log'[Len(log) + i], match'.entries)
                        /\ log'[Len(log) + i].kind \notin
                             {"action_prompt", "game_over", "snapshot"}
  <2>1. Fits(a, match'.entries)
    BY <1>3, <1>4, OwnerPlays DEF Fits, OfCard, MovesTo, Games
  <2>2. 1 .. 1 = {1}
    OBVIOUS
  <2>. QED
    BY <1>4, <1>5, <2>1, <2>2
<1>7. ASSUME NEW m \in Marks
      PROVE  TellsOf(m, 1)
  <2>1. CASE m.of \in {"battlefield", "hand"} /\ m.card = c
    <3>1. /\ RealIn(match', m) <=> "graveyard" = m.of
          /\ RealIn(match, m) <=> "battlefield" = m.of
      BY <1>3, <2>1, RealMoved
    <3>2. Right(a, m, match')
      BY <1>4, <2>1, <3>1 DEF Right, Touches, Says
    <3>3. (RealIn(match', m) <=> RealIn(match, m)) \/ Touches(a, m)
      BY <1>4, <2>1, <3>1 DEF Touches
    <3>. QED
      BY <1>4, <1>5, <3>2, <3>3, OwnerPlays, TellsOfOne
  <2>2. CASE ~(m.of \in {"battlefield", "hand"} /\ m.card = c)
    <3>1. RealIn(match', m) <=> RealIn(match, m)
      BY <1>3, <2>2, MarkFields, RealMoved
    <3>2. Right(a, m, match')
      BY <1>4, <2>2, MarkFields DEF Right, Touches
    <3>. QED
      BY <1>5, <3>1, <3>2, TellsOfOne
  <2>. QED
    BY <2>1, <2>2
<1>8. ASSUME NEW p \in Players
      PROVE  CountsOf(p, 1)
  <2>1. Library(match', p) = Library(match, p)
    BY <1>3, LibraryMoved
  <2>2. ~LibraryEvent(a, p)
    BY <1>4 DEF LibraryEvent
  <2>. QED
    BY <1>5, <2>1, <2>2, CountsOfOne
<1>9. ASSUME NEW d \in OwnCards
      PROVE  HoldsOf(d, 1)
  <2>1. match'.zone[d] = "hand" <=> match.zone[d] = "hand"
    BY <1>3 DEF MovesTo, OwnCards
  <2>2. ~HandEvent(a, d)
    BY <1>4 DEF HandEvent
  <2>. QED
    BY <1>5, <2>1, <2>2, HoldsOfOne
<1>. QED
  BY <1>2, <1>3, <1>5, <1>6, <1>7, <1>8, <1>9, MovePlays

(* Leave, when it is sacrificed. *)
LEMMA SacrificePlays ==
  ASSUME GameFits, HistoryTyped, LogFits, NEW c \in Cards, match.zone[c] = "battlefield",
         history' = history,
         Does(Moved(c, "graveyard"),
              <<Transfer(c, "battlefield", "graveyard", Players),
                [kind |-> "permanent_destroyed", to |-> Players, card |-> c]>>)
  PROVE  Plays(2)
<1>. DEFINE a == Transfer(c, "battlefield", "graveyard", Players)
            b == [kind |-> "permanent_destroyed", to |-> Players, card |-> c]
<1>2. /\ ~match.over /\ match' = Moved(c, "graveyard") /\ log' = log \o <<a, b>>
      /\ history' = history /\ UNCHANGED <<action, state, rejoin, local>>
  BY DEF Does
<1>3. MovesTo(match', c, "battlefield", "graveyard")
  BY <1>2, MovedTo DEF Zones
<1>4. /\ a.kind = "zone_transfer" /\ a.to = Players /\ a.card = c /\ a.player = Owner[c]
      /\ a.from = "battlefield" /\ a.dest = "graveyard" /\ b.kind = "permanent_destroyed"
      /\ b.to = Players
      /\ b.card = c
  BY DEF Transfer
<1>. HIDE DEF a, b
<1>5. Longer(2) /\ log'[Len(log) + 1] = a /\ log'[Len(log) + 2] = b
  BY <1>2, TwoTold DEF LogFits
<1>6. \A i \in 1 .. 2 : /\ Fits(log'[Len(log) + i], match'.entries)
                        /\ log'[Len(log) + i].kind \notin
                             {"action_prompt", "game_over", "snapshot"}
  <2>1. Fits(a, match'.entries) /\ Fits(b, match'.entries)
    BY <1>3, <1>4, OwnerPlays DEF Fits, OfCard, MovesTo, Games
  <2>2. 1 .. 2 = {1, 2}
    OBVIOUS
  <2>. QED
    BY <1>4, <1>5, <2>1, <2>2
<1>7. ASSUME NEW m \in Marks
      PROVE  TellsOf(m, 2)
  <2>1. CASE m.of \in {"battlefield", "hand"} /\ m.card = c
    <3>1. /\ RealIn(match', m) <=> "graveyard" = m.of
          /\ RealIn(match, m) <=> "battlefield" = m.of
      BY <1>3, <2>1, RealMoved
    <3>2. Right(a, m, match') /\ Right(b, m, match')
      BY <1>4, <2>1, <3>1 DEF Right, Touches, Says
    <3>3. (RealIn(match', m) <=> RealIn(match, m)) \/ Touches(a, m) \/ Touches(b, m)
      BY <1>4, <2>1, <3>1 DEF Touches
    <3>. QED
      BY <1>4, <1>5, <3>2, <3>3, OwnerPlays, TellsOfTwo
  <2>2. CASE ~(m.of \in {"battlefield", "hand"} /\ m.card = c)
    <3>1. RealIn(match', m) <=> RealIn(match, m)
      BY <1>3, <2>2, MarkFields, RealMoved
    <3>2. Right(a, m, match') /\ Right(b, m, match')
      BY <1>4, <2>2, MarkFields DEF Right, Touches
    <3>. QED
      BY <1>5, <3>1, <3>2, TellsOfTwo
  <2>. QED
    BY <2>1, <2>2
<1>8. ASSUME NEW p \in Players
      PROVE  CountsOf(p, 2)
  <2>1. Library(match', p) = Library(match, p)
    BY <1>3, LibraryMoved
  <2>2. ~LibraryEvent(a, p) /\ ~LibraryEvent(b, p)
    BY <1>4 DEF LibraryEvent
  <2>. QED
    BY <1>5, <2>1, <2>2, CountsOfTwo
<1>9. ASSUME NEW d \in OwnCards
      PROVE  HoldsOf(d, 2)
  <2>1. match'.zone[d] = "hand" <=> match.zone[d] = "hand"
    BY <1>3 DEF MovesTo, OwnCards
  <2>2. ~HandEvent(a, d) /\ ~HandEvent(b, d)
    BY <1>4 DEF HandEvent
  <2>. QED
    BY <1>5, <2>1, <2>2, HoldsOfTwo
<1>. QED
  BY <1>2, <1>3, <1>5, <1>6, <1>7, <1>8, <1>9, MovePlays

(* Leave, when it returns to the hand. *)
LEMMA BouncePlays ==
  ASSUME GameFits, HistoryTyped, LogFits, NEW c \in Cards, match.zone[c] = "battlefield",
         history' = history, Does(Moved(c, "hand"), <<Transfer(c, "battlefield", "hand", Players)>>)
  PROVE  Plays(1)
<1>. DEFINE a == Transfer(c, "battlefield", "hand", Players)
<1>2. /\ ~match.over /\ match' = Moved(c, "hand") /\ log' = log \o <<a>>
      /\ history' = history /\ UNCHANGED <<action, state, rejoin, local>>
  BY DEF Does
<1>3. MovesTo(match', c, "battlefield", "hand")
  BY <1>2, MovedTo DEF Zones
<1>4. /\ a.kind = "zone_transfer" /\ a.to = Players /\ a.card = c /\ a.player = Owner[c]
      /\ a.from = "battlefield" /\ a.dest = "hand"
  BY DEF Transfer
<1>. HIDE DEF a
<1>5. Longer(1) /\ log'[Len(log) + 1] = a
  BY <1>2, OneTold DEF LogFits
<1>6. \A i \in 1 .. 1 : /\ Fits(log'[Len(log) + i], match'.entries)
                        /\ log'[Len(log) + i].kind \notin
                             {"action_prompt", "game_over", "snapshot"}
  <2>1. Fits(a, match'.entries)
    BY <1>3, <1>4, OwnerPlays DEF Fits, OfCard, MovesTo, Games
  <2>2. 1 .. 1 = {1}
    OBVIOUS
  <2>. QED
    BY <1>4, <1>5, <2>1, <2>2
<1>7. ASSUME NEW m \in Marks
      PROVE  TellsOf(m, 1)
  <2>1. CASE m.of \in {"battlefield", "hand"} /\ m.card = c
    <3>1. /\ RealIn(match', m) <=> "hand" = m.of
          /\ RealIn(match, m) <=> "battlefield" = m.of
      BY <1>3, <2>1, RealMoved
    <3>2. Right(a, m, match')
      BY <1>4, <2>1, <3>1 DEF Right, Touches, Says
    <3>3. (RealIn(match', m) <=> RealIn(match, m)) \/ Touches(a, m)
      BY <1>4, <2>1, <3>1 DEF Touches
    <3>. QED
      BY <1>4, <1>5, <3>2, <3>3, OwnerPlays, TellsOfOne
  <2>2. CASE ~(m.of \in {"battlefield", "hand"} /\ m.card = c)
    <3>1. RealIn(match', m) <=> RealIn(match, m)
      BY <1>3, <2>2, MarkFields, RealMoved
    <3>2. Right(a, m, match')
      BY <1>4, <2>2, MarkFields DEF Right, Touches
    <3>. QED
      BY <1>5, <3>1, <3>2, TellsOfOne
  <2>. QED
    BY <2>1, <2>2
<1>8. ASSUME NEW p \in Players
      PROVE  CountsOf(p, 1)
  <2>1. Library(match', p) = Library(match, p)
    BY <1>3, LibraryMoved
  <2>2. ~LibraryEvent(a, p)
    BY <1>4 DEF LibraryEvent
  <2>. QED
    BY <1>5, <2>1, <2>2, CountsOfOne
<1>9. ASSUME NEW d \in OwnCards
      PROVE  HoldsOf(d, 1)
  <2>1. CASE d = c
    <3>1. match'.zone[d] = "hand" /\ match.zone[d] = "battlefield"
      BY <1>3, <2>1 DEF MovesTo
    <3>2. HandEvent(a, d) /\ Brings(a)
      BY <1>4, <2>1, OwnerPlays DEF HandEvent, Brings
    <3>. QED
      BY <1>5, <3>1, <3>2, HoldsOfOne
  <2>2. CASE d # c
    <3>1. match'.zone[d] = match.zone[d]
      BY <1>3, <2>2 DEF MovesTo, OwnCards
    <3>2. ~HandEvent(a, d)
      BY <1>4, <2>2 DEF HandEvent
    <3>. QED
      BY <1>5, <3>1, <3>2, HoldsOfOne
  <2>. QED
    BY <2>1, <2>2
<1>. QED
  BY <1>2, <1>3, <1>5, <1>6, <1>7, <1>8, <1>9, MovePlays

(* Leave tells what it does. *)
LEMMA LeavePlays ==
  ASSUME GameFits, HistoryTyped, LogFits, Leave
  PROVE  Plays(1) \/ Plays(2)
BY DestroyPlays, SacrificePlays, BouncePlays DEF Leave

(* Cast tells what it does. *)
LEMMA CastPlays ==
  ASSUME GameFits, HistoryTyped, LogFits, Cast
  PROVE  Plays(1)
<1>. DEFINE Ev(c) == <<Played(c, match.entries + 1)>>
<1>1. PICK c \in Cards : /\ match.zone[c] = "hand"
                         /\ Does(Pushed(Moved(c, "stack"), {c}), Ev(c))
  BY DEF Cast
<1>2. match \in Games /\ match.entries \in Nat /\ match.stack \in Seq(Entries)
      /\ match.zone \in [Cards -> Zones]
  BY DEF GameFits, Games
<1>3. PICK id \in Nat \ {0} : id = match.entries + 1
  BY <1>2
<1>. DEFINE a == Played(c, id)
            e == [id |-> id, card |-> {c}]
<1>4. /\ ~match.over /\ match' = Pushed(Moved(c, "stack"), {c}) /\ log' = log \o <<a>>
      /\ history' = history /\ UNCHANGED <<action, state, rejoin, local>>
  BY <1>1, <1>3 DEF Does, Cast
<1>5. /\ match'.zone = [match.zone EXCEPT ![c] = "stack"]
      /\ match'.stack = Append(match.stack, e) /\ match'.entries = id
      /\ match'.life = match.life /\ match'.awaiting = match.awaiting
      /\ match'.over = match.over
      /\ match' = [Moved(c, "stack") EXCEPT !.entries = id, !.stack = Append(match.stack, e)]
  BY <1>2, <1>3, <1>4 DEF Pushed, Moved, Games
<1>6. /\ a.kind = "card_played" /\ a.to = Players /\ a.card = c /\ a.player = Owner[c]
      /\ a.entry = id
  BY DEF Played
<1>7. e \in Entries /\ e.id = id /\ e.card = {c}
  BY DEF Entries
<1>. HIDE DEF a, e, Ev
<1>8. /\ match'.zone[c] = "stack" /\ \A d \in Cards : d # c => match'.zone[d] = match.zone[d]
  BY <1>2, <1>5
<1>9. /\ match'.stack \in Seq(Entries) /\ IdsOn(match'.stack) = IdsOn(match.stack) \cup {id}
      /\ TableFits(match'.stack, match'.zone, match'.entries, history.ghosts)
  <2>0. /\ TableFits(match.stack, match.zone, match.entries, history.ghosts)
        /\ e \in Entries /\ e.id = match.entries + 1
    BY <1>3, <1>7 DEF GameFits
  <2>1. \A d \in Cards : match.zone[d] = "stack" => match'.zone[d] = "stack"
    BY <1>8
  <2>2. \A d \in e.card : match'.zone[d] = "stack" /\ match.zone[d] # "stack"
    BY <1>1, <1>7, <1>8
  <2>3. Joins(e, match.entries, match.zone, match'.zone)
    BY <1>7, <2>0, <2>1, <2>2 DEF Joins
  <2>4. PushedOn(Append(match.stack, e), match.stack, match'.zone, match.entries, history.ghosts)
    BY <1>2, <2>0, <2>3, TablePushed
  <2>. QED
    BY <1>3, <1>5, <2>4 DEF PushedOn
<1>10. match' \in Games
  <2>1. Moved(c, "stack") \in Games
    BY <1>2 DEF Moved, Games, Zones
  <2>2. Append(match.stack, e) \in Seq(Entries)
    BY <1>5, <1>9
  <2>. DEFINE g == Moved(c, "stack")
              s == Append(match.stack, e)
  <2>. HIDE DEF g, s
  <2>3. [g EXCEPT !.entries = id, !.stack = s] \in Games
    BY <1>3, <2>1, <2>2 DEF Games, g, s
  <2>. QED
    BY <1>5, <2>3 DEF g, s
<1>11. Longer(1) /\ log'[Len(log) + 1] = a
  BY <1>4, OneTold DEF LogFits
<1>12. Fits(a, match'.entries)
  BY <1>3, <1>5, <1>6, OwnerPlays DEF Fits, OfCard
<1>13. id \notin IdsOn(match.stack)
  BY <1>2, <1>3 DEF GameFits, TableFits, IdsOn
<1>14. ASSUME NEW m \in Marks
       PROVE  TellsOf(m, 1)
  <2>1. CASE (m.of = "stack" /\ m.id = id) \/ (m.of = "hand" /\ m.card = c)
    <3>1. Touches(a, m) /\ Me \in a.to
      BY <1>6, <2>1, OwnerPlays DEF Touches
    <3>2. Says(a, m) <=> RealIn(match', m)
      BY <1>6, <1>8, <1>9, <2>1 DEF Says, RealIn
    <3>. QED
      BY <1>6, <1>11, <3>1, <3>2, TellsOfOne DEF Right
  <2>2. CASE ~((m.of = "stack" /\ m.id = id) \/ (m.of = "hand" /\ m.card = c))
    <3>1. RealIn(match', m) <=> RealIn(match, m)
      BY <1>1, <1>5, <1>8, <1>9, <2>2, MarkFields DEF RealIn
    <3>2. ~Touches(a, m)
      BY <1>6, <2>2 DEF Touches
    <3>. QED
      BY <1>11, <3>1, <3>2, TellsOfOne DEF Right
  <2>. QED
    BY <2>1, <2>2
<1>15. ASSUME NEW p \in Players
       PROVE  CountsOf(p, 1)
  <2>1. Library(match', p) = Library(match, p)
    BY <1>1, <1>8 DEF Library
  <2>2. ~LibraryEvent(a, p)
    BY <1>6 DEF LibraryEvent
  <2>. QED
    BY <1>11, <2>1, <2>2, CountsOfOne
<1>16. ASSUME NEW d \in OwnCards
       PROVE  HoldsOf(d, 1)
  <2>1. CASE d = c
    <3>1. HandEvent(a, d) /\ ~Brings(a)
      BY <1>6, <2>1, OwnerPlays DEF HandEvent, Brings
    <3>. QED
      BY <1>1, <1>8, <1>11, <2>1, <3>1, HoldsOfOne
  <2>2. CASE d # c
    <3>1. ~HandEvent(a, d)
      BY <1>6, <2>2 DEF HandEvent
    <3>. QED
      BY <1>8, <1>11, <2>2, <3>1, HoldsOfOne DEF OwnCards
  <2>. QED
    BY <2>1, <2>2
<1>17. SameHistory /\ HistoryTyped' /\ history'.ghosts = history.ghosts
  BY <1>4 DEF SameHistory, HistoryTyped
<1>18. 1 \in 0 .. 2 /\ match'.entries >= match.entries
  BY <1>2, <1>3, <1>5
<1>19. \A i \in 1 .. 1 : /\ Fits(log'[Len(log) + i], match'.entries)
                         /\ log'[Len(log) + i].kind \notin
                              {"action_prompt", "game_over", "snapshot"}
  BY <1>6, <1>11, <1>12
<1>20. \A m \in Told' : TellsOf(m, 1)
  BY <1>14 DEF Told
<1>. QED
  BY <1>4, <1>5, <1>9, <1>10, <1>11, <1>15, <1>16, <1>17, <1>18, <1>19, <1>20 DEF Plays

(* Activate tells what it does. *)
LEMMA ActivatePlays ==
  ASSUME GameFits, HistoryTyped, LogFits, Activate
  PROVE  Plays(1)
<1>2. match \in Games /\ match.entries \in Nat /\ match.stack \in Seq(Entries)
  BY DEF GameFits, Games
<1>3. PICK id \in Nat \ {0} : id = match.entries + 1
  BY <1>2
<1>. DEFINE a == [kind |-> "ability_activated", to |-> Players, entry |-> id]
            e == [id |-> id, card |-> {}]
<1>4. /\ ~match.over /\ match' = Pushed(match, {}) /\ log' = log \o <<a>>
      /\ history' = history /\ UNCHANGED <<action, state, rejoin, local>>
  BY <1>3 DEF Does, Activate
<1>5. /\ match'.zone = match.zone
      /\ match'.stack = Append(match.stack, e) /\ match'.entries = id
      /\ match'.life = match.life /\ match'.awaiting = match.awaiting
      /\ match'.over = match.over
      /\ match' = [match EXCEPT !.entries = id, !.stack = Append(match.stack, e)]
  BY <1>2, <1>3, <1>4 DEF Pushed, Games
<1>6. a.kind = "ability_activated" /\ a.to = Players /\ a.entry = id
  OBVIOUS
<1>7. e \in Entries /\ e.id = id /\ e.card = {}
  BY DEF Entries
<1>. HIDE DEF a, e
<1>9. /\ match'.stack \in Seq(Entries) /\ IdsOn(match'.stack) = IdsOn(match.stack) \cup {id}
      /\ TableFits(match'.stack, match'.zone, match'.entries, history.ghosts)
  <2>0. /\ TableFits(match.stack, match.zone, match.entries, history.ghosts)
        /\ e \in Entries /\ e.id = match.entries + 1
    BY <1>3, <1>7 DEF GameFits
  <2>1. \A d \in Cards : match.zone[d] = "stack" => match'.zone[d] = "stack"
    BY <1>5
  <2>2. /\ \A d \in e.card : match'.zone[d] = "stack" /\ match.zone[d] # "stack"
        /\ \A c, d \in e.card : c = d
    BY <1>7
  <2>3. Joins(e, match.entries, match.zone, match'.zone)
    BY <1>7, <2>0, <2>1, <2>2 DEF Joins
  <2>4. PushedOn(Append(match.stack, e), match.stack, match'.zone, match.entries, history.ghosts)
    BY <1>2, <2>0, <2>3, TablePushed
  <2>. QED
    BY <1>3, <1>5, <2>4 DEF PushedOn
<1>10. match' \in Games
  <2>. DEFINE s == Append(match.stack, e)
  <2>1. s \in Seq(Entries)
    BY <1>5, <1>9
  <2>. HIDE DEF s
  <2>2. [match EXCEPT !.entries = id, !.stack = s] \in Games
    BY <1>2, <1>3, <2>1 DEF Games
  <2>. QED
    BY <1>5, <2>2 DEF s
<1>11. Longer(1) /\ log'[Len(log) + 1] = a
  BY <1>4, OneTold DEF LogFits
<1>12. Fits(a, match'.entries)
  BY <1>3, <1>5, <1>6 DEF Fits, OfCard
<1>13. id \notin IdsOn(match.stack)
  BY <1>2, <1>3 DEF GameFits, TableFits, IdsOn
<1>14. ASSUME NEW m \in Marks
       PROVE  TellsOf(m, 1)
  <2>1. CASE m.of = "stack" /\ m.id = id
    <3>1. Touches(a, m) /\ Me \in a.to
      BY <1>6, <2>1 DEF Touches, Players
    <3>2. Says(a, m) <=> RealIn(match', m)
      BY <1>6, <1>9, <2>1 DEF Says, RealIn
    <3>. QED
      BY <1>6, <1>11, <3>1, <3>2, TellsOfOne DEF Right
  <2>2. CASE ~(m.of = "stack" /\ m.id = id)
    <3>1. RealIn(match', m) <=> RealIn(match, m)
      BY <1>5, <1>9, <2>2, MarkFields DEF RealIn
    <3>2. ~Touches(a, m)
      BY <1>6, <2>2 DEF Touches
    <3>. QED
      BY <1>11, <3>1, <3>2, TellsOfOne DEF Right
  <2>. QED
    BY <2>1, <2>2
<1>15. ASSUME NEW p \in Players
       PROVE  CountsOf(p, 1)
  <2>1. Library(match', p) = Library(match, p)
    BY <1>5 DEF Library
  <2>2. ~LibraryEvent(a, p)
    BY <1>6 DEF LibraryEvent
  <2>. QED
    BY <1>11, <2>1, <2>2, CountsOfOne
<1>16. ASSUME NEW d \in OwnCards
       PROVE  HoldsOf(d, 1)
  <2>1. ~HandEvent(a, d)
    BY <1>6 DEF HandEvent
  <2>. QED
    BY <1>5, <1>11, <2>1, HoldsOfOne
<1>17. SameHistory /\ HistoryTyped' /\ history'.ghosts = history.ghosts
  BY <1>4 DEF SameHistory, HistoryTyped
<1>18. 1 \in 0 .. 2 /\ match'.entries >= match.entries
  BY <1>2, <1>3, <1>5
<1>19. \A i \in 1 .. 1 : /\ Fits(log'[Len(log) + i], match'.entries)
                         /\ log'[Len(log) + i].kind \notin
                              {"action_prompt", "game_over", "snapshot"}
  BY <1>6, <1>11, <1>12
<1>20. \A m \in Told' : TellsOf(m, 1)
  BY <1>14 DEF Told
<1>. QED
  BY <1>4, <1>5, <1>9, <1>10, <1>11, <1>15, <1>16, <1>17, <1>18, <1>19, <1>20 DEF Plays

(* Damage tells what it does. *)
LEMMA DamagePlays ==
  ASSUME GameFits, HistoryTyped, LogFits, Damage
  PROVE  Plays(2)
<1>. DEFINE Ev(p) == <<[kind |-> "damage_dealt", to |-> Players, player |-> p, amount |-> 1],
                       [kind |-> "life_changed", to |-> Players, player |-> p,
                        total |-> match.life[p] - 1]>>
<1>1. PICK p \in Players : Does([match EXCEPT !.life[p] = @ - 1], Ev(p))
  BY DEF Damage
<1>2. match \in Games /\ match.life \in [Players -> Int] /\ match.entries \in Nat
  BY DEF GameFits, Games
<1>3. PICK n \in Int : n = match.life[p] - 1
  BY <1>2
<1>. DEFINE a == [kind |-> "damage_dealt", to |-> Players, player |-> p, amount |-> 1]
            b == [kind |-> "life_changed", to |-> Players, player |-> p, total |-> n]
<1>4. /\ ~match.over /\ match' = [match EXCEPT !.life[p] = n] /\ log' = log \o <<a, b>>
      /\ history' = history /\ UNCHANGED <<action, state, rejoin, local>>
  BY <1>1, <1>2, <1>3 DEF Does, Damage, Games
<1>5. /\ match' \in Games /\ match'.zone = match.zone /\ match'.stack = match.stack
      /\ match'.entries = match.entries /\ match'.awaiting = match.awaiting
      /\ match'.over = match.over /\ match'.life = [match.life EXCEPT ![p] = n]
  BY <1>2, <1>4 DEF Games
<1>6. /\ a.kind = "damage_dealt" /\ a.to = Players /\ a.player = p /\ a.amount = 1
      /\ b.kind = "life_changed" /\ b.to = Players /\ b.player = p /\ b.total = n
  OBVIOUS
<1>. HIDE DEF a, b, Ev
<1>11. Longer(2) /\ log'[Len(log) + 1] = a /\ log'[Len(log) + 2] = b
  BY <1>4, TwoTold DEF LogFits
<1>12. Fits(a, match'.entries) /\ Fits(b, match'.entries)
  BY <1>6 DEF Fits, OfCard
<1>14. ASSUME NEW m \in Marks
       PROVE  TellsOf(m, 2)
  <2>1. CASE m.of = "life" /\ m.who = p
    <3>1. Touches(b, m) /\ Me \in b.to
      BY <1>6, <2>1 DEF Touches, Players
    <3>2. Says(b, m) <=> RealIn(match', m)
      BY <1>2, <1>5, <1>6, <2>1 DEF Says, RealIn
    <3>. QED
      BY <1>6, <1>11, <3>1, <3>2, TellsOfTwo DEF Right
  <2>2. CASE ~(m.of = "life" /\ m.who = p)
    <3>1. RealIn(match', m) <=> RealIn(match, m)
      BY <1>2, <1>5, <2>2, MarkFields DEF RealIn
    <3>2. ~Touches(a, m) /\ ~Touches(b, m)
      BY <1>6, <2>2 DEF Touches
    <3>. QED
      BY <1>11, <3>1, <3>2, TellsOfTwo DEF Right
  <2>. QED
    BY <2>1, <2>2
<1>15. ASSUME NEW q \in Players
       PROVE  CountsOf(q, 2)
  <2>1. Library(match', q) = Library(match, q)
    BY <1>5 DEF Library
  <2>2. ~LibraryEvent(a, q) /\ ~LibraryEvent(b, q)
    BY <1>6 DEF LibraryEvent
  <2>. QED
    BY <1>11, <2>1, <2>2, CountsOfTwo
<1>16. ASSUME NEW d \in OwnCards
       PROVE  HoldsOf(d, 2)
  <2>1. ~HandEvent(a, d) /\ ~HandEvent(b, d)
    BY <1>6 DEF HandEvent
  <2>. QED
    BY <1>5, <1>11, <2>1, HoldsOfTwo
<1>17. SameHistory /\ HistoryTyped' /\ history'.ghosts = history.ghosts
  BY <1>4 DEF SameHistory, HistoryTyped
<1>18. 2 \in 0 .. 2 /\ match'.entries >= match.entries
  BY <1>2, <1>5
<1>19. \A i \in 1 .. 2 : /\ Fits(log'[Len(log) + i], match'.entries)
                         /\ log'[Len(log) + i].kind \notin
                              {"action_prompt", "game_over", "snapshot"}
  <2>1. 1 .. 2 = {1, 2}
    OBVIOUS
  <2>. QED
    BY <1>6, <1>11, <1>12, <2>1
<1>20. \A m \in Told' : TellsOf(m, 2)
  BY <1>14 DEF Told
<1>21. TableFits(match'.stack, match'.zone, match'.entries, history'.ghosts)
  BY <1>5, <1>17 DEF GameFits
<1>. QED
  BY <1>4, <1>5, <1>11, <1>15, <1>16, <1>17, <1>18, <1>19, <1>20, <1>21 DEF Plays

\* The k-th entry goes from the stack, and its card to y.
PopsTo(g, k, y) ==
  /\ g \in Games /\ k \in 1 .. Len(match.stack) /\ y \in {"battlefield", "graveyard"}
  /\ g.stack = RemoveAt(match.stack, k)
  /\ \A c \in Cards : g.zone[c] = IF c \in match.stack[k].card THEN y ELSE match.zone[c]
  /\ g.life = match.life /\ g.entries = match.entries
  /\ g.awaiting = match.awaiting /\ g.over = match.over

(* The cards of an entry are on the stack, and of no other entry. *)
LEMMA StackCards ==
  ASSUME GameFits, NEW k \in 1 .. Len(match.stack)
  PROVE  /\ match.stack[k].id \in 1 .. match.entries /\ match.stack[k].card \subseteq Cards
         /\ \A c \in match.stack[k].card : match.zone[c] = "stack"
         /\ \A c \in match.stack[k].card : match.stack[k].card = {c}
<1>1. match.stack \in Seq(Entries)
  BY DEF GameFits, Games
<1>2. match.stack[k].card \subseteq Cards
  BY <1>1, CardsOf
<1>. QED
  BY <1>2 DEF GameFits, TableFits

(* What is real after it. *)
LEMMA RealPopped ==
  ASSUME GameFits, NEW g, NEW k, NEW y, PopsTo(g, k, y)
  PROVE  /\ \A m \in Marks :
              /\ m.of \in {"life", "hand"} => (RealIn(g, m) <=> RealIn(match, m))
              /\ m.of = "stack" /\ m.id # match.stack[k].id => (RealIn(g, m) <=> RealIn(match, m))
              /\ m.of = "stack" /\ m.id = match.stack[k].id => ~RealIn(g, m)
              /\ m.of = "battlefield" /\ m.card \notin match.stack[k].card =>
                   (RealIn(g, m) <=> RealIn(match, m))
              /\ m.of = "battlefield" /\ m.card \in match.stack[k].card =>
                   (RealIn(g, m) <=> y = "battlefield") /\ ~RealIn(match, m)
         /\ \A p \in Players : Library(g, p) = Library(match, p)
         /\ \A c \in Cards : g.zone[c] = "hand" <=> match.zone[c] = "hand"
         /\ TableFits(g.stack, g.zone, g.entries, history.ghosts)
         /\ TableFits(g.stack, g.zone, g.entries, history.ghosts \cup {match.stack[k].id})
<1>1. /\ k \in 1 .. Len(match.stack)
      /\ \A c \in Cards : g.zone[c] = IF c \in match.stack[k].card THEN y ELSE match.zone[c]
      /\ y \in {"battlefield", "graveyard"}
  BY DEF PopsTo
<1>2. /\ \A c \in match.stack[k].card : match.zone[c] = "stack"
      /\ match.stack[k].card \subseteq Cards
  BY <1>1, StackCards
<1>3. Popped(g.stack, match.stack, g.zone, match.entries, history.ghosts, k)
  <2>1. \A c \in Cards : c \in match.stack[k].card \/ g.zone[c] = match.zone[c]
    BY <1>1
  <2>2. match.stack \in Seq(Entries) /\ match.entries \in Nat
    BY DEF GameFits, Games
  <2>3. Popped(RemoveAt(match.stack, k), match.stack, g.zone, match.entries, history.ghosts, k)
    BY <1>1, <2>1, <2>2, TablePopped DEF GameFits
  <2>. QED
    BY <2>3 DEF PopsTo
<1>4. /\ IdsOn(g.stack) = IdsOn(match.stack) \ {match.stack[k].id}
      /\ TableFits(g.stack, g.zone, match.entries, history.ghosts)
      /\ TableFits(g.stack, g.zone, match.entries, history.ghosts \cup {match.stack[k].id})
  BY <1>3 DEF Popped
<1>5. \A c \in Cards : g.zone[c] = "hand" <=> match.zone[c] = "hand"
  BY <1>1, <1>2
<1>6. \A c \in Cards : g.zone[c] = "library" <=> match.zone[c] = "library"
  BY <1>1, <1>2
<1>7. \A p \in Players : Library(g, p) = Library(match, p)
  BY <1>6 DEF Library
<1>8. ASSUME NEW m \in Marks
      PROVE  /\ m.of \in {"life", "hand"} => (RealIn(g, m) <=> RealIn(match, m))
             /\ m.of = "stack" /\ m.id # match.stack[k].id => (RealIn(g, m) <=> RealIn(match, m))
             /\ m.of = "stack" /\ m.id = match.stack[k].id => ~RealIn(g, m)
  BY <1>4, <1>5, MarkFields DEF RealIn, PopsTo
<1>9. ASSUME NEW m \in Marks, m.of = "battlefield"
      PROVE  /\ m.card \notin match.stack[k].card => (RealIn(g, m) <=> RealIn(match, m))
             /\ m.card \in match.stack[k].card =>
                  (RealIn(g, m) <=> y = "battlefield") /\ ~RealIn(match, m)
  <2>1. m.card \in Cards
    BY <1>9, MarkFields
  <2>. QED
    BY <1>1, <1>2, <1>9, <2>1 DEF RealIn
<1>. QED
  BY <1>4, <1>5, <1>7, <1>8, <1>9 DEF PopsTo

(* What it is told by: that the entry is gone, after that its creature entered. *)
LEMMA PopPlays ==
  ASSUME GameFits, HistoryTyped, LogFits, NEW k, NEW y, PopsTo(match', k, y), ~match.over,
         history' = history, UNCHANGED <<action, state, rejoin, local>>,
         \/ y = "graveyard" /\ log' = log \o <<Resolved(match.stack[k].id)>>
         \/ /\ y = "battlefield"
            /\ \E c \in match.stack[k].card :
                 log' = log \o <<Entered(c), Resolved(match.stack[k].id)>>
  PROVE  Plays(1) \/ Plays(2)
<1>1. k \in 1 .. Len(match.stack) /\ match' \in Games
  BY DEF PopsTo
<1>2. PICK id \in 1 .. match.entries : id = match.stack[k].id
  BY <1>1, StackCards
<1>. DEFINE b == Resolved(id)
<1>3. b.kind = "spell_resolved" /\ b.to = Players /\ b.entry = id
  BY DEF Resolved
<1>. HIDE DEF b
<1>4. match'.entries = match.entries /\ match.entries \in Nat
  BY DEF PopsTo, GameFits, Games
<1>5. Fits(b, match'.entries)
  BY <1>2, <1>3, <1>4 DEF Fits, OfCard
<1>6. ASSUME NEW m \in Marks
      PROVE  /\ m.of = "stack" /\ m.id = id =>
                  Touches(b, m) /\ Me \in b.to /\ Right(b, m, match')
             /\ ~(m.of = "stack" /\ m.id = id) => ~Touches(b, m) /\ Right(b, m, match')
             /\ m.of # "battlefield" /\ ~(m.of = "stack" /\ m.id = id) =>
                  (RealIn(match', m) <=> RealIn(match, m))
  <2>1. /\ m.of \in {"life", "hand"} => (RealIn(match', m) <=> RealIn(match, m))
        /\ m.of = "stack" /\ m.id # id => (RealIn(match', m) <=> RealIn(match, m))
        /\ m.of = "stack" /\ m.id = id => ~RealIn(match', m)
    BY <1>2, RealPopped
  <2>2. m.of = "stack" /\ m.id = id => Touches(b, m) /\ ~Says(b, m) /\ Me \in b.to
    BY <1>3, OwnerPlays DEF Touches, Says, Players
  <2>3. ~(m.of = "stack" /\ m.id = id) => ~Touches(b, m)
    BY <1>3 DEF Touches
  <2>. QED
    BY <1>3, <2>1, <2>2, <2>3, MarkFields DEF Right
<1>7. \A p \in Players : ~LibraryEvent(b, p) /\ Library(match', p) = Library(match, p)
  BY <1>3, RealPopped DEF LibraryEvent
<1>8. \A d \in OwnCards : ~HandEvent(b, d) /\ (match'.zone[d] = "hand" <=> match.zone[d] = "hand")
  BY <1>3, RealPopped DEF HandEvent, OwnCards
<1>9. /\ SameHistory /\ HistoryTyped' /\ history'.ghosts = history.ghosts /\ Told' = Told
      /\ TableFits(match'.stack, match'.zone, match'.entries, history'.ghosts)
      /\ match'.awaiting = match.awaiting /\ match'.over = match.over
      /\ match'.entries >= match.entries
  <2>1. SameHistory /\ HistoryTyped' /\ history'.ghosts = history.ghosts
    BY DEF SameHistory, HistoryTyped
  <2>2. Told' = Told
    BY DEF Told
  <2>3. TableFits(match'.stack, match'.zone, match'.entries, history.ghosts)
    BY RealPopped
  <2>4. TableFits(match'.stack, match'.zone, match'.entries, history'.ghosts)
    BY <2>1, <2>3
  <2>5. match'.awaiting = match.awaiting /\ match'.over = match.over
    BY DEF PopsTo
  <2>6. match'.entries >= match.entries
    BY <1>4
  <2>. QED
    BY <2>1, <2>2, <2>4, <2>5, <2>6
<1>10. CASE y = "graveyard" /\ log' = log \o <<b>>
  <2>1. Longer(1) /\ log'[Len(log) + 1] = b
    BY <1>10, OneTold DEF LogFits
  <2>2. ASSUME NEW m \in Told'
        PROVE  TellsOf(m, 1)
    <3>1. m \in Marks
      BY <2>2 DEF Told
    <3>2. CASE m.of = "stack" /\ m.id = id
      BY <1>6, <2>1, <3>1, <3>2, TellsOfOne
    <3>3. CASE ~(m.of = "stack" /\ m.id = id)
      <4>1. RealIn(match', m) <=> RealIn(match, m)
        BY <1>6, <1>10, <3>1, <3>3, RealPopped
      <4>. QED
        BY <1>6, <2>1, <3>1, <3>3, <4>1, TellsOfOne
    <3>. QED
      BY <3>2, <3>3
  <2>3. ASSUME NEW p \in Players
        PROVE  CountsOf(p, 1)
    BY <1>7, <2>1, CountsOfOne
  <2>4. ASSUME NEW d \in OwnCards
        PROVE  HoldsOf(d, 1)
    BY <1>8, <2>1, HoldsOfOne
  <2>5. \A i \in 1 .. 1 : /\ Fits(log'[Len(log) + i], match'.entries)
                          /\ log'[Len(log) + i].kind \notin
                               {"action_prompt", "game_over", "snapshot"}
    BY <1>3, <1>5, <2>1
  <2>6. 1 \in 0 .. 2
    OBVIOUS
  <2>. QED
    BY <1>1, <1>9, <2>1, <2>2, <2>3, <2>4, <2>5, <2>6 DEF Plays
<1>11. ASSUME NEW c \in match.stack[k].card, y = "battlefield",
              log' = log \o <<Entered(c), b>>
       PROVE  Plays(2)
  <2>. DEFINE a == Entered(c)
  <2>1. a.kind = "permanent_entered" /\ a.to = Players /\ a.player = Owner[c] /\ a.card = c
    BY DEF Entered
  <2>. HIDE DEF a
  <2>2. Longer(2) /\ log'[Len(log) + 1] = a /\ log'[Len(log) + 2] = b
    BY <1>11, TwoTold DEF LogFits, a
  <2>3. c \in Cards /\ match.stack[k].card = {c}
    BY <1>1, <1>11, StackCards
  <2>4. ASSUME NEW m \in Told'
        PROVE  TellsOf(m, 2)
    <3>1. m \in Marks
      BY <2>4 DEF Told
    <3>2. CASE m.of = "stack" /\ m.id = id
      BY <1>6, <2>2, <3>1, <3>2, TellsOfTwo
    <3>3. CASE m.of = "battlefield" /\ m.card = c
      <4>1. RealIn(match', m)
        BY <1>11, <2>3, <3>1, <3>3, RealPopped
      <4>2. Touches(a, m) /\ Me \in a.to /\ Right(a, m, match')
        BY <2>1, <3>3, <4>1, OwnerPlays DEF Touches, Says, Right, Players
      <4>. QED
        BY <1>6, <2>2, <3>1, <3>3, <4>2, TellsOfTwo
    <3>4. CASE ~(m.of = "stack" /\ m.id = id) /\ ~(m.of = "battlefield" /\ m.card = c)
      <4>1. RealIn(match', m) <=> RealIn(match, m)
        BY <1>6, <2>3, <3>1, <3>4, RealPopped
      <4>2. Right(a, m, match')
        BY <2>1, <3>4 DEF Touches, Right
      <4>. QED
        BY <1>6, <2>2, <3>1, <3>4, <4>1, <4>2, TellsOfTwo
    <3>. QED
      BY <3>2, <3>3, <3>4
  <2>5. ASSUME NEW p \in Players
        PROVE  CountsOf(p, 2)
    <3>1. ~LibraryEvent(a, p)
      BY <2>1 DEF LibraryEvent
    <3>. QED
      BY <1>7, <2>2, <3>1, CountsOfTwo
  <2>6. ASSUME NEW d \in OwnCards
        PROVE  HoldsOf(d, 2)
    <3>1. ~HandEvent(a, d)
      BY <2>1 DEF HandEvent
    <3>. QED
      BY <1>8, <2>2, <3>1, HoldsOfTwo
  <2>7. \A i \in 1 .. 2 : /\ Fits(log'[Len(log) + i], match'.entries)
                          /\ log'[Len(log) + i].kind \notin
                               {"action_prompt", "game_over", "snapshot"}
    <3>1. Fits(a, match'.entries)
      BY <2>1, <2>3 DEF Fits, OfCard
    <3>2. 1 .. 2 = {1, 2}
      OBVIOUS
    <3>. QED
      BY <1>3, <1>5, <2>1, <2>2, <3>1, <3>2
  <2>8. 2 \in 0 .. 2
    OBVIOUS
  <2>. QED
    BY <1>1, <1>9, <2>2, <2>4, <2>5, <2>6, <2>7, <2>8 DEF Plays
<1>. QED
  BY <1>2, <1>10, <1>11 DEF b

(* An entry goes, and its card, if it has one, to y. *)
LEMMA PopFits ==
  ASSUME GameFits, NEW k \in 1 .. Len(match.stack), NEW y \in {"battlefield", "graveyard"},
         NEW g, NEW zone \in [Cards -> Zones],
         g = [match EXCEPT !.stack = RemoveAt(match.stack, k), !.zone = zone],
         \A c \in Cards : zone[c] = IF c \in match.stack[k].card THEN y ELSE match.zone[c]
  PROVE  PopsTo(g, k, y)
<1>1. match \in Games /\ match.stack \in Seq(Entries) /\ match.entries \in Nat
  BY DEF GameFits, Games
<1>2. Popped(RemoveAt(match.stack, k), match.stack, match.zone, match.entries, history.ghosts, k)
  BY <1>1, TablePopped DEF GameFits
<1>. DEFINE s == RemoveAt(match.stack, k)
<1>3. s \in Seq(Entries)
  BY <1>2 DEF Popped
<1>. HIDE DEF s
<1>4. [match EXCEPT !.stack = s, !.zone = zone] \in Games
  BY <1>1, <1>3 DEF Games
<1>5. g = [match EXCEPT !.stack = s, !.zone = zone]
  BY DEF s
<1>6. /\ g.stack = s /\ g.zone = zone /\ g.life = match.life /\ g.entries = match.entries
      /\ g.awaiting = match.awaiting /\ g.over = match.over
  BY <1>1, <1>5 DEF Games
<1>. QED
  BY <1>4, <1>5, <1>6 DEF PopsTo, s

(* Resolve tells what it does. *)
LEMMA ResolvePlays ==
  ASSUME GameFits, HistoryTyped, LogFits, Resolve
  PROVE  Plays(1) \/ Plays(2)
<1>. DEFINE top == Last(match.stack)
            popped == [match EXCEPT !.stack = Front(@)]
            k == Len(match.stack)
<1>1. /\ match.stack # <<>> /\ history' = history
      /\ \/ \E c \in top.card :
              Kind[c] = "creature"
              /\ Does([popped EXCEPT !.zone[c] = "battlefield"], <<Entered(c), Resolved(top.id)>>)
         \/ Does([popped EXCEPT !.zone = [c \in Cards |-> IF c \in top.card
                                                          THEN "graveyard" ELSE @[c]]],
                 <<Resolved(top.id)>>)
  BY DEF Resolve
<1>2. match \in Games /\ match.stack \in Seq(Entries) /\ match.zone \in [Cards -> Zones]
  BY DEF GameFits, Games
<1>3. k \in 1 .. Len(match.stack) /\ Front(match.stack) = RemoveAt(match.stack, k)
      /\ top = match.stack[k]
  BY <1>1, <1>2, UnderTop
<1>4. CASE \E c \in top.card :
             Does([popped EXCEPT !.zone[c] = "battlefield"], <<Entered(c), Resolved(top.id)>>)
  <2>1. PICK c \in top.card :
          Does([popped EXCEPT !.zone[c] = "battlefield"], <<Entered(c), Resolved(top.id)>>)
    BY <1>4
  <2>2. c \in Cards /\ match.stack[k].card = {c}
    BY <1>3, <2>1, StackCards
  <2>. DEFINE zone == [match.zone EXCEPT ![c] = "battlefield"]
  <2>3. zone \in [Cards -> Zones] /\ \A d \in Cards : zone[d] = IF d \in match.stack[k].card
                                                       THEN "battlefield" ELSE match.zone[d]
    BY <1>2, <2>2 DEF Zones
  <2>4. /\ ~match.over /\ log' = log \o <<Entered(c), Resolved(top.id)>>
        /\ match' = [match EXCEPT !.stack = RemoveAt(match.stack, k), !.zone = zone]
        /\ UNCHANGED <<action, state, rejoin, local>>
    BY <1>2, <1>3, <2>1 DEF Does, Games
  <2>. HIDE DEF zone, k
  <2>5. PopsTo(match', k, "battlefield")
    BY <1>3, <2>3, <2>4, PopFits
  <2>. QED
    BY <1>1, <1>3, <2>1, <2>4, <2>5, PopPlays
<1>5. CASE Does([popped EXCEPT !.zone = [c \in Cards |-> IF c \in top.card
                                                          THEN "graveyard" ELSE @[c]]],
                <<Resolved(top.id)>>)
  <2>. DEFINE zone == [c \in Cards |-> IF c \in top.card THEN "graveyard" ELSE match.zone[c]]
  <2>3. zone \in [Cards -> Zones] /\ \A d \in Cards : zone[d] = IF d \in match.stack[k].card
                                                       THEN "graveyard" ELSE match.zone[d]
    BY <1>2, <1>3 DEF Zones
  <2>4. /\ ~match.over /\ log' = log \o <<Resolved(top.id)>>
        /\ match' = [match EXCEPT !.stack = RemoveAt(match.stack, k), !.zone = zone]
        /\ UNCHANGED <<action, state, rejoin, local>>
    BY <1>2, <1>3, <1>5 DEF Does, Games
  <2>. HIDE DEF zone, k
  <2>5. PopsTo(match', k, "graveyard")
    BY <1>3, <2>3, <2>4, PopFits
  <2>. QED
    BY <1>1, <1>3, <2>4, <2>5, PopPlays
<1>. QED
  BY <1>1, <1>4, <1>5

(* An ability that is countered, of which nothing is told, leaves a ghost. *)
LEMMA GhostPlays ==
  ASSUME GameFits, HistoryTyped, LogFits, NEW k, NEW y, PopsTo(match', k, y), ~match.over,
         match.stack[k].card = {}, UNCHANGED <<action, state, rejoin, local>>,
         history' = [history EXCEPT !.ghosts = history.ghosts \cup {match.stack[k].id}],
         log' = log \o <<>>
  PROVE  Plays(0)
<1>1. k \in 1 .. Len(match.stack) /\ match' \in Games
  BY DEF PopsTo
<1>2. PICK id \in 1 .. match.entries : id = match.stack[k].id
  BY <1>1, StackCards
<1>3. match.entries \in Nat /\ history.ghosts \subseteq 1 .. match.entries
  BY DEF GameFits, Games, TableFits
<1>4. /\ history'.ghosts = history.ghosts \cup {id} /\ SameHistory
      /\ HistoryTyped'
  BY <1>2, <1>3 DEF HistoryTyped, SameHistory
<1>5. Longer(0)
  BY NoneTold DEF LogFits
<1>6. ASSUME NEW m \in Told'
      PROVE  TellsOf(m, 0)
  <2>1. m \in Marks /\ (m.of = "stack" => m.id # id)
    BY <1>4, <1>6 DEF Told
  <2>2. RealIn(match', m) <=> RealIn(match, m)
    <3>1. m.of \in {"life", "hand"} => (RealIn(match', m) <=> RealIn(match, m))
      BY <2>1, RealPopped
    <3>2. m.of = "stack" => (RealIn(match', m) <=> RealIn(match, m))
      BY <1>2, <2>1, RealPopped
    <3>3. m.of = "battlefield" => (RealIn(match', m) <=> RealIn(match, m))
      BY <2>1, RealPopped
    <3>. QED
      BY <2>1, <3>1, <3>2, <3>3, MarkFields
  <2>. QED
    BY <2>2 DEF TellsOf
<1>7. ASSUME NEW p \in Players
      PROVE  CountsOf(p, 0)
  <2>1. Library(match', p) = Library(match, p)
    BY RealPopped
  <2>. QED
    BY <2>1 DEF CountsOf
<1>8. ASSUME NEW c \in OwnCards
      PROVE  HoldsOf(c, 0)
  <2>1. match'.zone[c] = "hand" <=> match.zone[c] = "hand"
    BY RealPopped DEF OwnCards
  <2>. QED
    BY <2>1 DEF HoldsOf
<1>9. /\ match'.entries = match.entries /\ match'.awaiting = match.awaiting
      /\ match'.over = match.over
  BY DEF PopsTo
<1>10. TableFits(match'.stack, match'.zone, match'.entries, history'.ghosts)
  <2>1. TableFits(match'.stack, match'.zone, match'.entries,
                  history.ghosts \cup {match.stack[k].id})
    BY RealPopped
  <2>. QED
    BY <1>2, <1>4, <2>1
<1>11. 0 \in 0 .. 2 /\ \A i \in 1 .. 0 : FALSE
  OBVIOUS
<1>. QED
  BY <1>1, <1>3, <1>4, <1>5, <1>6, <1>7, <1>8, <1>9, <1>10, <1>11 DEF Plays

(* Counter tells what it does, but for a countered ability. *)
LEMMA CounterPlays ==
  ASSUME GameFits, HistoryTyped, LogFits, Counter
  PROVE  Plays(0) \/ Plays(1) \/ Plays(2)
<1>1. match \in Games /\ match.stack \in Seq(Entries) /\ match.zone \in [Cards -> Zones]
  BY DEF GameFits, Games
<1>2. PICK k \in DOMAIN match.stack :
        LET e == match.stack[k]
            rest == [match EXCEPT !.stack = RemoveAt(@, k)]
        IN  \/ /\ \E c \in e.card : Does([rest EXCEPT !.zone[c] = "graveyard"], <<Resolved(e.id)>>)
               /\ history' = history
            \/ /\ e.card = {} /\ Does(rest, <<>>)
               /\ history' = [history EXCEPT !.ghosts = @ \cup {e.id}]
  BY DEF Counter
<1>3. k \in 1 .. Len(match.stack)
  BY <1>1
<1>4. CASE /\ \E c \in match.stack[k].card :
                 Does([[match EXCEPT !.stack = RemoveAt(@, k)] EXCEPT !.zone[c] = "graveyard"],
                      <<Resolved(match.stack[k].id)>>)
           /\ history' = history
  <2>. USE <1>3
  <2>1. PICK c \in match.stack[k].card :
          Does([[match EXCEPT !.stack = RemoveAt(@, k)] EXCEPT !.zone[c] = "graveyard"],
               <<Resolved(match.stack[k].id)>>)
    BY <1>4
  <2>2. c \in Cards /\ match.stack[k].card = {c}
    BY <2>1, StackCards
  <2>. DEFINE zone == [match.zone EXCEPT ![c] = "graveyard"]
  <2>3. zone \in [Cards -> Zones] /\ \A d \in Cards : zone[d] = IF d \in match.stack[k].card
                                                       THEN "graveyard" ELSE match.zone[d]
    BY <1>1, <2>2 DEF Zones
  <2>4. /\ ~match.over /\ log' = log \o <<Resolved(match.stack[k].id)>>
        /\ match' = [match EXCEPT !.stack = RemoveAt(match.stack, k), !.zone = zone]
        /\ UNCHANGED <<action, state, rejoin, local>>
    BY <1>1, <2>1 DEF Does, Games
  <2>. HIDE DEF zone
  <2>5. PopsTo(match', k, "graveyard")
    BY <2>3, <2>4, PopFits
  <2>. QED
    BY <1>4, <2>4, <2>5, PopPlays
<1>5. CASE /\ match.stack[k].card = {} /\ Does([match EXCEPT !.stack = RemoveAt(@, k)], <<>>)
           /\ history' = [history EXCEPT !.ghosts = @ \cup {match.stack[k].id}]
  <2>1. /\ ~match.over /\ log' = log \o <<>>
        /\ match' = [match EXCEPT !.stack = RemoveAt(match.stack, k), !.zone = match.zone]
        /\ UNCHANGED <<action, state, rejoin, local>>
    BY <1>1, <1>5 DEF Does, Games
  <2>2. PopsTo(match', k, "graveyard")
    BY <1>1, <1>5, <1>3, <2>1, PopFits
  <2>. QED
    BY <1>5, <2>1, <2>2, GhostPlays
<1>. QED
  BY <1>2, <1>4, <1>5

\* A view that is what a snapshot for p shows.
Mirrors(v, p) ==
  /\ ShowsTo(v, match.entries)
  /\ \A m \in Marks : (m.of = "hand" => p = Me) => (Has(v, m) <=> RealIn(match, m))
  /\ \A q \in Players : v.library_count[q] = Cardinality(Library(match, q))
  /\ v.hand_count[Me] = Cardinality({c \in OwnCards : match.zone[c] = "hand"})

(* A snapshot shows what is so. *)
LEMMA SnapshotMirrors ==
  ASSUME GameFits, NEW p \in Players
  PROVE  Mirrors(Snapshot(p), p)
<1>. DEFINE v == Snapshot(p)
<1>1. match \in Games /\ match.stack \in Seq(Entries) /\ match.entries \in Nat
      /\ match.life \in [Players -> Int]
  BY DEF GameFits, Games
<1>2. /\ v.life = match.life
      /\ v.library_count = [q \in Players |-> Cardinality(In(q, "library"))]
      /\ v.hand = [q \in Players |-> IF q = p THEN In(q, "hand") ELSE {}]
      /\ v.hand_count = [q \in Players |-> Cardinality(In(q, "hand"))]
      /\ v.battlefield = [q \in Players |-> In(q, "battlefield")]
      /\ v.stack = Ids(match.stack)
  BY DEF Snapshot
<1>3. \A q, zone : /\ In(q, zone) \subseteq Cards
                   /\ Cardinality(In(q, zone)) \in 0 .. Cardinality(Cards)
                   /\ Cardinality(In(q, zone)) \in Nat
  <2>1. \A q, zone : In(q, zone) \in SUBSET Cards
    BY DEF In
  <2>. QED
    BY <2>1, HandsFinite
<1>4. /\ Ids(match.stack) \in Seq(1 .. match.entries)
      /\ DOMAIN Ids(match.stack) = 1 .. Len(match.stack)
      /\ \A i \in 1 .. Len(match.stack) : Ids(match.stack)[i] = match.stack[i].id
  <2>. DEFINE n == Len(match.stack)
              s == Ids(match.stack)
  <2>1. n \in Nat /\ DOMAIN match.stack = 1 .. n
    BY <1>1
  <2>2. s = [i \in 1 .. n |-> match.stack[i].id]
    BY <2>1 DEF Ids
  <2>3. \A i \in 1 .. n : match.stack[i].id \in 1 .. match.entries
    BY StackCards
  <2>4. s \in [1 .. n -> 1 .. match.entries]
    BY <2>2, <2>3
  <2>5. s \in Seq(1 .. match.entries)
    BY <2>1, <2>4, SeqDef
  <2>. QED
    BY <2>2, <2>5
<1>5. Range(v.stack) = IdsOn(match.stack)
  BY <1>2, <1>4 DEF Range, IdsOn
<1>6. IsInjective(v.stack)
  <2>1. \A i, j \in 1 .. Len(match.stack) : i # j => match.stack[i].id # match.stack[j].id
    BY DEF GameFits, TableFits
  <2>. QED
    BY <1>2, <1>4, <2>1 DEF IsInjective
<1>7. v \in ViewsTo(match.entries)
  <2>1. v.library_count \in [Players -> 0 .. Cardinality(Cards)]
    BY <1>2, <1>3
  <2>2. v.hand \in [Players -> SUBSET Cards] /\ v.hand_count \in [Players -> Nat]
    BY <1>2, <1>3
  <2>3. v.battlefield \in [Players -> SUBSET Cards] /\ v.stack \in Seq(1 .. match.entries)
    BY <1>2, <1>3, <1>4
  <2>. DEFINE lc == [q \in Players |-> Cardinality(In(q, "library"))]
              h == [q \in Players |-> IF q = p THEN In(q, "hand") ELSE {}]
              hc == [q \in Players |-> Cardinality(In(q, "hand"))]
              b == [q \in Players |-> In(q, "battlefield")]
              s == Ids(match.stack)
              l == match.life
  <2>4. v = [life |-> l, library_count |-> lc, hand |-> h, hand_count |-> hc, battlefield |-> b,
             stack |-> s]
    BY DEF Snapshot
  <2>5. /\ l \in [Players -> Int] /\ lc \in [Players -> 0 .. Cardinality(Cards)]
        /\ h \in [Players -> SUBSET Cards] /\ hc \in [Players -> Nat]
        /\ b \in [Players -> SUBSET Cards] /\ s \in Seq(1 .. match.entries)
    BY <1>1, <1>2, <2>1, <2>2, <2>3
  <2>. HIDE DEF v, lc, h, hc, b, s, l
  <2>. QED
    BY <2>4, <2>5 DEF ViewsTo
<1>8. Sorted(v)
  BY <1>2, <1>6 DEF Sorted, In
<1>9. ASSUME NEW m \in Marks, m.of = "hand" => p = Me
      PROVE  Has(v, m) <=> RealIn(match, m)
  <2>1. CASE m.of = "life"
    BY <1>2, <2>1 DEF Has, RealIn
  <2>2. CASE m.of = "battlefield"
    BY <1>2, <2>2, MarkFields, OwnerPlays DEF Has, RealIn, In
  <2>3. CASE m.of = "stack"
    BY <1>5, <2>3 DEF Has, RealIn
  <2>4. CASE m.of = "hand"
    BY <1>2, <1>9, <2>4, MarkFields DEF Has, RealIn, In
  <2>. QED
    BY <2>1, <2>2, <2>3, <2>4, MarkFields
<1>10. \A q \in Players : v.library_count[q] = Cardinality(Library(match, q))
  BY <1>2 DEF In, Library
<1>11. v.hand_count[Me] = Cardinality({c \in OwnCards : match.zone[c] = "hand"})
  <2>1. In(Me, "hand") = {c \in OwnCards : match.zone[c] = "hand"}
    BY DEF In, OwnCards
  <2>. QED
    BY <1>2, <2>1 DEF Players
<1>. HIDE DEF v
<1>12. Mirrors(v, p)
  BY <1>7, <1>8, <1>9, <1>10, <1>11 DEF Mirrors, ShowsTo
<1>. QED
  BY <1>12 DEF v

(* The untap phase's snapshots. *)
LEMMA UntapPlays ==
  ASSUME GameFits, HistoryTyped, LogFits, Untap
  PROVE  Plays(2)
<1>. DEFINE To(p) == [kind |-> "snapshot", to |-> {p}, for |-> p, view |-> Snapshot(p)]
<1>1. PICK p \in Players : Does(match, <<To(p), To(CHOOSE o \in Players : o # p)>>)
  BY DEF Untap
<1>2. PICK q \in Players : q = (CHOOSE o \in Players : o # p)
  BY PlayersDiffer DEF Players
<1>. DEFINE a == To(p)
            b == To(q)
<1>3. /\ ~match.over /\ match' = match /\ log' = log \o <<a, b>>
      /\ history' = history /\ UNCHANGED <<action, state, rejoin, local>>
  BY <1>1, <1>2 DEF Does, Untap
<1>4. /\ a.kind = "snapshot" /\ a.to = {p} /\ a.for = p /\ a.view = Snapshot(p)
      /\ b.kind = "snapshot" /\ b.to = {q} /\ b.for = q /\ b.view = Snapshot(q)
  OBVIOUS
<1>. HIDE DEF a, b, To
<1>5. Longer(2) /\ log'[Len(log) + 1] = a /\ log'[Len(log) + 2] = b
  BY <1>3, TwoTold DEF LogFits
<1>6. Mirrors(Snapshot(p), p) /\ Mirrors(Snapshot(q), q)
  BY SnapshotMirrors
<1>7. match' \in Games /\ match.entries \in Nat /\ match'.entries = match.entries
  BY <1>3 DEF GameFits, Games
<1>8. Fits(a, match'.entries) /\ Fits(b, match'.entries)
  BY <1>4, <1>6, <1>7 DEF Fits, OfCard, Mirrors
<1>9. 1 .. 2 = {1, 2} /\ 2 \in 0 .. 2
  OBVIOUS
<1>10. ASSUME NEW m \in Marks
       PROVE  TellsOf(m, 2)
  <2>1. RealIn(match', m) <=> RealIn(match, m)
    BY <1>3
  <2>2. Right(a, m, match')
    BY <1>3, <1>4, <1>6 DEF Right, Touches, Says, Mirrors
  <2>3. Right(b, m, match')
    BY <1>3, <1>4, <1>6 DEF Right, Touches, Says, Mirrors
  <2>. QED
    BY <1>5, <2>1, <2>2, <2>3, TellsOfTwo
<1>11. ASSUME NEW r \in Players
       PROVE  CountsOf(r, 2)
  <2>1. ~LibraryEvent(a, r) /\ ~LibraryEvent(b, r) /\ Library(match', r) = Library(match, r)
    BY <1>3, <1>4 DEF LibraryEvent
  <2>. QED
    BY <1>5, <2>1, CountsOfTwo
<1>12. ASSUME NEW c \in OwnCards
       PROVE  HoldsOf(c, 2)
  <2>1. ~HandEvent(a, c) /\ ~HandEvent(b, c)
    BY <1>4 DEF HandEvent
  <2>. QED
    BY <1>3, <1>5, <2>1, HoldsOfTwo
<1>13. SameHistory /\ HistoryTyped' /\ history.ghosts \subseteq history'.ghosts
  BY <1>3 DEF SameHistory, HistoryTyped
<1>14. \A i \in 1 .. 2 : /\ Fits(log'[Len(log) + i], match'.entries)
                         /\ log'[Len(log) + i].kind \notin {"action_prompt", "game_over"}
                         /\ TrueOf(log'[Len(log) + i])
  BY <1>3, <1>4, <1>5, <1>8, <1>9 DEF TrueOf
<1>15. TableFits(match'.stack, match'.zone, match'.entries, history'.ghosts)
  BY <1>3 DEF GameFits
<1>16. \A m \in Told' : TellsOf(m, 2)
  BY <1>10 DEF Told
<1>17. match'.entries >= match.entries /\ match'.awaiting = match.awaiting
       /\ match'.over = match.over
  BY <1>3, <1>7
<1>. QED
  BY <1>3, <1>5, <1>7, <1>9, <1>11, <1>12, <1>13, <1>14, <1>15, <1>16, <1>17 DEF Plays

(* What every operation of the game does. *)
LEMMA PlayPlays ==
  ASSUME GameFits, HistoryTyped, LogFits, Play
  PROVE  \E k \in 0 .. 2 : Plays(k)
<1>1. Plays(0) \/ Plays(1) \/ Plays(2)
  BY DrawPlays, MillPlays, DiscardPlays, LandPlays, CastPlays, ActivatePlays, ResolvePlays,
     CounterPlays, TokenPlays, LeavePlays, DamagePlays, UntapPlays DEF Play
<1>2. 0 .. 2 = {0, 1, 2}
  OBVIOUS
<1>. QED
  BY <1>1, <1>2

-----------------------------------------------------------------------------
(* What fits a game of k entries fits one of more *)

(* A view. *)
LEMMA ViewsGrow ==
  ASSUME NEW j \in Nat, NEW k \in Nat, j <= k, NEW v, ShowsTo(v, j)
  PROVE  ShowsTo(v, k)
<1>1. 1 .. j \subseteq 1 .. k
  OBVIOUS
<1>2. Seq(1 .. j) \subseteq Seq(1 .. k)
  BY <1>1, SeqMonotonic
<1>3. ViewsTo(j) \subseteq ViewsTo(k)
  BY <1>2 DEF ViewsTo
<1>. QED
  BY <1>3 DEF ShowsTo

(* An event. *)
LEMMA FitsGrow ==
  ASSUME NEW j \in Nat, NEW k \in Nat, j <= k, NEW e, Fits(e, j)
  PROVE  Fits(e, k)
<1>1. 0 .. j \subseteq 0 .. k /\ 1 .. j \subseteq 1 .. k
  OBVIOUS
<1>2. e.kind = "snapshot" => ShowsTo(e.view, k)
  BY ViewsGrow DEF Fits
<1>. QED
  BY <1>1, <1>2 DEF Fits

-----------------------------------------------------------------------------
(* The client's side *)

LocalFits(c, k, L) ==
  /\ c \in [view : ViewsTo(k), has : BOOLEAN, prompt : 0 .. L, last : 0 .. L, over : BOOLEAN]
  /\ ShowsTo(c.view, k)

ActionFits(a, k, L) ==
  \/ a \in [stage : {"none", "opened"}]
  \/ a \in [stage : {"subscribed", "live"}, next : 1 .. L + 1]
  \/ /\ a \in [stage : {"snapshot"}, next : 1 .. L + 1, view : ViewsTo(k), upto : 0 .. L]
     /\ ShowsTo(a.view, k) /\ a.next <= a.upto + 1

StateFits(s, L) ==
  \/ s \in [stage : {"none"}]
  \/ s \in [stage : {"opened"}, since : 0 .. L]
  \/ s \in [stage : {"replay"}, next : 1 .. L + 1, end : 0 .. L]
  \/ s \in [stage : {"live"}, next : 1 .. L + 1]

RejoinFits(r, k, L) ==
  \/ r \in [stage : {"none", "asked"}]
  \/ r \in [stage : {"answered"}, view : ViewsTo(k), upto : 0 .. L] /\ ShowsTo(r.view, k)

(* The client and its streams. *)
LEMMA ClientGrows ==
  ASSUME NEW j \in Nat, NEW k \in Nat, j <= k, NEW L \in Nat, NEW M \in Nat, L <= M
  PROVE  /\ \A c : LocalFits(c, j, L) => LocalFits(c, k, M)
         /\ \A a : ActionFits(a, j, L) => ActionFits(a, k, M)
         /\ \A s : StateFits(s, L) => StateFits(s, M)
         /\ \A r : RejoinFits(r, j, L) => RejoinFits(r, k, M)
<1>1. 0 .. L \subseteq 0 .. M /\ 1 .. L + 1 \subseteq 1 .. M + 1
  OBVIOUS
<1>2. \A v : ShowsTo(v, j) => ShowsTo(v, k) /\ v \in ViewsTo(k)
  BY ViewsGrow DEF ShowsTo
<1>3. ASSUME NEW c, LocalFits(c, j, L)
      PROVE  LocalFits(c, k, M)
  BY <1>1, <1>2, <1>3 DEF LocalFits
<1>4. ASSUME NEW a, ActionFits(a, j, L)
      PROVE  ActionFits(a, k, M)
  BY <1>1, <1>2, <1>4 DEF ActionFits
<1>5. ASSUME NEW s, StateFits(s, L)
      PROVE  StateFits(s, M)
  BY <1>1, <1>5 DEF StateFits
<1>6. ASSUME NEW r, RejoinFits(r, j, L)
      PROVE  RejoinFits(r, k, M)
  BY <1>1, <1>2, <1>6 DEF RejoinFits
<1>. QED
  BY <1>3, <1>4, <1>5, <1>6

StreamsFit == /\ ActionFits(action, match.entries, Len(log)) /\ StateFits(state, Len(log))
              /\ RejoinFits(rejoin, match.entries, Len(log))

\* The prompt shown is a prompt, a live stream has brought a snapshot, and what is
\* known has happened.
ClientFits ==
  /\ LocalFits(local, match.entries, Len(log))
  /\ local.prompt # 0 => log[local.prompt].kind = "action_prompt"
  /\ action.stage = "live" => local.has
  /\ history.upto <= Len(log) /\ history.astray <= Len(log) /\ match.awaiting <= Len(log)

Shape == GameFits /\ HistoryTyped /\ LogFits /\ StreamsFit /\ ClientFits

(* The numbers that are used all over. *)
LEMMA ShapeNumbers ==
  ASSUME Shape
  PROVE  /\ Len(log) \in Nat /\ match.entries \in Nat /\ match.awaiting \in Nat
         /\ history.upto \in Nat /\ history.astray \in Nat
         /\ local.last \in 0 .. Len(log) /\ local.prompt \in 0 .. Len(log)
         /\ local.has \in BOOLEAN /\ local.over \in BOOLEAN
         /\ ShowsTo(local.view, match.entries)
<1>1. Len(log) \in Nat
  BY LenProperties DEF Shape, LogFits, LogTyped
<1>2. match.entries \in Nat /\ match.awaiting \in Nat
  BY DEF Shape, GameFits, Games
<1>3. history.upto \in Nat /\ history.astray \in Nat
  BY DEF Shape, HistoryTyped
<1>. QED
  BY <1>1, <1>2, <1>3 DEF Shape, ClientFits, LocalFits

(* The initial states are in shape. *)
LEMMA InitShape ==
  ASSUME ViewInit
  PROVE  Shape
<1>1. match.entries = 0 /\ match.awaiting = 0 /\ log = <<>> /\ Len(log) = 0
  BY DEF ViewInit
<1>2. GameFits
  <2>. DEFINE zone == [c \in Cards |-> IF c \in InHand THEN "hand"
                                       ELSE IF Kind[c] = "token" THEN "nowhere"
                                       ELSE "library"]
  <2>1. zone \in [Cards -> Zones]
    BY DEF Zones
  <2>2. match = [life |-> Life, zone |-> zone, stack |-> <<>>, entries |-> 0, awaiting |-> 0,
                 over |-> FALSE]
    BY DEF ViewInit
  <2>. HIDE DEF zone
  <2>3. match \in Games
    BY <2>1, <2>2, CardsOwned DEF Games
  <2>4. TableFits(match.stack, match.zone, match.entries, history.ghosts)
    BY <2>2 DEF TableFits, ViewInit
  <2>. QED
    BY <2>3, <2>4 DEF GameFits
<1>3. HistoryTyped
  BY DEF ViewInit, HistoryTyped, Players
<1>4. LogFits
  BY <1>1 DEF LogFits, LogTyped
<1>5. StreamsFit
  BY DEF ViewInit, StreamsFit, ActionFits, StateFits, RejoinFits, NoReader, NoAnswer
<1>6. ShowsTo(NoView, 0)
  <2>1. <<>> \in Seq(1 .. 0) /\ IsInjective(<<>>)
    BY DEF IsInjective
  <2>2. 0 \in 0 .. Cardinality(Cards)
    BY HandsFinite
  <2>. QED
    BY <2>1, <2>2 DEF ShowsTo, ViewsTo, Sorted, NoView
<1>7. ClientFits
  <2>1. local = [view |-> NoView, has |-> FALSE, prompt |-> 0, last |-> 0, over |-> FALSE]
    BY DEF ViewInit
  <2>2. LocalFits(local, 0, 0)
    BY <1>6, <2>1 DEF LocalFits, ShowsTo
  <2>3. action.stage # "live"
    BY DEF ViewInit, NoReader
  <2>. QED
    BY <1>1, <2>1, <2>2, <2>3 DEF ClientFits, ViewInit
<1>. QED
  BY <1>2, <1>3, <1>4, <1>5, <1>7 DEF Shape

(* The type invariant of the runs. *)
LEMMA ShapeTypes ==
  ASSUME Shape
  PROVE  ViewTypeOK
<1>1. local.view \in Views
  BY ShapeNumbers DEF ShowsTo, ViewsTo, Views
<1>2. /\ \A s \in {action, state} : s.stage \in {"none", "opened", "subscribed", "snapshot",
                                                 "replay", "live"}
      /\ rejoin.stage \in {"none", "asked", "answered"}
  BY DEF Shape, StreamsFit, ActionFits, StateFits, RejoinFits
<1>3. match.awaiting \in 0 .. Len(log)
  BY ShapeNumbers DEF Shape, ClientFits
<1>. QED
  BY <1>1, <1>2, <1>3, ShapeNumbers DEF ViewTypeOK, Shape, ClientFits

-----------------------------------------------------------------------------
(* Steps of the game, and of the client *)

\* A step of the game with k events, which are true of it.
OnlyGrows(k) ==
  /\ k \in 0 .. 2 /\ Longer(k)
  /\ match' \in Games /\ match'.entries >= match.entries /\ match'.awaiting <= Len(log')
  /\ TableFits(match'.stack, match'.zone, match'.entries, history'.ghosts)
  /\ \A i \in 1 .. k : Fits(log'[Len(log) + i], match'.entries)
  /\ UNCHANGED <<action, state, rejoin, local>>
  /\ HistoryTyped'
  /\ history'.for = history.for /\ history'.upto = history.upto
  /\ history'.again = history.again /\ history'.astray = history.astray
  /\ history.ghosts \subseteq history'.ghosts
  /\ \A i \in 1 .. k : log'[Len(log) + i].kind = "snapshot" => TrueOf(log'[Len(log) + i])
  /\ \A m \in Told' : TellsOf(m, k)
  /\ \A p \in Players : CountsOf(p, k)
  /\ \A c \in OwnCards : HoldsOf(c, k)

(* A play. *)
LEMMA PlayGrows ==
  ASSUME Shape, NEW k, Plays(k)
  PROVE  OnlyGrows(k)
<1>1. match'.awaiting <= Len(log')
  BY ShapeNumbers DEF Plays, Longer, Shape, ClientFits
<1>. QED
  BY <1>1 DEF Plays, OnlyGrows, SameHistory

\* The game is as it was but for what it waits for and its end.
SameTable(g) == g.life = match.life /\ g.zone = match.zone /\ g.stack = match.stack
                  /\ g.entries = match.entries

(* What is real, and the libraries, when the table is the same. *)
LEMMA SameReal ==
  ASSUME NEW g, SameTable(g)
  PROVE  /\ \A m : RealIn(g, m) <=> RealIn(match, m)
         /\ \A p : Library(g, p) = Library(match, p)
         /\ \A c : g.zone[c] = match.zone[c]
BY DEF SameTable, RealIn, Library

\* A step of the game with at most one event that no view follows.
LEMMA QuietGrows ==
  ASSUME Shape, NEW k \in 0 .. 1, Longer(k), match' \in Games, SameTable(match'),
         match'.awaiting <= Len(log'), UNCHANGED <<action, state, rejoin, local>>,
         HistoryTyped',
         history'.for = history.for /\ history'.upto = history.upto,
         history'.again = history.again /\ history'.astray = history.astray,
         history'.ghosts = history.ghosts,
         NEW e, k = 1 => log'[Len(log) + 1] = e,
         e.kind \in {"action_prompt", "game_over"}, Fits(e, match.entries)
  PROVE  OnlyGrows(k)
<1>1. /\ match'.entries = match.entries /\ match'.entries \in Nat
      /\ TableFits(match'.stack, match'.zone, match'.entries, history'.ghosts)
  BY DEF Shape, GameFits, SameTable, Games
<1>2. \A i \in 1 .. k : log'[Len(log) + i] = e
  BY DEF Longer
<1>3. ASSUME NEW m \in Told'
      PROVE  TellsOf(m, k)
  BY <1>2, SameReal DEF TellsOf, Right, Touches
<1>4. ASSUME NEW p \in Players
      PROVE  CountsOf(p, k)
  BY <1>2, SameReal DEF CountsOf, LibraryEvent
<1>5. ASSUME NEW c \in OwnCards
      PROVE  HoldsOf(c, k)
  BY <1>2, SameReal DEF HoldsOf, HandEvent
<1>6. k \in 0 .. 2 /\ match'.entries >= match.entries
  BY <1>1
<1>. QED
  BY <1>1, <1>2, <1>3, <1>4, <1>5, <1>6 DEF OnlyGrows

(* A prompt. *)
LEMMA PromptGrows ==
  ASSUME Shape, Prompt
  PROVE  OnlyGrows(1)
<1>. DEFINE e == [kind |-> "action_prompt", to |-> {Me}]
<1>1. /\ match' = [match EXCEPT !.awaiting = Len(log) + 1] /\ log' = log \o <<e>>
      /\ UNCHANGED <<action, state, rejoin, local>>
      /\ history' = [history EXCEPT !.missed = FALSE, !.answered = FALSE]
  BY DEF Prompt, Does
<1>2. e.kind = "action_prompt" /\ Fits(e, match.entries)
  BY DEF Fits, OfCard, Players
<1>3. Longer(1) /\ log'[Len(log) + 1] = e
  BY <1>1, OneTold DEF Shape, LogFits
<1>4. match' \in Games /\ SameTable(match') /\ match'.awaiting <= Len(log')
  <2>1. match \in Games /\ Len(log) + 1 \in Nat
    BY ShapeNumbers DEF Shape, GameFits
  <2>2. match' \in Games /\ SameTable(match') /\ match'.awaiting = Len(log) + 1
    BY <1>1, <2>1 DEF Games, SameTable
  <2>. QED
    BY <1>3, <2>1, <2>2 DEF Longer
<1>5. /\ HistoryTyped' /\ history'.for = history.for /\ history'.upto = history.upto
      /\ history'.again = history.again /\ history'.astray = history.astray
      /\ history'.ghosts = history.ghosts
  BY <1>1 DEF HistoryTyped, Shape
<1>. HIDE DEF e
<1>. QED
  BY <1>1, <1>2, <1>3, <1>4, <1>5, QuietGrows

(* The end of the game. *)
LEMMA EndGrows ==
  ASSUME Shape, EndGame
  PROVE  OnlyGrows(1)
<1>. DEFINE e == [kind |-> "game_over", to |-> Players]
<1>1. /\ match' = [match EXCEPT !.over = TRUE, !.awaiting = 0] /\ log' = Append(log, e)
      /\ UNCHANGED <<action, state, rejoin, local>> /\ history' = history
  BY DEF EndGame
<1>2. e.kind = "game_over" /\ Fits(e, match.entries)
  BY DEF Fits, OfCard
<1>3. Longer(1) /\ log'[Len(log) + 1] = e
  BY <1>1, OneTold DEF Shape, LogFits
<1>4. match' \in Games /\ SameTable(match') /\ match'.awaiting <= Len(log')
  <2>1. match' \in Games /\ SameTable(match') /\ match'.awaiting = 0
    BY <1>1 DEF Shape, GameFits, Games, SameTable
  <2>. QED
    BY <1>3, <2>1, ShapeNumbers DEF Longer
<1>5. /\ HistoryTyped' /\ history'.for = history.for /\ history'.upto = history.upto
      /\ history'.again = history.again /\ history'.astray = history.astray
      /\ history'.ghosts = history.ghosts
  BY <1>1 DEF HistoryTyped, Shape
<1>. HIDE DEF e
<1>. QED
  BY <1>1, <1>2, <1>3, <1>4, <1>5, QuietGrows

(* A prompt that expires. *)
LEMMA ExpireGrows ==
  ASSUME Shape, Expire
  PROVE  OnlyGrows(0)
<1>. DEFINE e == [kind |-> "game_over", to |-> Players]
<1>1. /\ match' = [match EXCEPT !.awaiting = 0] /\ log' = log
      /\ UNCHANGED <<action, state, rejoin, local>> /\ history' = history
  BY DEF Expire
<1>2. e.kind = "game_over" /\ Fits(e, match.entries)
  BY DEF Fits, OfCard
<1>3. Longer(0)
  BY <1>1, ShapeNumbers DEF Shape, LogFits, LogTyped, Longer
<1>4. match' \in Games /\ SameTable(match') /\ match'.awaiting <= Len(log')
  <2>1. match' \in Games /\ SameTable(match') /\ match'.awaiting = 0
    BY <1>1 DEF Shape, GameFits, Games, SameTable
  <2>. QED
    BY <1>1, <2>1, ShapeNumbers
<1>5. /\ HistoryTyped' /\ history'.for = history.for /\ history'.upto = history.upto
      /\ history'.again = history.again /\ history'.astray = history.astray
      /\ history'.ghosts = history.ghosts
  BY <1>1 DEF HistoryTyped, Shape
<1>. HIDE DEF e
<1>. QED
  BY <1>1, <1>2, <1>3, <1>4, <1>5, QuietGrows

(* What happens in the game leaves everything in shape. *)
LEMMA GrowShape ==
  ASSUME Shape, NEW k, OnlyGrows(k)
  PROVE  Shape'
<1>1. /\ k \in 0 .. 2 /\ Longer(k) /\ Len(log) \in Nat /\ Len(log') = Len(log) + k
      /\ \A n \in 1 .. Len(log) : log'[n] = log[n]
  BY DEF OnlyGrows, Longer
<1>2. /\ match' \in Games /\ match.entries \in Nat /\ match'.entries \in Nat
      /\ match.entries <= match'.entries /\ Len(log') \in Nat /\ Len(log) <= Len(log')
  BY <1>1, ShapeNumbers DEF OnlyGrows, Games
<1>3. GameFits'
  BY DEF OnlyGrows, GameFits
<1>4. HistoryTyped'
  BY DEF OnlyGrows
<1>5. LogFits'
  <2>1. LogTyped'
    BY <1>1 DEF Longer
  <2>2. SUFFICES ASSUME NEW n \in 1 .. Len(log')
                 PROVE  Fits(log'[n], match'.entries)
    BY <2>1 DEF LogFits
  <2>3. CASE n <= Len(log)
    <3>1. Fits(log[n], match.entries) /\ log'[n] = log[n]
      BY <1>1, <2>3 DEF Shape, LogFits
    <3>. QED
      BY <1>2, <3>1, FitsGrow
  <2>4. CASE n > Len(log)
    <3>1. PICK i \in 1 .. k : n = Len(log) + i
      BY <1>1, <2>4
    <3>. QED
      BY <3>1 DEF OnlyGrows
  <2>. QED
    BY <1>1, <2>3, <2>4
<1>6. action' = action /\ state' = state /\ rejoin' = rejoin /\ local' = local
  BY DEF OnlyGrows
<1>7. StreamsFit'
  BY <1>2, <1>6, ClientGrows DEF Shape, StreamsFit
<1>8. ClientFits'
  <2>1. LocalFits(local', match'.entries, Len(log'))
    BY <1>2, <1>6, ClientGrows DEF Shape, ClientFits
  <2>2. local.prompt # 0 => log'[local.prompt].kind = "action_prompt"
    BY <1>1, ShapeNumbers DEF Shape, ClientFits
  <2>3. history'.upto <= Len(log') /\ history'.astray <= Len(log')
    BY <1>2, ShapeNumbers DEF OnlyGrows, Shape, ClientFits
  <2>. QED
    BY <1>6, <2>1, <2>2, <2>3 DEF OnlyGrows, Shape, ClientFits
<1>. QED
  BY <1>3, <1>4, <1>5, <1>7, <1>8 DEF Shape

\* A step of the client, which leaves the game as it is but for what it waits for.
SameGame ==
  /\ log' = log /\ match' \in Games /\ SameTable(match')
  /\ match'.awaiting \in {0, match.awaiting} /\ match'.over = match.over
  /\ history'.ghosts = history.ghosts /\ HistoryTyped'

(* A step of the client only has its own part to keep in shape. *)
LEMMA SameFits ==
  ASSUME Shape, SameGame, StreamsFit', ClientFits'
  PROVE  Shape'
<1>1. match'.entries = match.entries
  BY DEF SameGame, SameTable
<1>2. GameFits'
  BY DEF GameFits, SameGame, SameTable, Shape
<1>3. LogFits'
  BY <1>1 DEF LogFits, LogTyped, SameGame, Shape
<1>. QED
  BY <1>2, <1>3 DEF Shape, SameGame

\* The game waits for what it waited for.
Still == match' = match /\ log' = log /\ history'.ghosts = history.ghosts /\ HistoryTyped'

(* A step that leaves the game alone. *)
LEMMA StillSame ==
  ASSUME Shape, Still
  PROVE  SameGame
BY DEF SameGame, SameTable, Still, Shape, GameFits

\* The history is as it was, but something may have been missed.
Misses(h) ==
  /\ HistoryTyped' /\ h.for = history.for /\ h.upto = history.upto /\ h.again = history.again
  /\ h.astray = history.astray /\ h.answered = history.answered /\ h.ghosts = history.ghosts
  /\ history.missed => h.missed

\* What a snapshot that accounts for the events up to n makes of it.
Resets(h, n) ==
  /\ HistoryTyped' /\ h.for = Me /\ h.upto = n /\ h.again = FALSE
  /\ h.astray = IF n >= history.astray THEN 0 ELSE history.astray
  /\ h.missed = history.missed /\ h.answered = history.answered /\ h.ghosts = history.ghosts

\* Some of the events in S are passed over.
Passes(h, S) ==
  /\ HistoryTyped' /\ h.for = history.for /\ h.upto = history.upto /\ h.again = history.again
  /\ h.astray = IF S = {} THEN history.astray ELSE Len(log)
  /\ h.answered = history.answered /\ h.ghosts = history.ghosts
  /\ history.missed => h.missed
  /\ match.awaiting \in S => h.missed

-----------------------------------------------------------------------------
(* The steps of the streams *)

IsRejoin ==
  /\ Still /\ local' = local /\ history' = history
  /\ action.stage = "none" /\ action'.stage = "opened" /\ rejoin'.stage = "asked"
  /\ \/ state.stage # "none" /\ state' = state
     \/ state.stage = "none" /\ state'.stage = "opened" /\ state'.since = local.last

(* Rejoin. *)
LEMMA RejoinDoes ==
  ASSUME Shape, Rejoin
  PROVE  IsRejoin /\ Shape'
<1>1. /\ match' = match /\ log' = log /\ local' = local /\ history' = history
      /\ action.stage = "none" /\ action' = [stage |-> "opened"] /\ rejoin' = [stage |-> "asked"]
      /\ state' = IF Gone(state) THEN [stage |-> "opened", since |-> local.last] ELSE state
  BY DEF Rejoin, Gone
<1>2. Still
  BY <1>1 DEF Still, Shape, HistoryTyped
<1>3. IsRejoin
  BY <1>1, <1>2 DEF IsRejoin, Gone
<1>4. StreamsFit'
  <2>1. /\ ActionFits(action', match.entries, Len(log))
        /\ RejoinFits(rejoin', match.entries, Len(log))
    BY <1>1 DEF ActionFits, RejoinFits
  <2>2. StateFits(state', Len(log))
    BY <1>1, ShapeNumbers DEF Shape, StreamsFit, StateFits
  <2>. QED
    BY <1>1, <2>1, <2>2 DEF StreamsFit
<1>5. ClientFits'
  BY <1>1 DEF Shape, ClientFits
<1>. QED
  BY <1>2, <1>3, <1>4, <1>5, SameFits, StillSame

IsSubscribe ==
  /\ Still /\ UNCHANGED <<state, rejoin, local>> /\ Misses(history')
  /\ action.stage = "opened" /\ action'.stage = "subscribed" /\ action'.next = Len(log) + 1
  /\ state.stage = "none" /\ match.awaiting > local.last => history'.missed

(* Subscribe. *)
LEMMA SubscribeDoes ==
  ASSUME Shape, Subscribe
  PROVE  IsSubscribe /\ Shape'
<1>1. /\ match' = match /\ log' = log /\ local' = local /\ state' = state /\ rejoin' = rejoin
      /\ action.stage = "opened" /\ action' = [stage |-> "subscribed", next |-> Len(log) + 1]
      /\ history' = [history EXCEPT !.missed = @ \/ (Gone(state) /\ match.awaiting > local.last)]
  BY DEF Subscribe
<1>2. Misses(history') /\ (state.stage = "none" /\ match.awaiting > local.last => history'.missed)
  BY <1>1 DEF Shape, HistoryTyped, Misses, Gone
<1>3. Still
  BY <1>1, <1>2 DEF Still, Misses
<1>4. IsSubscribe
  BY <1>1, <1>2, <1>3 DEF IsSubscribe
<1>5. StreamsFit'
  <2>1. ActionFits(action', match.entries, Len(log))
    BY <1>1, ShapeNumbers DEF ActionFits
  <2>. QED
    BY <1>1, <2>1 DEF Shape, StreamsFit
<1>6. ClientFits'
  BY <1>1, <1>2 DEF Shape, ClientFits, Misses
<1>. QED
  BY <1>3, <1>4, <1>5, <1>6, SameFits, StillSame

IsTakeSnapshot ==
  /\ Still /\ UNCHANGED <<state, rejoin, local>> /\ history' = history
  /\ action.stage = "subscribed" /\ action'.stage = "snapshot" /\ action'.next = action.next
  /\ action'.view = Snapshot(Me) /\ action'.upto = Len(log)

(* TakeSnapshot. *)
LEMMA TakeSnapshotDoes ==
  ASSUME Shape, TakeSnapshot
  PROVE  IsTakeSnapshot /\ Shape'
<1>. DEFINE v == Snapshot(Me)
<1>1. /\ match' = match /\ log' = log /\ local' = local /\ state' = state /\ rejoin' = rejoin
      /\ history' = history /\ action.stage = "subscribed"
      /\ action' = [stage |-> "snapshot", next |-> action.next, view |-> v, upto |-> Len(log)]
  BY DEF TakeSnapshot
<1>2. ShowsTo(v, match.entries)
  BY SnapshotMirrors DEF Players, Shape, Mirrors
<1>. HIDE DEF v
<1>3. Still
  BY <1>1 DEF Still, Shape, HistoryTyped
<1>4. IsTakeSnapshot
  BY <1>1, <1>3 DEF IsTakeSnapshot, v
<1>5. action.next \in 1 .. Len(log) + 1
  BY <1>1 DEF Shape, StreamsFit, ActionFits
<1>6. StreamsFit'
  <2>1. ActionFits(action', match.entries, Len(log))
    BY <1>1, <1>2, <1>5, ShapeNumbers DEF ActionFits, ShowsTo
  <2>. QED
    BY <1>1, <2>1 DEF Shape, StreamsFit
<1>7. ClientFits'
  BY <1>1 DEF Shape, ClientFits
<1>. QED
  BY <1>3, <1>4, <1>6, <1>7, SameFits, StillSame

IsReadLog ==
  /\ Still /\ UNCHANGED <<action, rejoin, local>> /\ history' = history
  /\ state.stage = "opened" /\ state'.stage = "replay" /\ state'.next = state.since + 1
  /\ state'.end = Len(log) /\ state.since \in Nat

(* ReadLog. *)
LEMMA ReadLogDoes ==
  ASSUME Shape, ReadLog
  PROVE  IsReadLog /\ Shape'
<1>1. /\ match' = match /\ log' = log /\ local' = local /\ action' = action /\ rejoin' = rejoin
      /\ history' = history /\ state.stage = "opened"
      /\ state' = [stage |-> "replay", next |-> state.since + 1, end |-> Len(log)]
  BY DEF ReadLog
<1>2. Still
  BY <1>1 DEF Still, Shape, HistoryTyped
<1>3. state.since \in 0 .. Len(log)
  BY <1>1 DEF Shape, StreamsFit, StateFits
<1>4. IsReadLog
  BY <1>1, <1>2, <1>3 DEF IsReadLog
<1>5. StreamsFit'
  <2>1. StateFits(state', Len(log))
    BY <1>1, <1>3, ShapeNumbers DEF StateFits
  <2>. QED
    BY <1>1, <2>1 DEF Shape, StreamsFit
<1>6. ClientFits'
  BY <1>1 DEF Shape, ClientFits
<1>. QED
  BY <1>2, <1>4, <1>5, <1>6, SameFits, StillSame

(* What it means that events are passed over. *)
LEMMA PassedDoes ==
  ASSUME Shape, NEW S, NEW h, h = PassedOver(history, S)
  PROVE  /\ h \in [for : Players, upto : Nat, again : BOOLEAN, astray : Nat, missed : BOOLEAN,
                   answered : BOOLEAN, ghosts : SUBSET Nat, losses : Nat]
         /\ h.for = history.for /\ h.upto = history.upto /\ h.again = history.again
         /\ h.astray = IF S = {} THEN history.astray ELSE Len(log)
         /\ h.answered = history.answered /\ h.ghosts = history.ghosts
         /\ h.losses = history.losses
         /\ history.missed => h.missed
         /\ match.awaiting \in S => h.missed
<1>1. CASE S = {}
  BY <1>1 DEF PassedOver, Shape, HistoryTyped
<1>2. CASE S # {}
  BY <1>2, ShapeNumbers DEF PassedOver, Shape, HistoryTyped
<1>. QED
  BY <1>1, <1>2

IsFollow ==
  /\ Still /\ UNCHANGED <<action, rejoin, local>>
  /\ state.stage = "replay" /\ state.next \in Nat /\ state.next > state.end
  /\ state.end \in 0 .. Len(log)
  /\ state'.stage = "live" /\ state'.next = Len(log) + 1
  /\ Passes(history', state.end + 1 .. Len(log))

(* Follow. *)
LEMMA FollowDoes ==
  ASSUME Shape, Follow
  PROVE  IsFollow /\ Shape'
<1>1. /\ match' = match /\ log' = log /\ local' = local /\ action' = action /\ rejoin' = rejoin
      /\ state.stage = "replay" /\ state.next > state.end
      /\ state' = [stage |-> "live", next |-> Len(log) + 1]
      /\ history' = PassedOver(history, state.end + 1 .. Len(log))
  BY DEF Follow
<1>2. Passes(history', state.end + 1 .. Len(log))
  <2>. DEFINE S == state.end + 1 .. Len(log)
              h == history'
  <2>1. h = PassedOver(history, S)
    BY <1>1
  <2>. HIDE DEF S, h
  <2>2. /\ h \in [for : Players, upto : Nat, again : BOOLEAN, astray : Nat, missed : BOOLEAN,
                  answered : BOOLEAN, ghosts : SUBSET Nat, losses : Nat]
        /\ h.for = history.for /\ h.upto = history.upto /\ h.again = history.again
        /\ h.astray = IF S = {} THEN history.astray ELSE Len(log)
        /\ h.answered = history.answered /\ h.ghosts = history.ghosts
        /\ history.missed => h.missed
        /\ match.awaiting \in S => h.missed
    BY <2>1, PassedDoes
  <2>3. HistoryTyped'
    BY <2>2 DEF HistoryTyped, h
  <2>. QED
    BY <2>2, <2>3 DEF Passes, S, h
<1>3. Still
  BY <1>1, <1>2 DEF Still, Passes
<1>4. state.next \in 1 .. Len(log) + 1 /\ state.end \in 0 .. Len(log)
  BY <1>1 DEF Shape, StreamsFit, StateFits
<1>5. IsFollow
  BY <1>1, <1>2, <1>3, <1>4 DEF IsFollow
<1>6. StreamsFit'
  <2>1. StateFits(state', Len(log))
    BY <1>1, ShapeNumbers DEF StateFits
  <2>. QED
    BY <1>1, <2>1 DEF Shape, StreamsFit
<1>7. ClientFits'
  <2>1. history'.upto <= Len(log) /\ history'.astray <= Len(log)
    BY <1>2, ShapeNumbers DEF Passes, Shape, ClientFits
  <2>. QED
    BY <1>1, <2>1 DEF Shape, ClientFits
<1>. QED
  BY <1>3, <1>5, <1>6, <1>7, SameFits, StillSame

IsAnswerRejoin ==
  /\ Still /\ UNCHANGED <<action, state, local>> /\ history' = history
  /\ rejoin.stage = "asked"
  /\ \/ rejoin'.stage = "none"
     \/ rejoin'.stage = "answered" /\ rejoin'.view = Snapshot(Me) /\ rejoin'.upto = Len(log)

(* AnswerRejoin. *)
LEMMA AnswerRejoinDoes ==
  ASSUME Shape, AnswerRejoin
  PROVE  IsAnswerRejoin /\ Shape'
<1>. DEFINE v == Snapshot(Me)
<1>1. /\ match' = match /\ log' = log /\ local' = local /\ action' = action /\ state' = state
      /\ history' = history /\ rejoin.stage = "asked"
      /\ rejoin' = IF match.over THEN [stage |-> "none"]
                   ELSE [stage |-> "answered", view |-> v, upto |-> Len(log)]
  BY DEF AnswerRejoin, NoAnswer
<1>2. ShowsTo(v, match.entries)
  BY SnapshotMirrors DEF Players, Shape, Mirrors
<1>. HIDE DEF v
<1>3. Still
  BY <1>1 DEF Still, Shape, HistoryTyped
<1>4. IsAnswerRejoin
  BY <1>1, <1>3 DEF IsAnswerRejoin, v
<1>5. StreamsFit'
  <2>1. RejoinFits(rejoin', match.entries, Len(log))
    BY <1>1, <1>2, ShapeNumbers DEF RejoinFits, ShowsTo
  <2>. QED
    BY <1>1, <2>1 DEF Shape, StreamsFit
<1>6. ClientFits'
  BY <1>1 DEF Shape, ClientFits
<1>. QED
  BY <1>3, <1>4, <1>5, <1>6, SameFits, StillSame

\* The client shows the view v and is otherwise as it was.
Turns(c, v) ==
  /\ c.view = v /\ c.has = TRUE /\ c.prompt = local.prompt /\ c.last = local.last
  /\ c.over = local.over

(* A snapshot that is shown. *)
LEMMA TurnsFits ==
  ASSUME Shape, NEW v, ShowsTo(v, match.entries), NEW c,
         c = [local EXCEPT !.view = v, !.has = TRUE]
  PROVE  Turns(c, v) /\ LocalFits(c, match.entries, Len(log))
BY DEF Shape, ClientFits, LocalFits, ShowsTo, Turns

(* What an own snapshot makes of the history. *)
LEMMA ShownResets ==
  ASSUME Shape, NEW n \in 0 .. Len(log), NEW h, h = Shown(history, Me, n)
  PROVE  /\ h \in [for : Players, upto : Nat, again : BOOLEAN, astray : Nat, missed : BOOLEAN,
                   answered : BOOLEAN, ghosts : SUBSET Nat, losses : Nat]
         /\ h.for = Me /\ h.upto = n /\ h.again = FALSE
         /\ h.astray = IF n >= history.astray THEN 0 ELSE history.astray
         /\ h.missed = history.missed /\ h.answered = history.answered
         /\ h.ghosts = history.ghosts
<1>1. Me \in Players /\ n \in Nat
  BY ShapeNumbers DEF Players
<1>. QED
  BY <1>1 DEF Shown, Shape, HistoryTyped

IsReceiveSnapshot ==
  /\ Still /\ UNCHANGED <<state, rejoin>> /\ Turns(local', action.view)
  /\ action.stage = "snapshot" /\ action'.stage = "live" /\ action'.next = action.next
  /\ action.next \in 1 .. Len(log) + 1
  /\ action.upto \in 0 .. Len(log) /\ action.next <= action.upto + 1
  /\ Resets(history', action.upto)

(* ReceiveSnapshot. *)
LEMMA ReceiveSnapshotDoes ==
  ASSUME Shape, ReceiveSnapshot
  PROVE  IsReceiveSnapshot /\ Shape'
<1>1. /\ match' = match /\ log' = log /\ state' = state /\ rejoin' = rejoin
      /\ action.stage = "snapshot" /\ action' = [stage |-> "live", next |-> action.next]
      /\ local' = [local EXCEPT !.view = action.view, !.has = TRUE]
      /\ history' = Shown(history, Me, action.upto)
  BY DEF ReceiveSnapshot
<1>2. /\ action.next \in 1 .. Len(log) + 1 /\ ShowsTo(action.view, match.entries)
      /\ action.upto \in 0 .. Len(log) /\ action.next <= action.upto + 1
  BY <1>1 DEF Shape, StreamsFit, ActionFits
<1>3. Resets(history', action.upto)
  BY <1>1, <1>2, ShownResets DEF Resets, HistoryTyped
<1>4. Still
  BY <1>1, <1>3 DEF Still, Resets
<1>5. Turns(local', action.view) /\ LocalFits(local', match.entries, Len(log))
  BY <1>1, <1>2, TurnsFits
<1>6. IsReceiveSnapshot
  BY <1>1, <1>2, <1>3, <1>4, <1>5 DEF IsReceiveSnapshot
<1>7. StreamsFit'
  <2>1. ActionFits(action', match.entries, Len(log))
    BY <1>1, <1>2 DEF ActionFits
  <2>. QED
    BY <1>1, <2>1 DEF Shape, StreamsFit
<1>8. ClientFits'
  <2>1. history'.upto <= Len(log) /\ history'.astray <= Len(log)
    BY <1>2, <1>3, ShapeNumbers DEF Resets, Shape, ClientFits
  <2>. QED
    BY <1>1, <1>5, <2>1 DEF Shape, ClientFits, Turns
<1>. QED
  BY <1>4, <1>6, <1>7, <1>8, SameFits, StillSame

IsReceiveRejoin ==
  /\ Still /\ UNCHANGED <<action, state>> /\ Turns(local', rejoin.view)
  /\ rejoin.stage = "answered" /\ rejoin'.stage = "none" /\ rejoin.upto \in 0 .. Len(log)
  /\ \/ /\ local.last <= rejoin.upto /\ history.upto <= rejoin.upto
        /\ Resets(history', rejoin.upto)
     \/ history'.astray = Len(log) /\ history'.astray # 0
  /\ history'.missed = history.missed /\ history'.answered = history.answered
  /\ history'.upto = rejoin.upto

(* ReceiveRejoin. *)
LEMMA ReceiveRejoinDoes ==
  ASSUME Shape, ReceiveRejoin
  PROVE  IsReceiveRejoin /\ Shape'
<1>. DEFINE h == Shown(history, Me, rejoin.upto)
<1>1. /\ match' = match /\ log' = log /\ state' = state /\ action' = action
      /\ rejoin.stage = "answered" /\ rejoin' = [stage |-> "none"]
      /\ local' = [local EXCEPT !.view = rejoin.view, !.has = TRUE]
      /\ history' = IF {local.last, history.upto} \subseteq 0 .. rejoin.upto
                    THEN h ELSE [h EXCEPT !.astray = Len(log)]
  BY DEF ReceiveRejoin, NoAnswer
<1>2. ShowsTo(rejoin.view, match.entries) /\ rejoin.upto \in 0 .. Len(log)
  BY <1>1 DEF Shape, StreamsFit, RejoinFits
<1>3. /\ h \in [for : Players, upto : Nat, again : BOOLEAN, astray : Nat, missed : BOOLEAN,
                answered : BOOLEAN, ghosts : SUBSET Nat, losses : Nat]
      /\ h.for = Me /\ h.upto = rejoin.upto /\ h.again = FALSE
      /\ h.astray = IF rejoin.upto >= history.astray THEN 0 ELSE history.astray
      /\ h.missed = history.missed /\ h.answered = history.answered
      /\ h.ghosts = history.ghosts
  BY <1>2, ShownResets
<1>. HIDE DEF h
<1>4. local.last \in Nat /\ history.upto \in Nat /\ Len(log) \in Nat
      /\ local.last <= Len(log) /\ history.upto <= Len(log) /\ history.astray <= Len(log)
  BY ShapeNumbers DEF Shape, ClientFits
<1>5. /\ HistoryTyped' /\ history'.astray <= Len(log) /\ history'.upto = rejoin.upto
      /\ history'.missed = history.missed /\ history'.answered = history.answered
      /\ history'.ghosts = history.ghosts
      /\ \/ /\ local.last <= rejoin.upto /\ history.upto <= rejoin.upto
            /\ Resets(history', rejoin.upto)
         \/ history'.astray = Len(log) /\ history'.astray # 0
  <2>1. CASE local.last <= rejoin.upto /\ history.upto <= rejoin.upto
    <3>1. history' = h
      BY <1>1, <1>2, <1>4, <2>1
    <3>2. Resets(history', rejoin.upto)
      BY <1>3, <3>1 DEF Resets, HistoryTyped
    <3>3. history'.astray <= Len(log)
      BY <1>3, <1>4, <3>1
    <3>. QED
      BY <1>3, <2>1, <3>1, <3>2, <3>3 DEF Resets
  <2>2. CASE ~(local.last <= rejoin.upto /\ history.upto <= rejoin.upto)
    <3>1. history' = [h EXCEPT !.astray = Len(log)]
      BY <1>1, <1>2, <1>4, <2>2
    <3>2. Len(log) # 0
      BY <1>2, <1>4, <2>2
    <3>3. /\ HistoryTyped' /\ history'.astray = Len(log) /\ history'.upto = rejoin.upto
          /\ history'.missed = history.missed /\ history'.answered = history.answered
          /\ history'.ghosts = history.ghosts
      BY <1>3, <1>4, <3>1 DEF HistoryTyped
    <3>. QED
      BY <1>4, <3>2, <3>3
  <2>. QED
    BY <2>1, <2>2
<1>6. Still
  BY <1>1, <1>5 DEF Still
<1>7. Turns(local', rejoin.view) /\ LocalFits(local', match.entries, Len(log))
  BY <1>1, <1>2, TurnsFits
<1>8. IsReceiveRejoin
  BY <1>1, <1>2, <1>5, <1>6, <1>7 DEF IsReceiveRejoin
<1>9. StreamsFit'
  <2>1. RejoinFits(rejoin', match.entries, Len(log))
    BY <1>1 DEF RejoinFits
  <2>. QED
    BY <1>1, <2>1 DEF Shape, StreamsFit
<1>10. ClientFits'
  <2>1. history'.upto <= Len(log)
    BY <1>2, <1>5
  <2>. QED
    BY <1>1, <1>5, <1>7, <2>1 DEF Shape, ClientFits, Turns
<1>. QED
  BY <1>6, <1>8, <1>9, <1>10, SameFits, StillSame

\* The history after the n-th event has come in.
Learns(h, e, n) ==
  /\ HistoryTyped' /\ h.ghosts = history.ghosts
  /\ h.missed = history.missed /\ h.answered = history.answered
  /\ \/ e.kind = "snapshot" /\ e.for = Me /\ Resets(h, n)
     \/ /\ e.kind = "snapshot" /\ e.for # Me /\ h.for = e.for /\ h.again = TRUE
        /\ h.upto = history.upto /\ h.astray = history.astray
     \/ /\ e.kind # "snapshot" /\ h.for = history.for /\ h.upto = history.upto
        /\ h.astray = history.astray
        /\ h.again \/ (~history.again /\ n > local.last /\ n > history.upto /\ Me \in e.to)

(* What an event makes of the history. *)
LEMMA ShowLearns ==
  ASSUME Shape, NEW n \in 1 .. Len(log), NEW e, e = log[n], history' = Learnt(history, e, n)
  PROVE  Learns(history', e, n)
<1>1. Fits(e, match.entries)
  BY DEF Shape, LogFits
<1>2. n \in 0 .. Len(log) /\ n \in Nat /\ local.last \in Nat /\ history.upto \in Nat
  BY ShapeNumbers
<1>3. CASE e.kind = "snapshot" /\ e.for = Me
  <2>1. history' = Shown(history, Me, n)
    BY <1>3 DEF Learnt
  <2>2. Resets(history', n)
    BY <1>2, <2>1, ShownResets DEF Resets, HistoryTyped
  <2>. QED
    BY <1>3, <2>2 DEF Learns, Resets
<1>4. CASE e.kind = "snapshot" /\ e.for # Me
  <2>1. e.for \in Players
    BY <1>1, <1>4 DEF Fits
  <2>2. history' = [history EXCEPT !.for = e.for, !.again = TRUE]
    BY <1>4 DEF Learnt, Shown
  <2>. QED
    BY <1>4, <2>1, <2>2 DEF Learns, Shape, HistoryTyped
<1>5. CASE e.kind # "snapshot"
  <2>. DEFINE twice == n <= local.last \/ n <= history.upto \/ Me \notin e.to
  <2>1. history' = [history EXCEPT !.again = history.again \/ twice]
    BY <1>5 DEF Learnt
  <2>2. HistoryTyped' /\ history'.for = history.for /\ history'.upto = history.upto
        /\ history'.astray = history.astray /\ history'.ghosts = history.ghosts
        /\ history'.missed = history.missed /\ history'.answered = history.answered
    BY <2>1 DEF Shape, HistoryTyped
  <2>3. history'.again \/ (~history.again /\ ~twice)
    BY <2>1 DEF Shape, HistoryTyped
  <2>4. history'.again
        \/ (~history.again /\ n > local.last /\ n > history.upto /\ Me \in e.to)
    BY <1>2, <2>3
  <2>. QED
    BY <1>5, <2>2, <2>4 DEF Learns
<1>. QED
  BY <1>3, <1>4, <1>5

\* The n-th event has come in and is shown.
IsShow(n) ==
  /\ Still /\ rejoin' = rejoin /\ n \in 1 .. Len(log)
  /\ LocalFits(local', match.entries, Len(log))
  /\ local'.last = IF n > local.last THEN n ELSE local.last
  /\ local'.prompt = IF log[n].kind = "action_prompt" THEN n ELSE local.prompt
  /\ local'.over <=> local.over \/ log[n].kind = "game_over"
  /\ local.has => local'.has
  /\ local.has \/ log[n].kind = "snapshot" =>
       Sees(local'.view, local.view, log[n], match.entries)
         /\ local'.view = Applied(local.view, log[n])
  /\ Learns(history', log[n], n)

(* Show. *)
LEMMA ShowDoes ==
  ASSUME Shape, NEW n \in 1 .. Len(log), Show(n)
  PROVE  IsShow(n)
<1>. DEFINE e == log[n]
            w == IF local.has \/ e.kind = "snapshot" THEN Applied(local.view, e) ELSE local.view
            has == local.has \/ e.kind = "snapshot"
            prompt == IF e.kind = "action_prompt" THEN n ELSE local.prompt
            over == local.over \/ e.kind = "game_over"
            last == IF n > local.last THEN n ELSE local.last
<1>1. /\ match' = match /\ log' = log /\ rejoin' = rejoin
      /\ history' = Learnt(history, e, n)
  BY DEF Show
<1>2. local' = [local EXCEPT !.view = w, !.has = has, !.prompt = prompt, !.over = over,
                             !.last = last]
  BY DEF Show, AfterEvent
<1>3. Sees(Applied(local.view, e), local.view, e, match.entries)
  BY ShapeNumbers, SeesEvent DEF Shape, LogFits
<1>4. ShowsTo(w, match.entries)
  BY <1>3, ShapeNumbers DEF Sees
<1>5. w \in ViewsTo(match.entries) /\ has \in BOOLEAN /\ over \in BOOLEAN
      /\ prompt \in 0 .. Len(log) /\ last \in 0 .. Len(log)
  BY <1>4, ShapeNumbers DEF ShowsTo
<1>6. Learns(history', e, n)
  BY <1>1, ShowLearns
<1>7. Still
  BY <1>1, <1>6 DEF Still, Learns
<1>. HIDE DEF w, has, prompt, over, last
<1>8. /\ local' \in [view : ViewsTo(match.entries), has : BOOLEAN, prompt : 0 .. Len(log),
                     last : 0 .. Len(log), over : BOOLEAN]
      /\ local'.view = w /\ local'.prompt = prompt /\ local'.last = last
  BY <1>2, <1>5 DEF Shape, ClientFits, LocalFits
<1>9. (local'.has <=> has) /\ (local'.over <=> over)
  BY <1>2, <1>5 DEF Shape, ClientFits, LocalFits
<1>10. LocalFits(local', match.entries, Len(log))
  BY <1>4, <1>8 DEF LocalFits
<1>11. local.has \/ e.kind = "snapshot" =>
         Sees(local'.view, local.view, e, match.entries) /\ local'.view = Applied(local.view, e)
  BY <1>3, <1>8 DEF w
<1>. QED
  BY <1>1, <1>6, <1>7, <1>8, <1>9, <1>10, <1>11 DEF IsShow, has, prompt, over, last

(* Where an event is shown, the client stays in shape. *)
LEMMA ShowFits ==
  ASSUME Shape, NEW n, IsShow(n), action'.stage = "live" => action.stage = "live"
  PROVE  ClientFits'
<1>1. /\ match' = match /\ log' = log /\ n \in 1 .. Len(log)
      /\ LocalFits(local', match.entries, Len(log))
  BY DEF IsShow, Still
<1>2. local'.prompt # 0 => log[local'.prompt].kind = "action_prompt"
  BY DEF IsShow, Shape, ClientFits
<1>3. history'.upto <= Len(log) /\ history'.astray <= Len(log)
  BY <1>1, ShapeNumbers DEF IsShow, Learns, Resets, Shape, ClientFits
<1>4. action'.stage = "live" => local'.has
  BY DEF IsShow, Shape, ClientFits
<1>. QED
  BY <1>1, <1>2, <1>3, <1>4 DEF Shape, ClientFits

IsReceiveAction(n) ==
  /\ IsShow(n) /\ state' = state /\ Me \in log[n].to
  /\ action.stage = "live" /\ action.next \in 1 .. Len(log) + 1 /\ n >= action.next
  /\ \A m \in action.next .. n - 1 : Me \notin log[m].to
  /\ action'.stage = "live" /\ action'.next = n + 1

(* ReceiveAction. *)
LEMMA ReceiveActionDoes ==
  ASSUME Shape, ReceiveAction
  PROVE  Shape' /\ \E n \in 1 .. Len(log) : IsReceiveAction(n)
<1>1. /\ action.stage = "live" /\ state' = state
  BY DEF ReceiveAction
<1>2. PICK n \in action.next .. Len(log) :
        /\ Me \in log[n].to
        /\ \A m \in action.next .. n - 1 : Me \notin log[m].to
        /\ action' = [action EXCEPT !.next = n + 1]
        /\ Show(n)
  BY DEF ReceiveAction
<1>3. action \in [stage : {"subscribed", "live"}, next : 1 .. Len(log) + 1]
  BY <1>1 DEF Shape, StreamsFit, ActionFits
<1>4. action.next \in 1 .. Len(log) + 1 /\ n \in 1 .. Len(log) /\ n >= action.next
  BY <1>2, <1>3, ShapeNumbers
<1>5. IsShow(n)
  BY <1>2, <1>4, ShowDoes
<1>6. action' \in [stage : {"subscribed", "live"}, next : 1 .. Len(log) + 1]
      /\ action'.stage = "live" /\ action'.next = n + 1
  BY <1>1, <1>2, <1>3, <1>4, ShapeNumbers
<1>7. IsReceiveAction(n)
  BY <1>1, <1>2, <1>4, <1>5, <1>6 DEF IsReceiveAction
<1>8. Still /\ rejoin' = rejoin
  BY <1>5 DEF IsShow
<1>9. StreamsFit'
  <2>1. ActionFits(action', match.entries, Len(log))
    BY <1>6 DEF ActionFits
  <2>. QED
    BY <1>1, <1>8, <2>1 DEF Shape, StreamsFit, Still
<1>10. ClientFits'
  BY <1>1, <1>5, ShowFits
<1>. QED
  BY <1>4, <1>7, <1>8, <1>9, <1>10, SameFits, StillSame

IsReceiveState(n) ==
  /\ IsShow(n) /\ action' = action
  /\ state.stage \in {"replay", "live"} /\ state.next = n
  /\ state'.stage = state.stage /\ state'.next = n + 1

(* ReceiveState. *)
LEMMA ReceiveStateDoes ==
  ASSUME Shape, ReceiveState
  PROVE  Shape' /\ \E n \in 1 .. Len(log) : IsReceiveState(n)
<1>1. /\ \/ state.stage = "replay" /\ state.next <= state.end
         \/ state.stage = "live" /\ state.next <= Len(log)
      /\ action' = action /\ state' = [state EXCEPT !.next = @ + 1] /\ Show(state.next)
  BY DEF ReceiveState
<1>2. \/ state \in [stage : {"replay"}, next : 1 .. Len(log) + 1, end : 0 .. Len(log)]
      \/ state \in [stage : {"live"}, next : 1 .. Len(log) + 1]
  BY <1>1 DEF Shape, StreamsFit, StateFits
<1>3. PICK n \in 1 .. Len(log) : n = state.next
  BY <1>1, <1>2, ShapeNumbers
<1>4. IsShow(n)
  BY <1>1, <1>3, ShowDoes
<1>5. /\ state'.stage = state.stage /\ state'.next = n + 1
      /\ StateFits(state', Len(log))
  BY <1>1, <1>2, <1>3, ShapeNumbers DEF StateFits
<1>6. IsReceiveState(n)
  BY <1>1, <1>3, <1>4, <1>5 DEF IsReceiveState
<1>7. Still /\ rejoin' = rejoin
  BY <1>4 DEF IsShow
<1>8. StreamsFit'
  BY <1>1, <1>5, <1>7 DEF Shape, StreamsFit, Still
<1>9. ClientFits'
  BY <1>1, <1>4, ShowFits
<1>. QED
  BY <1>6, <1>7, <1>8, <1>9, SameFits, StillSame

IsLoseAction ==
  /\ Still /\ UNCHANGED <<state, rejoin, local>> /\ Misses(history')
  /\ action.stage # "none" /\ action'.stage = "none"
  /\ Displaced => history'.missed

(* LoseAction. *)
LEMMA LoseActionDoes ==
  ASSUME Shape, LoseAction
  PROVE  IsLoseAction /\ Shape'
<1>. DEFINE d == Displaced
<1>1. /\ match' = match /\ log' = log /\ local' = local /\ state' = state /\ rejoin' = rejoin
      /\ action.stage # "none" /\ action' = [stage |-> "none"]
      /\ history' = [history EXCEPT !.losses = @ + 1, !.missed = @ \/ d]
      /\ d \in BOOLEAN
  BY DEF LoseAction, Gone, NoReader, Displaced
<1>. HIDE DEF d
<1>2. Misses(history') /\ (d => history'.missed)
  <2>1. CASE d = TRUE
    <3>1. history' = [history EXCEPT !.losses = @ + 1, !.missed = TRUE]
      BY <1>1, <2>1 DEF Shape, HistoryTyped
    <3>. DEFINE H == [for : Players, upto : Nat, again : BOOLEAN, astray : Nat, missed : BOOLEAN,
                      answered : BOOLEAN, ghosts : SUBSET Nat, losses : Nat]
    <3>2. history \in H /\ history.losses + 1 \in Nat
      BY DEF Shape, HistoryTyped
    <3>3. [history EXCEPT !.losses = history.losses + 1, !.missed = TRUE] \in H
      BY <3>2
    <3>4. HistoryTyped'
      BY <3>1, <3>3 DEF HistoryTyped
    <3>5. history'.missed = TRUE
      BY <3>1 DEF Shape, HistoryTyped
    <3>6. /\ history'.for = history.for /\ history'.upto = history.upto
          /\ history'.again = history.again
          /\ history'.astray = history.astray /\ history'.answered = history.answered
          /\ history'.ghosts = history.ghosts
      BY <3>1 DEF Shape, HistoryTyped
    <3>. QED
      BY <3>4, <3>5, <3>6 DEF Misses
  <2>2. CASE d = FALSE
    <3>1. history' = [history EXCEPT !.losses = @ + 1]
      BY <1>1, <2>2 DEF Shape, HistoryTyped
    <3>. QED
      BY <2>2, <3>1 DEF Shape, HistoryTyped, Misses
  <2>. QED
    BY <1>1, <2>1, <2>2
<1>3. Still
  BY <1>1, <1>2 DEF Still, Misses
<1>4. IsLoseAction
  BY <1>1, <1>2, <1>3 DEF IsLoseAction, d
<1>5. StreamsFit'
  <2>1. ActionFits(action', match.entries, Len(log))
    BY <1>1 DEF ActionFits
  <2>. QED
    BY <1>1, <2>1 DEF Shape, StreamsFit
<1>6. ClientFits'
  BY <1>1, <1>2 DEF Shape, ClientFits, Misses
<1>. QED
  BY <1>3, <1>4, <1>5, <1>6, SameFits, StillSame

\* The first event that a state stream still has to bring.
Due == IF state.stage = "opened" THEN state.since + 1 ELSE state.next

IsLoseState ==
  /\ Still /\ UNCHANGED <<action, rejoin, local>>
  /\ state.stage # "none" /\ state'.stage = "none"
  /\ Due \in 1 .. Len(log) + 1
  /\ Passes(history', Due .. Len(log))

(* LoseState. *)
LEMMA LoseStateDoes ==
  ASSUME Shape, LoseState
  PROVE  IsLoseState /\ Shape'
<1>. DEFINE S == Due .. Len(log)
            h == PassedOver(history, S)
<1>1. /\ match' = match /\ log' = log /\ local' = local /\ action' = action /\ rejoin' = rejoin
      /\ state.stage # "none" /\ state' = [stage |-> "none"]
      /\ history' = [h EXCEPT !.losses = @ + 1]
  BY DEF LoseState, Gone, NoReader, Due
<1>. HIDE DEF S
<1>2. /\ h \in [for : Players, upto : Nat, again : BOOLEAN, astray : Nat, missed : BOOLEAN,
                answered : BOOLEAN, ghosts : SUBSET Nat, losses : Nat]
      /\ h.for = history.for /\ h.upto = history.upto /\ h.again = history.again
      /\ h.astray = IF S = {} THEN history.astray ELSE Len(log)
      /\ h.answered = history.answered /\ h.ghosts = history.ghosts
      /\ history.missed => h.missed
      /\ match.awaiting \in S => h.missed
  BY PassedDoes
<1>. HIDE DEF h
<1>3. /\ HistoryTyped'
      /\ history'.for = h.for /\ history'.upto = h.upto /\ history'.again = h.again
      /\ history'.astray = h.astray /\ history'.answered = h.answered
      /\ history'.ghosts = h.ghosts /\ history'.missed = h.missed
  BY <1>1, <1>2 DEF HistoryTyped
<1>4. Passes(history', S)
  BY <1>2, <1>3 DEF Passes
<1>5. Still
  BY <1>1, <1>4 DEF Still, Passes
<1>6. Due \in 1 .. Len(log) + 1
  BY <1>1, ShapeNumbers DEF Shape, StreamsFit, StateFits, Due
<1>7. IsLoseState
  BY <1>1, <1>4, <1>5, <1>6 DEF IsLoseState, S
<1>8. StreamsFit'
  <2>1. StateFits(state', Len(log))
    BY <1>1 DEF StateFits
  <2>. QED
    BY <1>1, <2>1 DEF Shape, StreamsFit
<1>9. ClientFits'
  <2>1. history'.upto <= Len(log) /\ history'.astray <= Len(log)
    BY <1>4, ShapeNumbers DEF Passes, Shape, ClientFits
  <2>. QED
    BY <1>1, <2>1 DEF Shape, ClientFits
<1>. QED
  BY <1>5, <1>7, <1>8, <1>9, SameFits, StillSame

IsStop ==
  /\ Still /\ UNCHANGED <<rejoin, local>> /\ history' = history /\ local.over
  /\ action'.stage = "none" /\ state'.stage = "none"

(* Stop. *)
LEMMA StopDoes ==
  ASSUME Shape, Stop
  PROVE  IsStop /\ Shape'
<1>1. /\ match' = match /\ log' = log /\ local' = local /\ rejoin' = rejoin
      /\ history' = history /\ local.over
      /\ action' = [stage |-> "none"] /\ state' = [stage |-> "none"]
  BY DEF Stop, NoReader
<1>2. Still
  BY <1>1 DEF Still, Shape, HistoryTyped
<1>3. IsStop
  BY <1>1, <1>2 DEF IsStop
<1>4. StreamsFit'
  <2>1. ActionFits(action', match.entries, Len(log)) /\ StateFits(state', Len(log))
    BY <1>1 DEF ActionFits, StateFits
  <2>. QED
    BY <1>1, <2>1 DEF Shape, StreamsFit
<1>5. ClientFits'
  BY <1>1 DEF Shape, ClientFits
<1>. QED
  BY <1>2, <1>3, <1>4, <1>5, SameFits, StillSame

IsAnswer ==
  /\ SameGame /\ UNCHANGED <<action, state, rejoin>> /\ local.prompt # 0
  /\ local'.view = local.view /\ local'.has = local.has /\ local'.last = local.last
  /\ local'.over = local.over /\ local'.prompt \in {0, local.prompt}
  /\ history'.for = history.for /\ history'.upto = history.upto
  /\ history'.again = history.again /\ history'.astray = history.astray
  /\ history'.missed = history.missed /\ (history.answered => history'.answered)
  /\ local.prompt = match.awaiting => local'.prompt = local.prompt \/ history'.answered

(* Answer. *)
LEMMA AnswerDoes ==
  ASSUME Shape, Answer
  PROVE  IsAnswer /\ Shape'
<1>. DEFINE written == ~Gone(action)
            hit == written /\ local.prompt = match.awaiting
<1>1. /\ local.prompt # 0 /\ log' = log /\ action' = action /\ state' = state /\ rejoin' = rejoin
      /\ local' = IF written THEN [local EXCEPT !.prompt = 0] ELSE local
      /\ history' = [history EXCEPT !.answered = @ \/ hit]
      /\ match' = match \/ match' = [match EXCEPT !.awaiting = 0]
  BY DEF Answer, Clear
<1>2. match' \in Games /\ SameTable(match') /\ match'.awaiting \in {0, match.awaiting}
      /\ match'.over = match.over
  BY <1>1 DEF Shape, GameFits, Games, SameTable
<1>3. /\ HistoryTyped' /\ history'.for = history.for /\ history'.upto = history.upto
      /\ history'.again = history.again /\ history'.astray = history.astray
      /\ history'.missed = history.missed /\ history'.ghosts = history.ghosts
      /\ history.answered => history'.answered
      /\ hit => history'.answered
  BY <1>1 DEF Shape, HistoryTyped
<1>4. SameGame
  BY <1>1, <1>2, <1>3 DEF SameGame
<1>5. /\ LocalFits(local', match.entries, Len(log)) /\ local'.prompt \in {0, local.prompt}
      /\ local'.view = local.view /\ local'.has = local.has /\ local'.last = local.last
      /\ local'.over = local.over
      /\ written \/ local'.prompt = local.prompt
  BY <1>1, ShapeNumbers DEF Shape, ClientFits, LocalFits
<1>6. IsAnswer
  BY <1>1, <1>3, <1>4, <1>5 DEF IsAnswer
<1>7. match'.entries = match.entries
  BY <1>2 DEF SameTable
<1>8. StreamsFit'
  BY <1>1, <1>7 DEF Shape, StreamsFit
<1>9. ClientFits'
  <2>1. match'.awaiting <= Len(log)
    BY <1>2, ShapeNumbers DEF Shape, ClientFits
  <2>. QED
    BY <1>1, <1>3, <1>5, <1>7, <2>1 DEF Shape, ClientFits
<1>. QED
  BY <1>4, <1>6, <1>8, <1>9, SameFits

-----------------------------------------------------------------------------
(* What the log tells of the game *)

ForMe(n) == Me \in log[n].to

\* From the f-th event on nothing false is told of m.
Final(f, m) ==
  /\ f \in 1 .. Len(log) /\ Touches(log[f], m)
  /\ \A g \in f .. Len(log) : Right(log[g], m, match)

\* After every event that m follows comes a final one.
LogTells ==
  \A m \in Told : \A n \in 1 .. Len(log) :
    Touches(log[n], m) => \E f \in n .. Len(log) : Final(f, m) /\ (f = n \/ ForMe(f))

\* A snapshot that accounts for upto events shows what is so, or is followed by a
\* final event.
SnapTells(v, upto) ==
  \A m \in Told : (Has(v, m) <=> RealIn(match, m))
                  \/ \E f \in upto + 1 .. Len(log) : Final(f, m) /\ ForMe(f)

SnapsTell ==
  /\ action.stage = "snapshot" => SnapTells(action.view, action.upto)
  /\ rejoin.stage = "answered" => SnapTells(rejoin.view, rejoin.upto)

\* A stream will bring the f-th event.
Coming(f) ==
  \/ action.stage = "live" /\ f >= action.next
  \/ state.stage = "opened" /\ f > state.since
  \/ state.stage \in {"replay", "live"} /\ f >= state.next

\* The view shows what is so, or a final event is under way.
ViewTells ==
  action.stage = "live" /\ history.astray = 0 =>
    \A m \in Told : (m.of = "hand" => history.for = Me) =>
      \/ Has(local.view, m) <=> RealIn(match, m)
      \/ \E f \in 1 .. Len(log) : Final(f, m) /\ ForMe(f) /\ Coming(f)

\* Every event after all that is known is under way.
Reach ==
  action.stage = "live" =>
    \A f \in 1 .. Len(log) :
      ForMe(f) /\ f > local.last /\ f > history.upto /\ f > history.astray => Coming(f)

Tells == LogTells /\ SnapsTell /\ ViewTells /\ Reach

\* Nothing new is told of m, or nothing false.
Steady(m) ==
  /\ RealIn(match', m) <=> RealIn(match, m)
  /\ \A f \in 1 .. Len(log) : Final(f, m) => Final(f, m)'
  /\ \A n \in Len(log) + 1 .. Len(log') : Right(log'[n], m, match')

\* A new event is the final one.
Anew(m) ==
  \E f \in Len(log) + 1 .. Len(log') : /\ Final(f, m)' /\ ForMe(f)'

(* Every fact is steady in a step of the game, or finally told anew. *)
LEMMA FinalGrows ==
  ASSUME Shape, NEW k, OnlyGrows(k), NEW m \in Told'
  PROVE  m \in Told /\ (Steady(m) \/ Anew(m))
<1>1. /\ k \in 0 .. 2 /\ Len(log) \in Nat /\ Len(log') = Len(log) + k
      /\ \A n \in 1 .. Len(log) : log'[n] = log[n]
  BY DEF OnlyGrows, Longer
<1>2. m \in Told
  BY DEF OnlyGrows, Told
<1>3. TellsOf(m, k)
  BY DEF OnlyGrows
<1>4. CASE /\ RealIn(match', m) <=> RealIn(match, m)
           /\ \A i \in 1 .. k : Right(log'[Len(log) + i], m, match')
  <2>1. \A n \in Len(log) + 1 .. Len(log') : Right(log'[n], m, match')
    <3>1. SUFFICES ASSUME NEW n \in Len(log) + 1 .. Len(log')
                   PROVE  Right(log'[n], m, match')
      OBVIOUS
    <3>2. PICK i \in 1 .. k : n = Len(log) + i
      BY <1>1
    <3>. QED
      BY <1>4, <3>2
  <2>2. \A e : Right(e, m, match') <=> Right(e, m, match)
    BY <1>4 DEF Right
  <2>3. ASSUME NEW f \in 1 .. Len(log), Final(f, m)
        PROVE  Final(f, m)'
    <3>1. f \in 1 .. Len(log') /\ Touches(log'[f], m)
      BY <1>1, <2>3 DEF Final
    <3>2. ASSUME NEW g \in f .. Len(log')
          PROVE  Right(log'[g], m, match')
      <4>1. CASE g <= Len(log)
        BY <1>1, <2>2, <2>3, <4>1 DEF Final
      <4>2. CASE g > Len(log)
        BY <1>1, <2>1, <4>2
      <4>. QED
        BY <1>1, <4>1, <4>2
    <3>. QED
      BY <3>1, <3>2 DEF Final
  <2>. QED
    BY <1>2, <1>4, <2>1, <2>3 DEF Steady
<1>5. CASE \E i \in 1 .. k :
             /\ Touches(log'[Len(log) + i], m) /\ Me \in log'[Len(log) + i].to
             /\ \A j \in i .. k : Right(log'[Len(log) + j], m, match')
  <2>1. PICK i \in 1 .. k :
          /\ Touches(log'[Len(log) + i], m) /\ Me \in log'[Len(log) + i].to
          /\ \A j \in i .. k : Right(log'[Len(log) + j], m, match')
    BY <1>5
  <2>2. PICK f \in Len(log) + 1 .. Len(log') : f = Len(log) + i
    BY <1>1
  <2>3. f \in 1 .. Len(log')
    BY <1>1
  <2>4. ASSUME NEW g \in f .. Len(log')
        PROVE  Right(log'[g], m, match')
    <3>1. PICK j \in i .. k : g = Len(log) + j
      BY <1>1, <2>2
    <3>. QED
      BY <2>1, <3>1
  <2>5. Final(f, m)'
    BY <2>1, <2>2, <2>3, <2>4 DEF Final
  <2>6. ForMe(f)'
    BY <2>1, <2>2 DEF ForMe
  <2>. QED
    BY <1>2, <2>5, <2>6 DEF Anew
<1>. QED
  BY <1>3, <1>4, <1>5 DEF TellsOf

(* So the log goes on telling everything. *)
LEMMA GrowsLogTells ==
  ASSUME Shape, NEW k, OnlyGrows(k), LogTells
  PROVE  LogTells'
<1>1. /\ k \in 0 .. 2 /\ Len(log) \in Nat /\ Len(log') = Len(log) + k
      /\ \A n \in 1 .. Len(log) : log'[n] = log[n]
  BY DEF OnlyGrows, Longer
<1>2. SUFFICES ASSUME NEW m \in Told', NEW n \in 1 .. Len(log'), Touches(log'[n], m)
               PROVE  \E f \in n .. Len(log') : Final(f, m)' /\ (f = n \/ ForMe(f)')
  BY DEF LogTells
<1>3. CASE n <= Len(log) /\ Steady(m)
  <2>1. n \in 1 .. Len(log) /\ Touches(log[n], m)
    BY <1>1, <1>2, <1>3
  <2>2. PICK f \in n .. Len(log) : Final(f, m) /\ (f = n \/ ForMe(f))
    BY <2>1, FinalGrows DEF LogTells
  <2>3. f \in 1 .. Len(log) /\ f \in n .. Len(log')
    BY <1>1, <2>1
  <2>4. Final(f, m)' /\ (ForMe(f) => ForMe(f)')
    BY <1>1, <1>3, <2>2, <2>3 DEF Steady, ForMe
  <2>. QED
    BY <2>2, <2>3, <2>4
<1>4. CASE n > Len(log) /\ Steady(m)
  <2>1. \A g \in n .. Len(log') : Right(log'[g], m, match')
    BY <1>1, <1>4 DEF Steady
  <2>2. Final(n, m)'
    BY <1>2, <2>1 DEF Final
  <2>. QED
    BY <1>1, <2>2
<1>5. CASE Anew(m)
  <2>1. PICK f \in Len(log) + 1 .. Len(log') : Final(f, m)' /\ ForMe(f)'
    BY <1>5 DEF Anew
  <2>2. CASE n <= f
    BY <1>1, <2>1, <2>2
  <2>3. CASE n > f
    <3>1. \A g \in n .. Len(log') : Right(log'[g], m, match')
      BY <1>1, <2>1, <2>3 DEF Final
    <3>2. Final(n, m)'
      BY <1>2, <3>1 DEF Final
    <3>. QED
      BY <1>1, <3>2
  <2>. QED
    BY <1>1, <2>2, <2>3
<1>. QED
  BY <1>1, <1>3, <1>4, <1>5, FinalGrows

(* And so does a snapshot with what follows it. *)
LEMMA GrowsSnapTells ==
  ASSUME Shape, NEW k, OnlyGrows(k), NEW v, NEW upto \in 0 .. Len(log), SnapTells(v, upto)
  PROVE  SnapTells(v, upto)'
<1>1. /\ k \in 0 .. 2 /\ Len(log) \in Nat /\ Len(log') = Len(log) + k
      /\ \A n \in 1 .. Len(log) : log'[n] = log[n]
  BY DEF OnlyGrows, Longer
<1>2. SUFFICES ASSUME NEW m \in Told'
               PROVE  \/ Has(v, m) <=> RealIn(match', m)
                      \/ \E f \in upto + 1 .. Len(log') : Final(f, m)' /\ ForMe(f)'
  BY DEF SnapTells
<1>3. CASE Steady(m)
  <2>1. CASE Has(v, m) <=> RealIn(match, m)
    BY <1>3, <2>1 DEF Steady
  <2>2. CASE \E f \in upto + 1 .. Len(log) : Final(f, m) /\ ForMe(f)
    <3>1. PICK f \in upto + 1 .. Len(log) : Final(f, m) /\ ForMe(f)
      BY <2>2
    <3>2. f \in 1 .. Len(log) /\ f \in upto + 1 .. Len(log')
      BY <1>1
    <3>3. Final(f, m)' /\ ForMe(f)'
      BY <1>1, <1>3, <3>1, <3>2 DEF Steady, ForMe
    <3>. QED
      BY <3>2, <3>3
  <2>. QED
    BY <2>1, <2>2, FinalGrows DEF SnapTells
<1>4. CASE Anew(m)
  <2>1. PICK f \in Len(log) + 1 .. Len(log') : Final(f, m)' /\ ForMe(f)'
    BY <1>4 DEF Anew
  <2>2. f \in upto + 1 .. Len(log')
    BY <1>1
  <2>. QED
    BY <2>1, <2>2
<1>. QED
  BY <1>3, <1>4, FinalGrows

(* Where the streams are. *)
LEMMA NextFits ==
  ASSUME Shape
  PROVE  /\ action.stage \in {"subscribed", "snapshot", "live"} =>
              action.next \in 1 .. Len(log) + 1
         /\ action.stage = "snapshot" => /\ action.upto \in 0 .. Len(log)
                                         /\ action.next <= action.upto + 1
         /\ state.stage = "opened" => state.since \in 0 .. Len(log)
         /\ state.stage \in {"replay", "live"} => state.next \in 1 .. Len(log) + 1
         /\ rejoin.stage = "answered" => rejoin.upto \in 0 .. Len(log)
<1>1. ActionFits(action, match.entries, Len(log)) /\ StateFits(state, Len(log))
      /\ RejoinFits(rejoin, match.entries, Len(log))
  BY DEF Shape, StreamsFit
<1>. QED
  BY <1>1 DEF ActionFits, StateFits, RejoinFits

(* The steps of the game. *)
LEMMA GrowsTells ==
  ASSUME Shape, NEW k, OnlyGrows(k), Tells
  PROVE  Tells'
<1>1. /\ k \in 0 .. 2 /\ Len(log) \in Nat /\ Len(log') = Len(log) + k
      /\ \A n \in 1 .. Len(log) : log'[n] = log[n]
  BY DEF OnlyGrows, Longer
<1>2. /\ action' = action /\ state' = state /\ rejoin' = rejoin /\ local' = local
      /\ history'.for = history.for /\ history'.upto = history.upto
      /\ history'.astray = history.astray
  BY DEF OnlyGrows
<1>3. LogTells'
  BY GrowsLogTells DEF Tells
<1>4. SnapsTell'
  <2>1. ASSUME action.stage = "snapshot"
        PROVE  SnapTells(action.view, action.upto)'
    BY <1>2, <2>1, GrowsSnapTells, NextFits DEF Tells, SnapsTell
  <2>2. ASSUME rejoin.stage = "answered"
        PROVE  SnapTells(rejoin.view, rejoin.upto)'
    BY <1>2, <2>2, GrowsSnapTells, NextFits DEF Tells, SnapsTell
  <2>. QED
    BY <1>2, <2>1, <2>2 DEF SnapsTell
<1>5. \A f : Coming(f)' <=> Coming(f)
  BY <1>2 DEF Coming
<1>6. ViewTells'
  <2>1. SUFFICES ASSUME action.stage = "live", history.astray = 0,
                        NEW m \in Told', m.of = "hand" => history.for = Me
                 PROVE  \/ Has(local.view, m) <=> RealIn(match', m)
                        \/ \E f \in 1 .. Len(log') : Final(f, m)' /\ ForMe(f)' /\ Coming(f)
    BY <1>2, <1>5 DEF ViewTells
  <2>2. m \in Told /\ (Steady(m) \/ Anew(m))
    BY FinalGrows
  <2>3. CASE Steady(m)
    <3>1. CASE Has(local.view, m) <=> RealIn(match, m)
      BY <2>3, <3>1 DEF Steady
    <3>2. CASE \E f \in 1 .. Len(log) : Final(f, m) /\ ForMe(f) /\ Coming(f)
      <4>1. PICK f \in 1 .. Len(log) : Final(f, m) /\ ForMe(f) /\ Coming(f)
        BY <3>2
      <4>2. f \in 1 .. Len(log') /\ Final(f, m)' /\ ForMe(f)'
        BY <1>1, <2>3, <4>1 DEF Steady, ForMe
      <4>. QED
        BY <4>1, <4>2
    <3>. QED
      BY <2>1, <2>2, <3>1, <3>2 DEF Tells, ViewTells
  <2>4. CASE Anew(m)
    <3>1. PICK f \in Len(log) + 1 .. Len(log') : Final(f, m)' /\ ForMe(f)'
      BY <2>4 DEF Anew
    <3>2. f \in 1 .. Len(log') /\ f >= action.next
      BY <1>1, <2>1, NextFits
    <3>. QED
      BY <2>1, <3>1, <3>2 DEF Coming
  <2>. QED
    BY <2>2, <2>3, <2>4
<1>7. Reach'
  <2>1. SUFFICES ASSUME action.stage = "live", NEW f \in 1 .. Len(log'), ForMe(f)',
                        f > local.last, f > history.upto, f > history.astray
                 PROVE  Coming(f)
    BY <1>2, <1>5 DEF Reach
  <2>2. CASE f <= Len(log)
    BY <1>1, <2>1, <2>2 DEF Tells, Reach, ForMe
  <2>3. CASE f > Len(log)
    <3>1. f >= action.next
      BY <1>1, <2>1, <2>3, NextFits
    <3>. QED
      BY <2>1, <3>1 DEF Coming
  <2>. QED
    BY <1>1, <2>2, <2>3
<1>. QED
  BY <1>3, <1>4, <1>6, <1>7 DEF Tells

(* What a step of the client leaves as it is. *)
LEMMA SameTells ==
  ASSUME Shape, SameGame
  PROVE  /\ Len(log') = Len(log) /\ Told' = Told
         /\ \A f : ForMe(f)' <=> ForMe(f)
         /\ \A m : RealIn(match', m) <=> RealIn(match, m)
         /\ \A f, m : Final(f, m)' <=> Final(f, m)
         /\ \A v, n : SnapTells(v, n) => SnapTells(v, n)'
         /\ LogTells => LogTells'
<1>1. log' = log /\ history'.ghosts = history.ghosts
  BY DEF SameGame
<1>2. Told' = Told /\ \A f : ForMe(f)' <=> ForMe(f)
  BY <1>1 DEF Told, ForMe
<1>3. \A m : RealIn(match', m) <=> RealIn(match, m)
  BY SameReal DEF SameGame
<1>4. \A e, m : Right(e, m, match') <=> Right(e, m, match)
  BY <1>3 DEF Right
<1>5. \A f, m : Final(f, m)' <=> Final(f, m)
  BY <1>1, <1>4 DEF Final
<1>6. ASSUME NEW v, NEW n, SnapTells(v, n)
      PROVE  SnapTells(v, n)'
  BY <1>1, <1>2, <1>3, <1>5, <1>6 DEF SnapTells
<1>7. ASSUME LogTells
      PROVE  LogTells'
  BY <1>1, <1>2, <1>5, <1>7 DEF LogTells
<1>. QED
  BY <1>1, <1>2, <1>3, <1>5, <1>6, <1>7

(* A snapshot tells what is so. *)
LEMMA SnapshotTells ==
  ASSUME Shape, NEW v, v = Snapshot(Me)
  PROVE  SnapTells(v, Len(log))
<1>1. Mirrors(v, Me)
  BY SnapshotMirrors DEF Shape, Players
<1>. QED
  BY <1>1 DEF Mirrors, SnapTells, Told

\* A step that brings nothing: a snapshot under way stays or is that of the game,
\* and what is shown and what is known stay, unless events are passed over.
Calm ==
  /\ SameGame
  /\ action'.stage = "snapshot" =>
       \/ /\ action.stage = "snapshot" /\ action'.view = action.view
          /\ action'.upto = action.upto
       \/ action'.view = Snapshot(Me) /\ action'.upto = Len(log)
  /\ rejoin'.stage = "answered" =>
       rejoin' = rejoin \/ (rejoin'.view = Snapshot(Me) /\ rejoin'.upto = Len(log))
  /\ action'.stage = "live" =>
       /\ action.stage = "live" /\ local'.view = local.view /\ local'.last = local.last
       /\ history'.for = history.for /\ history'.upto = history.upto
       /\ history'.again = history.again
       /\ \/ history'.astray = Len(log) /\ history'.astray # 0
          \/ /\ history'.astray = history.astray
             /\ \A f \in 1 .. Len(log) : Coming(f) => Coming(f)'

IsCalm == \/ IsRejoin \/ IsSubscribe \/ IsTakeSnapshot \/ IsLoseAction \/ IsStop
          \/ IsAnswerRejoin \/ IsReadLog \/ IsAnswer \/ IsFollow \/ IsLoseState

(* What passes over no event for a live stream keeps what is coming. *)
LEMMA PassingCalm ==
  ASSUME Shape, IsFollow \/ IsLoseState
  PROVE  Calm
<1>1. Still /\ SameGame /\ action' = action /\ rejoin' = rejoin /\ local' = local
  BY StillSame DEF IsFollow, IsLoseState
<1>2. /\ history'.for = history.for /\ history'.upto = history.upto
      /\ history'.again = history.again
  BY DEF IsFollow, IsLoseState, Passes
<1>3. \/ history'.astray = Len(log) /\ history'.astray # 0
      \/ /\ history'.astray = history.astray
         /\ \A f \in 1 .. Len(log) : Coming(f) => Coming(f)'
  <2>1. CASE IsFollow
    <3>. DEFINE S == state.end + 1 .. Len(log)
    <3>1. /\ history'.astray = IF S = {} THEN history.astray ELSE Len(log)
          /\ state.stage = "replay" /\ state.next > state.end /\ state.next \in Nat
          /\ state.end \in 0 .. Len(log)
      BY <2>1 DEF IsFollow, Passes
    <3>2. CASE S = {}
      <4>0. ~(state.end + 1 \in S)
        BY <3>2
      <4>1. state.end >= Len(log)
        BY <3>1, <4>0, ShapeNumbers
      <4>2. \A f \in 1 .. Len(log) : ~(f >= state.next)
        BY <3>1, <4>1, ShapeNumbers
      <4>. QED
        BY <1>1, <3>1, <3>2, <4>2 DEF Coming
    <3>3. CASE S # {}
      <4>1. Len(log) # 0
        BY <3>1, <3>3
      <4>. QED
        BY <3>1, <3>3, <4>1
    <3>. QED
      BY <3>2, <3>3
  <2>2. CASE IsLoseState
    <3>. DEFINE S == Due .. Len(log)
    <3>1. /\ history'.astray = IF S = {} THEN history.astray ELSE Len(log)
          /\ Due \in 1 .. Len(log) + 1
      BY <2>2 DEF IsLoseState, Passes
    <3>2. CASE S = {}
      <4>1. \A f \in 1 .. Len(log) : ~(f >= Due)
        BY <3>1, <3>2, ShapeNumbers
      <4>2. ASSUME NEW f \in 1 .. Len(log), Coming(f)
            PROVE  action.stage = "live" /\ f >= action.next
        BY <4>1, <4>2, ShapeNumbers, NextFits DEF Coming, Due
      <4>. QED
        BY <1>1, <3>1, <3>2, <4>2 DEF Coming
    <3>3. CASE S # {}
      <4>1. Len(log) # 0
        BY <3>1, <3>3, ShapeNumbers
      <4>. QED
        BY <3>1, <3>3, <4>1
    <3>. QED
      BY <3>2, <3>3
  <2>. QED
    BY <2>1, <2>2
<1>. QED
  BY <1>1, <1>2, <1>3 DEF Calm

(* The other steps that bring nothing. *)
LEMMA CalmSteps ==
  ASSUME Shape, IsCalm
  PROVE  Calm
<1>1. CASE IsRejoin \/ IsSubscribe \/ IsTakeSnapshot \/ IsLoseAction \/ IsStop
  <2>1. Still /\ action'.stage # "live" /\ SameGame
    BY <1>1, StillSame DEF IsRejoin, IsSubscribe, IsTakeSnapshot, IsLoseAction, IsStop
  <2>2. /\ action'.stage = "snapshot" => action'.view = Snapshot(Me) /\ action'.upto = Len(log)
        /\ rejoin'.stage = "answered" => rejoin' = rejoin
    BY <1>1 DEF IsRejoin, IsSubscribe, IsTakeSnapshot, IsLoseAction, IsStop
  <2>. QED
    BY <2>1, <2>2 DEF Calm
<1>2. CASE IsAnswerRejoin
  <2>1. /\ SameGame /\ action' = action /\ state' = state /\ local' = local
        /\ history' = history
        /\ rejoin'.stage = "answered" =>
             rejoin' = rejoin \/ (rejoin'.view = Snapshot(Me) /\ rejoin'.upto = Len(log))
    BY <1>2, StillSame DEF IsAnswerRejoin
  <2>2. \A f : Coming(f)' <=> Coming(f)
    BY <2>1 DEF Coming
  <2>. QED
    BY <2>1, <2>2 DEF Calm
<1>3. CASE IsReadLog
  <2>1. SameGame /\ action' = action /\ rejoin' = rejoin /\ local' = local /\ history' = history
    BY <1>3, StillSame DEF IsReadLog
  <2>2. \A f \in 1 .. Len(log) : Coming(f) => Coming(f)'
    BY <1>3, <2>1, ShapeNumbers DEF Coming, IsReadLog
  <2>. QED
    BY <2>1, <2>2 DEF Calm
<1>4. CASE IsAnswer
  <2>1. /\ SameGame /\ action' = action /\ rejoin' = rejoin /\ state' = state
        /\ local'.view = local.view /\ local'.last = local.last
        /\ history'.for = history.for /\ history'.upto = history.upto
        /\ history'.again = history.again /\ history'.astray = history.astray
    BY <1>4 DEF IsAnswer
  <2>2. \A f : Coming(f)' <=> Coming(f)
    BY <2>1 DEF Coming
  <2>. QED
    BY <2>1, <2>2 DEF Calm
<1>. QED
  BY <1>1, <1>2, <1>3, <1>4, PassingCalm DEF IsCalm

(* Snapshots under way stay as true as they are. *)
LEMMA SnapsStay ==
  ASSUME Shape, SameGame, SnapsTell,
         action'.stage = "snapshot" => action.stage = "snapshot" /\ action'.view = action.view
                                         /\ action'.upto = action.upto,
         rejoin'.stage = "answered" => rejoin' = rejoin
  PROVE  SnapsTell'
<1>1. \A v, n : SnapTells(v, n) => SnapTells(v, n)'
  BY SameTells
<1>. QED
  BY <1>1 DEF SnapsTell

(* The steps that bring nothing. *)
LEMMA CalmTells ==
  ASSUME Shape, Tells, Calm
  PROVE  Tells'
<1>1. /\ Len(log') = Len(log) /\ Told' = Told /\ LogTells'
      /\ \A f : ForMe(f)' <=> ForMe(f)
      /\ \A m : RealIn(match', m) <=> RealIn(match, m)
      /\ \A f, m : Final(f, m)' <=> Final(f, m)
      /\ \A v, n : SnapTells(v, n) => SnapTells(v, n)'
  BY SameTells DEF Tells, Calm
<1>2. ViewTells'
  BY <1>1 DEF Tells, ViewTells, Calm
<1>3. Reach'
  <2>1. SUFFICES ASSUME action'.stage = "live", NEW f \in 1 .. Len(log), ForMe(f),
                        f > local'.last, f > history'.upto, f > history'.astray
                 PROVE  Coming(f)'
    BY <1>1 DEF Reach
  <2>2. /\ action.stage = "live" /\ history'.astray = history.astray
        /\ local'.last = local.last /\ history'.upto = history.upto
        /\ Coming(f) => Coming(f)'
    BY <2>1 DEF Calm
  <2>. QED
    BY <2>1, <2>2 DEF Tells, Reach
<1>4. SnapsTell'
  <2>1. ASSUME action'.stage = "snapshot"
        PROVE  SnapTells(action'.view, action'.upto)
    BY <2>1, SnapshotTells DEF Tells, SnapsTell, Calm
  <2>2. ASSUME rejoin'.stage = "answered"
        PROVE  SnapTells(rejoin'.view, rejoin'.upto)
    BY <2>2, SnapshotTells DEF Tells, SnapsTell, Calm
  <2>. QED
    BY <1>1, <2>1, <2>2 DEF SnapsTell
<1>. QED
  BY <1>1, <1>2, <1>3, <1>4 DEF Tells

(* The action stream's snapshot. *)
LEMMA FirstTells ==
  ASSUME Shape, Tells, IsReceiveSnapshot
  PROVE  Tells'
<1>1. /\ Still /\ SameGame /\ rejoin' = rejoin /\ state' = state
      /\ action.stage = "snapshot" /\ action'.stage = "live" /\ action'.next = action.next
      /\ local'.view = action.view /\ local'.last = local.last
      /\ history'.upto = action.upto
      /\ action.upto \in 0 .. Len(log) /\ action.next <= action.upto + 1
      /\ action.next \in 1 .. Len(log) + 1
  BY StillSame DEF IsReceiveSnapshot, Turns, Resets
<1>2. SnapsTell'
  BY <1>1, SnapsStay DEF Tells
<1>3. /\ Len(log') = Len(log) /\ Told' = Told /\ LogTells'
      /\ \A f : ForMe(f)' <=> ForMe(f)
      /\ \A m : RealIn(match', m) <=> RealIn(match, m)
      /\ \A f, m : Final(f, m)' <=> Final(f, m)
  BY <1>1, SameTells DEF Tells
<1>4. \A f \in 1 .. Len(log) : f > action.upto => Coming(f)'
  BY <1>1, ShapeNumbers DEF Coming
<1>5. ViewTells'
  <2>1. SUFFICES ASSUME NEW m \in Told
                 PROVE  \/ Has(action.view, m) <=> RealIn(match, m)
                        \/ \E f \in 1 .. Len(log) : Final(f, m) /\ ForMe(f) /\ Coming(f)'
    BY <1>1, <1>3 DEF ViewTells
  <2>2. \/ Has(action.view, m) <=> RealIn(match, m)
        \/ \E f \in action.upto + 1 .. Len(log) : Final(f, m) /\ ForMe(f)
    BY <1>1 DEF Tells, SnapsTell, SnapTells
  <2>3. ASSUME NEW f \in action.upto + 1 .. Len(log)
        PROVE  f \in 1 .. Len(log) /\ Coming(f)'
    BY <1>1, <1>4, ShapeNumbers
  <2>. QED
    BY <2>2, <2>3
<1>6. Reach'
  BY <1>1, <1>3, <1>4 DEF Reach
<1>. QED
  BY <1>2, <1>3, <1>5, <1>6 DEF Tells

(* The answer to RejoinGame. *)
LEMMA RejoinedTells ==
  ASSUME Shape, Tells, IsReceiveRejoin
  PROVE  Tells'
<1>1. /\ Still /\ SameGame /\ action' = action /\ state' = state
      /\ rejoin.stage = "answered" /\ rejoin'.stage = "none" /\ rejoin.upto \in 0 .. Len(log)
      /\ local'.view = rejoin.view /\ local'.last = local.last
      /\ history'.upto = rejoin.upto
      /\ \/ /\ local.last <= rejoin.upto /\ history.upto <= rejoin.upto
            /\ Resets(history', rejoin.upto)
         \/ history'.astray = Len(log) /\ history'.astray # 0
  BY StillSame DEF IsReceiveRejoin, Turns, Resets
<1>2. SnapsTell'
  BY <1>1, SnapsStay DEF Tells
<1>3. /\ Len(log') = Len(log) /\ Told' = Told /\ LogTells'
      /\ \A f : ForMe(f)' <=> ForMe(f)
      /\ \A m : RealIn(match', m) <=> RealIn(match, m)
      /\ \A f, m : Final(f, m)' <=> Final(f, m)
  BY <1>1, SameTells DEF Tells
<1>4. \A f : Coming(f)' <=> Coming(f)
  BY <1>1 DEF Coming
<1>5. ASSUME action.stage = "live", NEW f \in 1 .. Len(log), ForMe(f), f > local.last,
             f > rejoin.upto, f > history'.astray
      PROVE  Coming(f)
  <2>1. /\ local.last <= rejoin.upto /\ history.upto <= rejoin.upto
        /\ Resets(history', rejoin.upto)
    BY <1>1, <1>5, ShapeNumbers
  <2>2. f > history.upto /\ f > history.astray
    BY <1>1, <1>5, <2>1, ShapeNumbers DEF Resets
  <2>. QED
    BY <1>5, <2>2 DEF Tells, Reach
<1>6. ViewTells'
  <2>1. SUFFICES ASSUME NEW m \in Told, action.stage = "live", history'.astray = 0
                 PROVE  \/ Has(rejoin.view, m) <=> RealIn(match, m)
                        \/ \E f \in 1 .. Len(log) : Final(f, m) /\ ForMe(f) /\ Coming(f)
    BY <1>1, <1>3, <1>4 DEF ViewTells
  <2>2. \/ Has(rejoin.view, m) <=> RealIn(match, m)
        \/ \E f \in rejoin.upto + 1 .. Len(log) : Final(f, m) /\ ForMe(f)
    BY <1>1 DEF Tells, SnapsTell, SnapTells
  <2>3. ASSUME NEW f \in rejoin.upto + 1 .. Len(log), ForMe(f)
        PROVE  f \in 1 .. Len(log) /\ Coming(f)
    <3>1. f \in 1 .. Len(log) /\ f > rejoin.upto
      BY <1>1, <2>3, ShapeNumbers
    <3>2. f > local.last /\ f > history'.astray
      BY <1>1, <2>1, <3>1, ShapeNumbers
    <3>. QED
      BY <1>5, <2>1, <2>3, <3>1, <3>2
  <2>. QED
    BY <2>2, <2>3
<1>7. Reach'
  BY <1>1, <1>3, <1>4, <1>5 DEF Reach
<1>. QED
  BY <1>2, <1>3, <1>6, <1>7 DEF Tells

\* The n-th event is shown, and nothing else is skipped that is for this player.
BringsNext(n) ==
  /\ IsShow(n) /\ (action'.stage = "live" => action.stage = "live")
  /\ action'.stage = "snapshot" => action' = action
  /\ action.stage = "live" => \A f \in 1 .. Len(log) : f > n => Coming(f)'
  /\ \A f \in 1 .. Len(log) : ForMe(f) /\ Coming(f) /\ f # n => Coming(f)'

(* The action stream. *)
LEMMA ActionBrings ==
  ASSUME Shape, NEW n, IsReceiveAction(n)
  PROVE  BringsNext(n)
<1>1. /\ IsShow(n) /\ state' = state /\ action.stage = "live" /\ action.next \in Nat
      /\ action'.stage = "live" /\ action'.next = n + 1 /\ n \in Nat
      /\ \A m \in action.next .. n - 1 : ~ForMe(m)
  BY ShapeNumbers DEF IsReceiveAction, IsShow, ForMe
<1>2. \A f \in 1 .. Len(log) : f > n => Coming(f)'
  BY <1>1, ShapeNumbers DEF Coming
<1>3. ASSUME NEW f \in 1 .. Len(log), ForMe(f), Coming(f), f # n
      PROVE  Coming(f)'
  <2>1. CASE f >= action.next
    <3>1. f > n
      BY <1>1, <1>3, <2>1, ShapeNumbers
    <3>. QED
      BY <1>2, <3>1
  <2>2. CASE ~(f >= action.next)
    BY <1>1, <1>3, <2>2 DEF Coming
  <2>. QED
    BY <2>1, <2>2
<1>. QED
  BY <1>1, <1>2, <1>3 DEF BringsNext

(* The state stream. *)
LEMMA StateBrings ==
  ASSUME Shape, NEW n, IsReceiveState(n)
  PROVE  BringsNext(n)
<1>1. /\ IsShow(n) /\ action' = action /\ state.stage \in {"replay", "live"} /\ state.next = n
      /\ state'.stage = state.stage /\ state'.next = n + 1 /\ n \in Nat
  BY ShapeNumbers DEF IsReceiveState, IsShow
<1>2. \A f \in 1 .. Len(log) : f > n => Coming(f)'
  BY <1>1, ShapeNumbers DEF Coming
<1>3. ASSUME NEW f \in 1 .. Len(log), Coming(f), f # n
      PROVE  Coming(f)'
  BY <1>1, <1>2, <1>3, ShapeNumbers DEF Coming
<1>. QED
  BY <1>1, <1>2, <1>3 DEF BringsNext

(* An event that is shown: it is the final one, or that comes later. *)
LEMMA ShownTells ==
  ASSUME Shape, Tells, NEW n, BringsNext(n)
  PROVE  Tells'
<1>. DEFINE e == log[n]
<1>1. /\ IsShow(n) /\ Still /\ SameGame /\ rejoin' = rejoin /\ n \in 1 .. Len(log)
      /\ local'.last = IF n > local.last THEN n ELSE local.last
      /\ Learns(history', e, n)
  BY StillSame DEF BringsNext, IsShow
<1>2. SnapsTell'
  BY <1>1, SnapsStay DEF Tells, BringsNext
<1>3. /\ Len(log') = Len(log) /\ Told' = Told /\ LogTells'
      /\ \A f : ForMe(f)' <=> ForMe(f)
      /\ \A m : RealIn(match', m) <=> RealIn(match, m)
      /\ \A f, m : Final(f, m)' <=> Final(f, m)
  BY <1>1, SameTells DEF Tells
<1>4. ViewTells'
  <2>1. SUFFICES ASSUME NEW m \in Told, action'.stage = "live", history'.astray = 0,
                        m.of = "hand" => history'.for = Me
                 PROVE  \/ Has(local'.view, m) <=> RealIn(match, m)
                        \/ \E f \in 1 .. Len(log) : Final(f, m) /\ ForMe(f) /\ Coming(f)'
    BY <1>3 DEF ViewTells
  <2>2. action.stage = "live" /\ local.has
    BY <2>1 DEF BringsNext, Shape, ClientFits
  <2>3. Follows(local'.view, local.view, e, m) /\ m \in Marks
    BY <1>1, <2>2 DEF IsShow, Sees, Told
  <2>4. CASE Touches(e, m)
    <3>1. PICK f \in n .. Len(log) : Final(f, m) /\ (f = n \/ ForMe(f))
      BY <1>1, <2>4 DEF Tells, LogTells
    <3>2. CASE f = n
      <4>1. Right(e, m, match)
        BY <1>1, <3>1, <3>2, ShapeNumbers DEF Final
      <4>. QED
        BY <2>3, <2>4, <4>1 DEF Right, Follows
    <3>3. CASE f # n
      <4>1. f \in 1 .. Len(log) /\ f > n
        BY <1>1, <3>1, <3>3, ShapeNumbers
      <4>. QED
        BY <2>2, <3>1, <3>3, <4>1 DEF BringsNext
    <3>. QED
      BY <3>2, <3>3
  <2>5. CASE ~Touches(e, m)
    <3>1. ~(e.kind = "snapshot" /\ e.for = Me)
      BY <2>5 DEF Touches
    <3>2. /\ history'.astray = history.astray
          /\ m.of = "hand" => history.for = Me /\ e.kind # "snapshot"
      BY <1>1, <2>1, <2>5, <3>1 DEF Learns, Touches
    <3>3. Has(local'.view, m) <=> Has(local.view, m)
      BY <2>3, <2>5, <3>2 DEF Follows
    <3>4. CASE Has(local.view, m) <=> RealIn(match, m)
      BY <3>3, <3>4
    <3>5. CASE \E f \in 1 .. Len(log) : Final(f, m) /\ ForMe(f) /\ Coming(f)
      <4>1. PICK f \in 1 .. Len(log) : Final(f, m) /\ ForMe(f) /\ Coming(f)
        BY <3>5
      <4>2. f # n
        BY <2>5, <4>1 DEF Final
      <4>. QED
        BY <4>1, <4>2 DEF BringsNext
    <3>. QED
      BY <2>1, <2>2, <3>2, <3>4, <3>5 DEF Tells, ViewTells
  <2>. QED
    BY <2>4, <2>5
<1>5. Reach'
  <2>1. SUFFICES ASSUME action'.stage = "live", NEW f \in 1 .. Len(log), f > local'.last
                 PROVE  Coming(f)'
    BY <1>3 DEF Reach
  <2>2. f > n /\ action.stage = "live"
    BY <1>1, <2>1, ShapeNumbers DEF BringsNext
  <2>. QED
    BY <2>2 DEF BringsNext
<1>. QED
  BY <1>2, <1>3, <1>4, <1>5 DEF Tells

-----------------------------------------------------------------------------
(* Every step *)

\* What the game waits for after a step of its own with k events: what it waited
\* for, or the prompt that was just told, or nothing.
Waits(k) ==
  \/ /\ match'.awaiting = match.awaiting /\ match'.over = match.over
     /\ history'.missed = history.missed /\ history'.answered = history.answered
     /\ \A i \in 1 .. k : log'[Len(log) + i].kind \notin {"action_prompt", "game_over"}
  \/ /\ k = 1 /\ match'.awaiting = Len(log) + 1 /\ ~match.over /\ ~match'.over
     /\ ~history'.missed /\ ~history'.answered
     /\ log'[Len(log) + 1].kind = "action_prompt"
  \/ /\ match'.awaiting = 0 /\ (match.over => match'.over)
     /\ \A i \in 1 .. k : log'[Len(log) + i].kind = "game_over" => match'.over

\* What a step does, for what is proved about it.
Steps ==
  \/ \E k \in 0 .. 2 : OnlyGrows(k) /\ Waits(k)
  \/ IsCalm \/ IsReceiveSnapshot \/ IsReceiveRejoin
  \/ \E n \in 1 .. Len(log) : IsReceiveAction(n)
  \/ \E n \in 1 .. Len(log) : IsReceiveState(n)

(* Prompt. *)
LEMMA PromptWaits ==
  ASSUME Shape, Prompt
  PROVE  Waits(1)
<1>. DEFINE e == [kind |-> "action_prompt", to |-> {Me}]
<1>1. /\ match' = [match EXCEPT !.awaiting = Len(log) + 1] /\ log' = log \o <<e>>
      /\ history' = [history EXCEPT !.missed = FALSE, !.answered = FALSE] /\ ~match.over
  BY DEF Prompt, Does
<1>2. match'.awaiting = Len(log) + 1 /\ ~match'.over
  BY <1>1 DEF Shape, GameFits, Games
<1>3. ~history'.missed /\ ~history'.answered
  BY <1>1 DEF Shape, HistoryTyped
<1>4. log'[Len(log) + 1] = e
  BY <1>1, OneTold DEF Shape, LogFits
<1>5. log'[Len(log) + 1].kind = "action_prompt"
  BY <1>4
<1>. QED
  BY <1>1, <1>2, <1>3, <1>5 DEF Waits

(* Expire. *)
LEMMA ExpireWaits ==
  ASSUME Shape, Expire
  PROVE  Waits(0)
<1>1. match' = [match EXCEPT !.awaiting = 0]
  BY DEF Expire
<1>2. match'.awaiting = 0 /\ match'.over = match.over
  BY <1>1 DEF Shape, GameFits, Games
<1>. QED
  BY <1>2 DEF Waits

(* EndGame. *)
LEMMA EndWaits ==
  ASSUME Shape, EndGame
  PROVE  Waits(1)
<1>1. match' = [match EXCEPT !.over = TRUE, !.awaiting = 0]
  BY DEF EndGame
<1>2. match'.awaiting = 0 /\ match'.over
  BY <1>1 DEF Shape, GameFits, Games
<1>. QED
  BY <1>2 DEF Waits

(* Every action keeps the shape and is one of these steps. *)
LEMMA NextSteps ==
  ASSUME Shape, ViewNext
  PROVE  Shape' /\ Steps
<1>1. CASE Play
  <2>1. PICK k \in 0 .. 2 : Plays(k)
    BY <1>1, PlayPlays DEF Shape
  <2>2. Waits(k)
    <3>1. \A i \in 1 .. k : log'[Len(log) + i].kind \notin {"action_prompt", "game_over"}
      BY <2>1 DEF Plays
    <3>2. /\ match'.awaiting = match.awaiting /\ match'.over = match.over
          /\ history'.missed = history.missed /\ history'.answered = history.answered
      BY <2>1 DEF Plays, SameHistory
    <3>. QED
      BY <3>1, <3>2 DEF Waits
  <2>. QED
    BY <2>1, <2>2, PlayGrows, GrowShape DEF Steps
<1>2. CASE Prompt \/ Expire \/ EndGame
  <2>1. PICK k \in 0 .. 2 : OnlyGrows(k) /\ Waits(k)
    <3>1. 0 \in 0 .. 2 /\ 1 \in 0 .. 2
      OBVIOUS
    <3>. QED
      BY <1>2, <3>1, PromptGrows, ExpireGrows, EndGrows, PromptWaits, ExpireWaits, EndWaits
  <2>. QED
    BY <2>1, GrowShape DEF Steps
<1>3. CASE Rejoin \/ Subscribe \/ TakeSnapshot \/ ReadLog \/ Follow \/ AnswerRejoin
  BY <1>3, RejoinDoes, SubscribeDoes, TakeSnapshotDoes, ReadLogDoes, FollowDoes,
     AnswerRejoinDoes DEF Steps, IsCalm
<1>4. CASE ReceiveSnapshot \/ ReceiveRejoin \/ LoseAction \/ LoseState \/ Stop \/ Answer
  BY <1>4, ReceiveSnapshotDoes, ReceiveRejoinDoes, LoseActionDoes, LoseStateDoes, StopDoes,
     AnswerDoes DEF Steps, IsCalm
<1>5. CASE ReceiveAction
  BY <1>5, ReceiveActionDoes DEF Steps
<1>6. CASE ReceiveState
  BY <1>6, ReceiveStateDoes DEF Steps
<1>. QED
  BY <1>1, <1>2, <1>3, <1>4, <1>5, <1>6 DEF ViewNext

(* Every step keeps what is told. *)
LEMMA StepsTell ==
  ASSUME Shape, Tells, Steps
  PROVE  Tells'
<1>1. CASE \E k \in 0 .. 2 : OnlyGrows(k) /\ Waits(k)
  BY <1>1, GrowsTells
<1>2. CASE \E n \in 1 .. Len(log) : IsReceiveAction(n) \/ IsReceiveState(n)
  BY <1>2, ActionBrings, StateBrings, ShownTells
<1>. QED
  BY <1>1, <1>2, CalmSteps, CalmTells, FirstTells, RejoinedTells DEF Steps

(* Initially nothing is told. *)
LEMMA InitTells ==
  ASSUME Shape, ViewInit
  PROVE  Tells
<1>1. Len(log) = 0 /\ action.stage \in {"none", "opened"} /\ rejoin.stage = "none"
  BY DEF ViewInit, NoReader, NoAnswer
<1>2. LogTells
  BY <1>1 DEF LogTells
<1>. QED
  BY <1>1, <1>2 DEF Tells, SnapsTell, ViewTells, Reach

-----------------------------------------------------------------------------
(* What is shown when all has come *)

(* Nothing for this player is under way. *)
LEMMA SettledDone ==
  ASSUME Shape, Settled
  PROVE  /\ action.stage = "live"
         /\ \A f \in 1 .. Len(log) : ~(ForMe(f) /\ Coming(f))
<1>1. /\ action.stage = "live" /\ \A n \in action.next .. Len(log) : ~ForMe(n)
      /\ \/ state.stage = "none"
         \/ state.stage = "live" /\ state.next > Len(log)
  BY DEF Settled, Gone, ForMe
<1>2. ASSUME NEW f \in 1 .. Len(log), ForMe(f), Coming(f)
      PROVE  FALSE
  <2>1. CASE f >= action.next
    <3>1. f \in action.next .. Len(log)
      BY <1>1, <2>1, ShapeNumbers, NextFits
    <3>. QED
      BY <1>1, <1>2, <3>1
  <2>2. CASE ~(f >= action.next)
    BY <1>1, <1>2, <2>2, ShapeNumbers, NextFits DEF Coming
  <2>. QED
    BY <2>1, <2>2
<1>. QED
  BY <1>1, <1>2

(* So all that is shown is so. *)
LEMMA SettledMarks ==
  ASSUME Shape, Tells, Settled, history.astray = 0
  PROVE  \A m \in Told : (m.of = "hand" => history.for = Me) =>
           (Has(local.view, m) <=> RealIn(match, m))
BY SettledDone DEF Tells, ViewTells

(* AgreesWhenSettled. *)
LEMMA SettledAgrees ==
  ASSUME Shape, Tells
  PROVE  AgreesWhenSettled
<1>. DEFINE v == local.view
            real == Snapshot(Me)
<1>1. SUFFICES ASSUME Settled, history.astray = 0
               PROVE  /\ v.life = real.life /\ v.battlefield = real.battlefield
                      /\ IsInjective(v.stack)
                      /\ Range(v.stack) \ history.ghosts = Range(real.stack)
                      /\ history.for = Me => v.hand[Me] = real.hand[Me]
  BY DEF AgreesWhenSettled
<1>2. ShowsTo(v, match.entries) /\ Mirrors(real, Me) /\ Me \in Players
      /\ ShowsTo(real, match.entries) /\ match.entries \in Nat
  BY ShapeNumbers, SnapshotMirrors DEF Shape, Players, Mirrors
<1>. HIDE DEF v, real
<1>3. \A m \in Told : (m.of = "hand" => history.for = Me) => (Has(v, m) <=> Has(real, m))
  BY <1>1, <1>2, SettledMarks DEF Mirrors, Told, v
<1>4. v \in ViewsTo(match.entries) /\ real \in ViewsTo(match.entries) /\ Sorted(v) /\ Sorted(real)
  BY <1>2 DEF ShowsTo
<1>5. /\ v.life \in [Players -> Int] /\ v.hand \in [Players -> SUBSET Cards]
      /\ v.battlefield \in [Players -> SUBSET Cards] /\ v.stack \in Seq(1 .. match.entries)
      /\ real.life \in [Players -> Int] /\ real.hand \in [Players -> SUBSET Cards]
      /\ real.battlefield \in [Players -> SUBSET Cards] /\ real.stack \in Seq(1 .. match.entries)
  BY <1>4, ViewFields
<1>6. v.life = real.life
  <2>1. ASSUME NEW p \in Players
        PROVE  v.life[p] = real.life[p]
    <3>. DEFINE m == [of |-> "life", who |-> p, total |-> real.life[p]]
    <3>1. m \in Told /\ m.of = "life" /\ m.who = p /\ m.total = real.life[p]
      BY <1>5 DEF Told, Marks
    <3>. HIDE DEF m
    <3>. QED
      BY <1>3, <3>1 DEF Has
  <2>. QED
    BY <1>5, <2>1
<1>7. v.battlefield = real.battlefield
  <2>1. ASSUME NEW p \in Players, NEW c \in Cards
        PROVE  c \in v.battlefield[p] <=> c \in real.battlefield[p]
    <3>. DEFINE m == [of |-> "battlefield", card |-> c]
    <3>1. m \in Told /\ m.of = "battlefield" /\ m.card = c
      BY DEF Told, Marks
    <3>. HIDE DEF m
    <3>2. c \in v.battlefield[Owner[c]] <=> c \in real.battlefield[Owner[c]]
      BY <1>3, <3>1 DEF Has
    <3>3. /\ c \in v.battlefield[p] => Owner[c] = p
          /\ c \in real.battlefield[p] => Owner[c] = p
      BY <1>4 DEF Sorted
    <3>. QED
      BY <3>2, <3>3
  <2>2. \A p \in Players : v.battlefield[p] = real.battlefield[p]
    BY <1>5, <2>1
  <2>. QED
    BY <1>5, <2>2
<1>8. IsInjective(v.stack)
  BY <1>4 DEF Sorted
<1>9. Range(v.stack) \ history.ghosts = Range(real.stack)
  <2>1. /\ Range(v.stack) \subseteq 1 .. match.entries
        /\ Range(real.stack) \subseteq 1 .. match.entries
    BY <1>5, RangeOfSeq
  <2>2. ASSUME NEW x \in 1 .. match.entries, x \notin history.ghosts
        PROVE  x \in Range(v.stack) <=> x \in Range(real.stack)
    <3>. DEFINE m == [of |-> "stack", id |-> x]
    <3>1. m \in Told /\ m.of = "stack" /\ m.id = x
      BY <1>2, <2>2 DEF Told, Marks
    <3>. HIDE DEF m
    <3>. QED
      BY <1>3, <3>1 DEF Has
  <2>3. ASSUME NEW x \in Range(real.stack)
        PROVE  x \notin history.ghosts
    <3>. DEFINE m == [of |-> "stack", id |-> x]
    <3>1. m \in Marks /\ m.of = "stack" /\ m.id = x
      BY <1>2, <2>1 DEF Marks
    <3>. HIDE DEF m
    <3>2. x \in IdsOn(match.stack)
      BY <1>2, <3>1 DEF Mirrors, Has, RealIn
    <3>. QED
      BY <3>2 DEF IdsOn, Shape, GameFits, TableFits
  <2>. QED
    BY <2>1, <2>2, <2>3
<1>10. history.for = Me => v.hand[Me] = real.hand[Me]
  <2>1. SUFFICES ASSUME history.for = Me
                 PROVE  v.hand[Me] = real.hand[Me]
    OBVIOUS
  <2>2. v.hand[Me] \subseteq OwnCards /\ real.hand[Me] \subseteq OwnCards
    BY <1>2, <1>4, <1>5 DEF Sorted, OwnCards
  <2>3. ASSUME NEW c \in OwnCards
        PROVE  c \in v.hand[Me] <=> c \in real.hand[Me]
    <3>. DEFINE m == [of |-> "hand", card |-> c]
    <3>1. m \in Told /\ m.of = "hand" /\ m.card = c
      BY DEF Told, Marks
    <3>. HIDE DEF m
    <3>. QED
      BY <1>3, <2>1, <3>1 DEF Has
  <2>. QED
    BY <2>2, <2>3
<1>. QED
  BY <1>6, <1>7, <1>8, <1>9, <1>10

-----------------------------------------------------------------------------
(* What the log counts *)

\* The events after the k-th that tell of a card from p's library.
FromLibrary(k, p) == {n \in k + 1 .. Len(log) : LibraryEvent(log[n], p)}

\* Whether the own card c was in the hand after the k-th event, as the later ones
\* say.
HeldAt(k, c) ==
  \/ match.zone[c] = "hand" /\ \A n \in k + 1 .. Len(log) : ~HandEvent(log[n], c)
  \/ \E n \in k + 1 .. Len(log) :
       /\ HandEvent(log[n], c) /\ ~Brings(log[n])
       /\ \A j \in k + 1 .. n - 1 : ~HandEvent(log[j], c)

\* The counts are what they were after the k-th event.
Exact(v, k) ==
  /\ \A p \in Players :
       v.library_count[p] = Cardinality(Library(match, p)) + Cardinality(FromLibrary(k, p))
  /\ \A c \in OwnCards : c \in v.hand[Me] <=> HeldAt(k, c)
  /\ v.hand_count[Me] = Cardinality(v.hand[Me])

\* A card comes into the hand from elsewhere, and leaves it when it is there.
Alternates ==
  \A c \in OwnCards : \A n \in 1 .. Len(log) :
    HandEvent(log[n], c) => (HeldAt(n, c) <=> Brings(log[n]))

SnapsExact ==
  /\ action.stage = "snapshot" => Exact(action.view, action.upto)
  /\ rejoin.stage = "answered" => Exact(rejoin.view, rejoin.upto)

LogExact ==
  \A n \in 1 .. Len(log) : log[n].kind = "snapshot" /\ log[n].for = Me => Exact(log[n].view, n)

\* The last event that is accounted for.
Latest == IF local.last > history.upto THEN local.last ELSE history.upto

ViewExact ==
  action.stage = "live" /\ history.astray = 0 /\ ~history.again =>
    \/ Exact(local.view, Latest)
    \/ \E f \in 1 .. Latest : ForMe(f) /\ Coming(f)

Counts == Alternates /\ SnapsExact /\ LogExact /\ ViewExact

(* The events that tell of a library are finitely many. *)
LEMMA LibrariesFinite ==
  ASSUME Len(log) \in Nat, NEW k \in Nat, NEW p
  PROVE  /\ IsFiniteSet(FromLibrary(k, p)) /\ Cardinality(FromLibrary(k, p)) \in Nat
         /\ \A n \in FromLibrary(k, p) : n \in k + 1 .. Len(log)
<1>1. IsFiniteSet(k + 1 .. Len(log))
  BY FS_Interval
<1>2. FromLibrary(k, p) \subseteq k + 1 .. Len(log)
  BY DEF FromLibrary
<1>. QED
  BY <1>1, <1>2, FS_Subset, FS_CardinalityType

(* A step of the game takes a card from a library and tells of it, or neither. *)
LEMMA GrowsLibrary ==
  ASSUME Shape, NEW k, OnlyGrows(k), NEW p \in Players, NEW j \in 0 .. Len(log)
  PROVE  Cardinality(Library(match', p)) + Cardinality(FromLibrary(j, p)')
           = Cardinality(Library(match, p)) + Cardinality(FromLibrary(j, p))
<1>1. /\ k \in 0 .. 2 /\ Len(log) \in Nat /\ Len(log') = Len(log) + k
      /\ \A n \in 1 .. Len(log) : log'[n] = log[n]
  BY DEF OnlyGrows, Longer
<1>2. CountsOf(p, k)
  BY DEF OnlyGrows
<1>. DEFINE F == FromLibrary(j, p)
            G == FromLibrary(j, p)'
<1>3. /\ IsFiniteSet(F) /\ Cardinality(F) \in Nat /\ \A n \in F : n \in j + 1 .. Len(log)
  BY <1>1, LibrariesFinite
<1>4. \A n \in 1 .. Len(log) : n \in F <=> n \in G
  BY <1>1 DEF FromLibrary
<1>5. \A n \in G : n \in 1 .. Len(log) \/ \E i \in 1 .. k : n = Len(log) + i
  <2>1. SUFFICES ASSUME NEW n \in G
                 PROVE  n \in 1 .. Len(log) \/ \E i \in 1 .. k : n = Len(log) + i
    OBVIOUS
  <2>2. n \in j + 1 .. Len(log')
    BY DEF FromLibrary
  <2>3. n \in 1 .. Len(log) \/ n - Len(log) \in 1 .. k
    BY <1>1, <2>2
  <2>. QED
    BY <1>1, <2>2, <2>3
<1>6. \A i \in 1 .. k : Len(log) + i \in G <=> LibraryEvent(log'[Len(log) + i], p)
  <2>1. SUFFICES ASSUME NEW i \in 1 .. k
                 PROVE  Len(log) + i \in j + 1 .. Len(log')
    BY DEF FromLibrary
  <2>. QED
    BY <1>1
<1>. HIDE DEF F, G
<1>7. CASE /\ Library(match', p) = Library(match, p)
           /\ \A i \in 1 .. k : ~LibraryEvent(log'[Len(log) + i], p)
  <2>1. F = G
    <3>1. \A n \in F : n \in G
      BY <1>1, <1>3, <1>4
    <3>2. \A n \in G : n \in F
      BY <1>4, <1>5, <1>6, <1>7
    <3>. QED
      BY <3>1, <3>2
  <2>. QED
    BY <1>7, <2>1 DEF F, G
<1>8. CASE /\ \E c \in Library(match, p) : Library(match', p) = Library(match, p) \ {c}
           /\ \E i \in 1 .. k : /\ LibraryEvent(log'[Len(log) + i], p)
                                /\ \A a \in 1 .. k \ {i} : ~LibraryEvent(log'[Len(log) + a], p)
  <2>1. PICK i \in 1 .. k : /\ LibraryEvent(log'[Len(log) + i], p)
                            /\ \A a \in 1 .. k \ {i} : ~LibraryEvent(log'[Len(log) + a], p)
    BY <1>8
  <2>2. G = F \cup {Len(log) + i} /\ Len(log) + i \notin F
    <3>1. Len(log) + i \notin F
      BY <1>1, <1>3
    <3>2. Len(log) + i \in G
      BY <1>6, <2>1
    <3>3. \A n \in F : n \in G
      BY <1>1, <1>3, <1>4
    <3>4. \A n \in G : n \in F \/ n = Len(log) + i
      BY <1>4, <1>5, <1>6, <2>1
    <3>. QED
      BY <3>1, <3>2, <3>3, <3>4
  <2>3. Cardinality(G) = Cardinality(F) + 1
    BY <1>3, <2>2, FS_AddElement
  <2>4. PICK c \in Library(match, p) : Library(match', p) = Library(match, p) \ {c}
    BY <1>8
  <2>5. IsFiniteSet(Library(match, p)) /\ Cardinality(Library(match, p)) \in Nat
    <3>1. Library(match, p) \in SUBSET Cards
      BY DEF Library
    <3>. QED
      BY <3>1, HandsFinite
  <2>6. Cardinality(Library(match', p)) = Cardinality(Library(match, p)) - 1
    BY <2>4, <2>5, FS_RemoveElement
  <2>. QED
    BY <1>3, <2>3, <2>5, <2>6 DEF F, G
<1>. QED
  BY <1>2, <1>7, <1>8 DEF CountsOf

(* A step of the game changes nothing of what the hand was before. *)
LEMMA GrowsHeld ==
  ASSUME Shape, NEW k, OnlyGrows(k), NEW c \in OwnCards, NEW j \in 0 .. Len(log)
  PROVE  HeldAt(j, c)' <=> HeldAt(j, c)
<1>1. /\ k \in 0 .. 2 /\ Len(log) \in Nat /\ Len(log') = Len(log) + k
      /\ \A n \in 1 .. Len(log) : log'[n] = log[n]
  BY DEF OnlyGrows, Longer
<1>2. HoldsOf(c, k)
  BY DEF OnlyGrows
<1>. DEFINE H(n) == HandEvent(log[n], c)
            Hn(n) == HandEvent(log'[n], c)
            B(n) == Brings(log[n])
            Bn(n) == Brings(log'[n])
            L == Len(log)
            M == Len(log')
            held == match.zone[c] = "hand"
            heldn == match'.zone[c] = "hand"
<1>3. HeldAt(j, c) <=> \/ held /\ \A n \in j + 1 .. L : ~H(n)
                       \/ \E n \in j + 1 .. L : H(n) /\ ~B(n) /\ \A a \in j + 1 .. n - 1 : ~H(a)
  BY DEF HeldAt
<1>4. HeldAt(j, c)' <=> \/ heldn /\ \A n \in j + 1 .. M : ~Hn(n)
                        \/ \E n \in j + 1 .. M : Hn(n) /\ ~Bn(n) /\ \A a \in j + 1 .. n - 1 : ~Hn(a)
  BY DEF HeldAt
<1>5. L \in Nat /\ M = L + k /\ \A n \in 1 .. L : (Hn(n) <=> H(n)) /\ (Bn(n) <=> B(n))
  BY <1>1
<1>6. \/ (heldn <=> held) /\ \A i \in 1 .. k : ~Hn(L + i)
      \/ /\ ~(heldn <=> held)
         /\ \E i \in 1 .. k : /\ Hn(L + i) /\ (Bn(L + i) <=> heldn)
                              /\ \A a \in 1 .. k \ {i} : ~Hn(L + a)
  BY <1>2 DEF HoldsOf
<1>. HIDE DEF H, Hn, B, Bn, L, M, held, heldn
<1>7. j \in Nat /\ j <= L
  BY <1>1 DEF L
<1>8. CASE (heldn <=> held) /\ \A i \in 1 .. k : ~Hn(L + i)
  <2>1. \A n \in L + 1 .. M : ~Hn(n)
    <3>1. SUFFICES ASSUME NEW n \in L + 1 .. M
                   PROVE  ~Hn(n)
      OBVIOUS
    <3>2. PICK i \in 1 .. k : n = L + i
      BY <1>1, <1>5
    <3>. QED
      BY <1>8, <3>2
  <2>2. (\A n \in j + 1 .. M : ~Hn(n)) <=> (\A n \in j + 1 .. L : ~H(n))
    BY <1>1, <1>5, <1>7, <2>1
  <2>3. ASSUME NEW n \in j + 1 .. L
        PROVE  (Hn(n) /\ ~Bn(n) /\ \A a \in j + 1 .. n - 1 : ~Hn(a))
                 <=> (H(n) /\ ~B(n) /\ \A a \in j + 1 .. n - 1 : ~H(a))
    BY <1>5, <1>7
  <2>4. \A n \in j + 1 .. M : n \in j + 1 .. L \/ ~Hn(n)
    BY <1>1, <1>5, <1>7, <2>1
  <2>5. \A n \in j + 1 .. L : n \in j + 1 .. M
    BY <1>1, <1>5, <1>7
  <2>. QED
    BY <1>3, <1>4, <1>8, <2>2, <2>3, <2>4, <2>5
<1>9. CASE /\ ~(heldn <=> held)
           /\ \E i \in 1 .. k : /\ Hn(L + i) /\ (Bn(L + i) <=> heldn)
                                /\ \A a \in 1 .. k \ {i} : ~Hn(L + a)
  <2>1. PICK i \in 1 .. k : /\ Hn(L + i) /\ (Bn(L + i) <=> heldn)
                            /\ \A a \in 1 .. k \ {i} : ~Hn(L + a)
    BY <1>9
  <2>. DEFINE N == L + i
  <2>2. N \in L + 1 .. M /\ N \in j + 1 .. M /\ Hn(N) /\ (Bn(N) <=> heldn)
    BY <1>1, <1>5, <1>7, <2>1
  <2>3. \A n \in L + 1 .. M : n = N \/ ~Hn(n)
    <3>1. SUFFICES ASSUME NEW n \in L + 1 .. M
                   PROVE  n = N \/ ~Hn(n)
      OBVIOUS
    <3>2. PICK a \in 1 .. k : n = L + a
      BY <1>1, <1>5
    <3>. QED
      BY <2>1, <3>2
  <2>. HIDE DEF N
  <2>4. CASE \A n \in j + 1 .. L : ~H(n)
    <3>1. HeldAt(j, c) <=> held
      BY <1>3, <2>4
    <3>2. \A a \in j + 1 .. N - 1 : ~Hn(a)
      BY <1>1, <1>5, <1>7, <2>2, <2>3, <2>4
    <3>3. \A n \in j + 1 .. M : n = N \/ ~Hn(n)
      BY <1>1, <1>5, <1>7, <2>2, <2>3, <2>4
    <3>4. HeldAt(j, c)' <=> ~heldn
      BY <1>4, <2>2, <3>2, <3>3
    <3>. QED
      BY <1>9, <3>1, <3>4
  <2>5. CASE \E n \in j + 1 .. L : H(n)
    <3>1. PICK h \in j + 1 .. L : H(h)
      BY <2>5
    <3>2. h \in j + 1 .. M /\ Hn(h)
      BY <1>1, <1>5, <1>7, <3>1
    <3>3. ASSUME NEW n \in j + 1 .. L
          PROVE  (Hn(n) /\ ~Bn(n) /\ \A a \in j + 1 .. n - 1 : ~Hn(a))
                   <=> (H(n) /\ ~B(n) /\ \A a \in j + 1 .. n - 1 : ~H(a))
      BY <1>5, <1>7
    <3>4. \A n \in j + 1 .. M : n \in j + 1 .. L \/ ~(\A a \in j + 1 .. n - 1 : ~Hn(a))
      BY <1>1, <1>5, <1>7, <3>2
    <3>5. \A n \in j + 1 .. L : n \in j + 1 .. M
      BY <1>1, <1>5, <1>7
    <3>. QED
      BY <1>3, <1>4, <3>1, <3>2, <3>3, <3>4, <3>5
  <2>. QED
    BY <2>4, <2>5
<1>. QED
  BY <1>6, <1>8, <1>9

(* So exact counts stay exact. *)
LEMMA GrowsExact ==
  ASSUME Shape, NEW k, OnlyGrows(k), NEW v, NEW j \in 0 .. Len(log), Exact(v, j)
  PROVE  Exact(v, j)'
BY GrowsLibrary, GrowsHeld DEF Exact

(* And cards come and go in turn. *)
LEMMA GrowsAlternates ==
  ASSUME Shape, NEW k, OnlyGrows(k), Alternates
  PROVE  Alternates'
<1>1. /\ k \in 0 .. 2 /\ Len(log) \in Nat /\ Len(log') = Len(log) + k
      /\ \A n \in 1 .. Len(log) : log'[n] = log[n]
  BY DEF OnlyGrows, Longer
<1>2. SUFFICES ASSUME NEW c \in OwnCards, NEW n \in 1 .. Len(log'), HandEvent(log'[n], c)
               PROVE  HeldAt(n, c)' <=> Brings(log'[n])
  BY DEF Alternates
<1>3. CASE n <= Len(log)
  <2>1. n \in 0 .. Len(log) /\ n \in 1 .. Len(log)
    BY <1>1, <1>3
  <2>2. HeldAt(n, c)' <=> HeldAt(n, c)
    BY <2>1, GrowsHeld
  <2>. QED
    BY <1>1, <1>2, <2>1, <2>2 DEF Alternates
<1>4. CASE n > Len(log)
  <2>1. PICK i \in 1 .. k : n = Len(log) + i
    BY <1>1, <1>4
  <2>2. HoldsOf(c, k)
    BY DEF OnlyGrows
  <2>3. /\ Brings(log'[n]) <=> match'.zone[c] = "hand"
        /\ \A j \in 1 .. k \ {i} : ~HandEvent(log'[Len(log) + j], c)
    <3>1. PICK h \in 1 .. k : /\ HandEvent(log'[Len(log) + h], c)
                              /\ Brings(log'[Len(log) + h]) <=> match'.zone[c] = "hand"
                              /\ \A j \in 1 .. k \ {h} : ~HandEvent(log'[Len(log) + j], c)
      BY <1>2, <2>1, <2>2 DEF HoldsOf
    <3>2. h = i
      BY <1>2, <2>1, <3>1
    <3>. QED
      BY <2>1, <3>1, <3>2
  <2>4. \A a \in n + 1 .. Len(log') : ~HandEvent(log'[a], c)
    <3>1. SUFFICES ASSUME NEW a \in n + 1 .. Len(log')
                   PROVE  ~HandEvent(log'[a], c)
      OBVIOUS
    <3>2. PICK j \in 1 .. k : a = Len(log) + j
      BY <1>1, <2>1
    <3>3. j # i
      BY <1>1, <2>1, <3>2
    <3>. QED
      BY <2>3, <3>2, <3>3
  <2>5. HeldAt(n, c)' <=> match'.zone[c] = "hand"
    BY <2>4 DEF HeldAt
  <2>. QED
    BY <2>3, <2>5
<1>. QED
  BY <1>1, <1>3, <1>4

(* A snapshot has the counts of its time. *)
LEMMA SnapshotExact ==
  ASSUME Shape, NEW v, v = Snapshot(Me)
  PROVE  Exact(v, Len(log))
<1>1. Mirrors(v, Me) /\ Me \in Players
  BY SnapshotMirrors DEF Shape, Players
<1>2. Len(log) + 1 .. Len(log) = {}
  BY ShapeNumbers
<1>3. ASSUME NEW p \in Players
      PROVE  v.library_count[p] =
               Cardinality(Library(match, p)) + Cardinality(FromLibrary(Len(log), p))
  <2>1. FromLibrary(Len(log), p) = {}
    BY <1>2 DEF FromLibrary
  <2>2. Cardinality(FromLibrary(Len(log), p)) = 0
    BY <2>1, FS_EmptySet
  <2>3. Cardinality(Library(match, p)) \in Nat
    <3>1. Library(match, p) \in SUBSET Cards
      BY DEF Library
    <3>. QED
      BY <3>1, HandsFinite
  <2>. QED
    BY <1>1, <2>2, <2>3 DEF Mirrors
<1>4. ASSUME NEW c \in OwnCards
      PROVE  c \in v.hand[Me] <=> match.zone[c] = "hand"
  <2>. DEFINE m == [of |-> "hand", card |-> c]
  <2>1. m \in Marks /\ m.of = "hand" /\ m.card = c
    BY DEF Marks
  <2>. HIDE DEF m
  <2>. QED
    BY <1>1, <2>1 DEF Mirrors, Has, RealIn
<1>5. \A c \in OwnCards : HeldAt(Len(log), c) <=> match.zone[c] = "hand"
  BY <1>2 DEF HeldAt
<1>6. v.hand[Me] = {c \in OwnCards : match.zone[c] = "hand"}
  <2>1. v.hand[Me] \subseteq OwnCards
    BY <1>1, ViewFields DEF Mirrors, ShowsTo, Sorted, OwnCards
  <2>. QED
    BY <1>4, <2>1
<1>. QED
  BY <1>1, <1>3, <1>4, <1>5, <1>6 DEF Exact, Mirrors

(* And the log's snapshots stay exact. *)
LEMMA GrowsLogExact ==
  ASSUME Shape, NEW k, OnlyGrows(k), LogExact
  PROVE  LogExact'
<1>1. /\ k \in 0 .. 2 /\ Len(log) \in Nat /\ Len(log') = Len(log) + k
      /\ \A n \in 1 .. Len(log) : log'[n] = log[n]
  BY DEF OnlyGrows, Longer
<1>2. SUFFICES ASSUME NEW n \in 1 .. Len(log'), log'[n].kind = "snapshot", log'[n].for = Me,
                      NEW v, v = log'[n].view
               PROVE  Exact(v, n)'
  BY DEF LogExact
<1>3. CASE n <= Len(log)
  <2>1. n \in 0 .. Len(log) /\ n \in 1 .. Len(log) /\ log'[n] = log[n]
    BY <1>1, <1>3
  <2>2. Exact(v, n)
    BY <1>2, <2>1 DEF LogExact
  <2>. QED
    BY <2>1, <2>2, GrowsExact
<1>4. CASE n > Len(log)
  <2>1. PICK i \in 1 .. k : n = Len(log) + i
    BY <1>1, <1>4
  <2>2. match' = match /\ v = Snapshot(Me)
    BY <1>2, <2>1 DEF OnlyGrows, TrueOf
  <2>3. PICK L \in 0 .. Len(log) : L = Len(log)
    BY <1>1
  <2>4. Exact(v, L)
    BY <2>2, <2>3, SnapshotExact
  <2>5. Exact(v, L)'
    BY <2>4, GrowsExact
  <2>6. \A a \in L + 1 .. Len(log') : \E h \in 1 .. k : a = Len(log) + h
    <3>1. SUFFICES ASSUME NEW a \in L + 1 .. Len(log')
                   PROVE  a - Len(log) \in 1 .. k /\ a = Len(log) + (a - Len(log))
      OBVIOUS
    <3>. QED
      BY <1>1, <2>3
  <2>7. ASSUME NEW p \in Players
        PROVE  FromLibrary(L, p)' = FromLibrary(n, p)'
    <3>1. \A h \in 1 .. k : ~LibraryEvent(log'[Len(log) + h], p)
      <4>1. CountsOf(p, k) /\ Library(match', p) = Library(match, p)
        BY <2>2 DEF OnlyGrows
      <4>2. ~\E c \in Library(match, p) : Library(match', p) = Library(match, p) \ {c}
        BY <4>1
      <4>. QED
        BY <4>1, <4>2 DEF CountsOf
    <3>2. \A a \in L + 1 .. Len(log') : ~LibraryEvent(log'[a], p)
      BY <2>6, <3>1
    <3>3. FromLibrary(L, p)' = {} /\ \A a \in n + 1 .. Len(log') : a \in L + 1 .. Len(log')
      BY <1>1, <1>4, <2>3, <3>2 DEF FromLibrary
    <3>4. FromLibrary(n, p)' = {}
      BY <3>2, <3>3 DEF FromLibrary
    <3>. QED
      BY <3>3, <3>4
  <2>8. ASSUME NEW c \in OwnCards
        PROVE  HeldAt(L, c)' <=> HeldAt(n, c)'
    <3>1. \A h \in 1 .. k : ~HandEvent(log'[Len(log) + h], c)
      BY <2>2 DEF OnlyGrows, HoldsOf
    <3>2. \A a \in L + 1 .. Len(log') : ~HandEvent(log'[a], c)
      BY <2>6, <3>1
    <3>3. \A a \in n + 1 .. Len(log') : a \in L + 1 .. Len(log')
      BY <1>1, <1>4, <2>3
    <3>. QED
      BY <3>2, <3>3 DEF HeldAt
  <2>. QED
    BY <2>5, <2>7, <2>8 DEF Exact
<1>. QED
  BY <1>1, <1>3, <1>4

(* The steps of the game. *)
LEMMA GrowsCounts ==
  ASSUME Shape, NEW k, OnlyGrows(k), Counts
  PROVE  Counts'
<1>1. /\ k \in 0 .. 2 /\ Len(log) \in Nat /\ Len(log') = Len(log) + k
      /\ \A n \in 1 .. Len(log) : log'[n] = log[n]
  BY DEF OnlyGrows, Longer
<1>2. /\ action' = action /\ state' = state /\ rejoin' = rejoin /\ local' = local
      /\ history'.upto = history.upto /\ history'.astray = history.astray
      /\ history'.again = history.again
  BY DEF OnlyGrows
<1>3. SnapsExact'
  <2>1. ASSUME action.stage = "snapshot"
        PROVE  Exact(action.view, action.upto)'
    BY <1>2, <2>1, GrowsExact, NextFits DEF Counts, SnapsExact
  <2>2. ASSUME rejoin.stage = "answered"
        PROVE  Exact(rejoin.view, rejoin.upto)'
    BY <1>2, <2>2, GrowsExact, NextFits DEF Counts, SnapsExact
  <2>. QED
    BY <1>2, <2>1, <2>2 DEF SnapsExact
<1>4. ViewExact'
  <2>1. Latest \in 0 .. Len(log) /\ Latest' = Latest
    BY <1>2, ShapeNumbers DEF Latest, Shape, ClientFits
  <2>2. SUFFICES ASSUME action.stage = "live", history.astray = 0, ~history.again
                 PROVE  \/ Exact(local.view, Latest)'
                        \/ \E f \in 1 .. Latest : ForMe(f)' /\ Coming(f)'
    BY <1>2, <2>1 DEF ViewExact
  <2>3. CASE Exact(local.view, Latest)
    BY <1>2, <2>1, <2>3, GrowsExact
  <2>4. CASE \E f \in 1 .. Latest : ForMe(f) /\ Coming(f)
    <3>1. PICK f \in 1 .. Latest : ForMe(f) /\ Coming(f)
      BY <2>4
    <3>2. f \in 1 .. Len(log)
      BY <1>1, <2>1
    <3>. QED
      BY <1>1, <1>2, <3>1, <3>2 DEF ForMe, Coming
  <2>. QED
    BY <2>2, <2>3, <2>4 DEF Counts, ViewExact
<1>. QED
  BY <1>3, <1>4, GrowsAlternates, GrowsLogExact DEF Counts

(* What a step of the client leaves as it is. *)
LEMMA SameCounts ==
  ASSUME Shape, SameGame
  PROVE  /\ \A v, n : Exact(v, n) => Exact(v, n)'
         /\ Alternates => Alternates'
         /\ LogExact => LogExact'
<1>1. log' = log /\ match'.zone = match.zone /\ \A p : Library(match', p) = Library(match, p)
  BY SameReal DEF SameGame, SameTable
<1>2. \A n, c : HeldAt(n, c)' <=> HeldAt(n, c)
  BY <1>1 DEF HeldAt
<1>3. \A n, p : FromLibrary(n, p)' = FromLibrary(n, p)
  BY <1>1 DEF FromLibrary
<1>4. ASSUME NEW v, NEW n, Exact(v, n)
      PROVE  Exact(v, n)'
  BY <1>1, <1>2, <1>3, <1>4 DEF Exact
<1>5. ASSUME Alternates
      PROVE  Alternates'
  BY <1>1, <1>2, <1>5 DEF Alternates
<1>6. ASSUME LogExact
      PROVE  LogExact'
  BY <1>1, <1>4, <1>6 DEF LogExact
<1>. QED
  BY <1>4, <1>5, <1>6

(* Where nothing is told to this player, the counts stay. *)
LEMMA ExactShifts ==
  ASSUME Shape, NEW j \in Nat, NEW k \in Nat, j <= k, k <= Len(log), NEW v, Exact(v, j),
         \A n \in j + 1 .. k : ~ForMe(n)
  PROVE  Exact(v, k)
<1>1. \A n \in j + 1 .. Len(log) : n \in k + 1 .. Len(log) \/ ~ForMe(n)
  BY ShapeNumbers
<1>2. \A n \in k + 1 .. Len(log) : n \in j + 1 .. Len(log)
  BY ShapeNumbers
<1>3. ASSUME NEW p \in Players
      PROVE  FromLibrary(j, p) = FromLibrary(k, p)
  BY <1>1, <1>2 DEF FromLibrary, LibraryEvent, ForMe
<1>4. ASSUME NEW c \in OwnCards
      PROVE  HeldAt(j, c) <=> HeldAt(k, c)
  <2>. DEFINE H(n) == HandEvent(log[n], c)
              B(n) == Brings(log[n])
              L == Len(log)
              held == match.zone[c] = "hand"
  <2>1. \A i : HeldAt(i, c) <=>
          \/ held /\ \A n \in i + 1 .. L : ~H(n)
          \/ \E n \in i + 1 .. L : H(n) /\ ~B(n) /\ \A a \in i + 1 .. n - 1 : ~H(a)
    BY DEF HeldAt
  <2>2. \A n \in j + 1 .. L : n \in k + 1 .. L \/ ~H(n)
    BY <1>1 DEF HandEvent, ForMe
  <2>3. L \in Nat
    BY ShapeNumbers
  <2>. HIDE DEF H, B, L, held
  <2>4. (\A n \in j + 1 .. L : ~H(n)) <=> (\A n \in k + 1 .. L : ~H(n))
    BY <2>2, <2>3
  <2>5. ASSUME NEW n \in k + 1 .. L
        PROVE  (\A a \in j + 1 .. n - 1 : ~H(a)) <=> (\A a \in k + 1 .. n - 1 : ~H(a))
    BY <2>2, <2>3
  <2>6. (\E n \in j + 1 .. L : H(n) /\ ~B(n) /\ \A a \in j + 1 .. n - 1 : ~H(a))
          <=> (\E n \in k + 1 .. L : H(n) /\ ~B(n) /\ \A a \in k + 1 .. n - 1 : ~H(a))
    <3>1. \A n \in k + 1 .. L : n \in j + 1 .. L
      BY <2>3
    <3>. QED
      BY <2>2, <2>5, <3>1
  <2>. QED
    BY <2>1, <2>4, <2>6
<1>. QED
  BY <1>3, <1>4 DEF Exact

\* What an event for this player makes of the counts.
Counted(w, v, e) ==
  /\ \A p \in Players :
       w.library_count[p] = IF LibraryEvent(e, p) THEN Less(v.library_count[p])
                                                  ELSE v.library_count[p]
  /\ w.hand_count[Me] = Cardinality(w.hand[Me])

(* An event of a card counts it once. *)
LEMMA CardCounts ==
  ASSUME NEW k \in Nat, NEW v, ShowsTo(v, k), NEW e, Fits(e, k), Me \in e.to,
         v.hand_count[Me] = Cardinality(v.hand[Me]),
         \A c \in OwnCards : HandEvent(e, c) /\ ~Brings(e) => c \in v.hand[Me],
         e.kind \in {"card_drawn", "card_played", "permanent_entered"}
  PROVE  Counted(Applied(v, e), v, e)
<1>1. /\ e.card \in Cards /\ e.player = Owner[e.card] /\ e.player \in Players
      /\ e.kind = "card_played" => e.entry \in 0 .. k
  BY CardsOwned DEF Fits, OfCard
<1>2. /\ v.library_count \in [Players -> 0 .. Cardinality(Cards)]
      /\ v.hand \in [Players -> SUBSET Cards] /\ v.hand_count \in [Players -> Nat]
      /\ Me \in Players
  BY ViewFields DEF ShowsTo, Players
<1>3. CASE e.kind = "card_drawn"
  <2>. DEFINE c == e.card
              w == Drawn(v, Owner[c], c)
  <2>1. IsDrawn(w, v, c, k) /\ Applied(v, e) = w
    BY <1>1, <1>3, DrawnFits DEF Applied
  <2>. HIDE DEF w
  <2>2. \A p \in Players : LibraryEvent(e, p) <=> p = Owner[c]
    BY <1>1, <1>3 DEF LibraryEvent
  <2>3. CASE Owner[c] = Me
    <3>1. /\ w.hand[Me] = v.hand[Me] \cup {c}
          /\ w.hand_count[Me] = IF Cardinality(v.hand[Me] \cup {c}) >= v.hand_count[Me]
                                THEN Cardinality(v.hand[Me] \cup {c}) ELSE v.hand_count[Me] + 1
      BY <1>2, <2>1, <2>3 DEF IsDrawn
    <3>2. Cardinality(v.hand[Me] \cup {c}) >= Cardinality(v.hand[Me])
      <4>1. v.hand[Me] \cup {c} \in SUBSET Cards /\ v.hand[Me] \in SUBSET Cards
        BY <1>1, <1>2
      <4>2. IsFiniteSet(v.hand[Me] \cup {c})
        BY <4>1, HandsFinite
      <4>3. Cardinality(v.hand[Me]) <= Cardinality(v.hand[Me] \cup {c})
        BY <4>2, FS_Subset
      <4>4. Cardinality(v.hand[Me]) \in Nat /\ Cardinality(v.hand[Me] \cup {c}) \in Nat
        BY <4>1, HandsFinite
      <4>. QED
        BY <4>3, <4>4
    <3>3. w.hand_count[Me] = Cardinality(w.hand[Me])
      BY <3>1, <3>2
    <3>4. \A p \in Players : w.library_count[p] = IF p = Owner[c] THEN Less(v.library_count[p])
                                                                ELSE v.library_count[p]
      BY <1>1, <1>2, <2>1 DEF IsDrawn
    <3>. QED
      BY <2>1, <2>2, <3>3, <3>4 DEF Counted
  <2>4. CASE Owner[c] # Me
    <3>1. w.hand[Me] = v.hand[Me] /\ w.hand_count[Me] = v.hand_count[Me]
      BY <1>1, <1>2, <2>1, <2>4 DEF IsDrawn
    <3>2. \A p \in Players : w.library_count[p] = IF p = Owner[c] THEN Less(v.library_count[p])
                                                                ELSE v.library_count[p]
      BY <1>1, <1>2, <2>1 DEF IsDrawn
    <3>. QED
      BY <2>1, <2>2, <3>1, <3>2 DEF Counted
  <2>. QED
    BY <2>3, <2>4
<1>4. CASE e.kind = "card_played"
  <2>. DEFINE c == e.card
              u == OutOfHand(v, Owner[c], c)
              w == Push(u, e.entry)
  <2>1. Applied(v, e) = w
    BY <1>1, <1>4 DEF Applied, CardPlayed
  <2>2. IsOut(u, v, c, k)
    BY <1>1, OutOfHandFits
  <2>. HIDE DEF u
  <2>3. IsPushed(w, u, e.entry, k)
    BY <1>1, <1>4, <2>2, PushFits DEF IsOut
  <2>. HIDE DEF w
  <2>4. /\ w.library_count = v.library_count /\ w.hand = u.hand /\ w.hand_count = u.hand_count
    BY <2>2, <2>3 DEF IsPushed, OtherStack, SameHands, IsOut
  <2>5. \A p \in Players : ~LibraryEvent(e, p)
    BY <1>4 DEF LibraryEvent
  <2>6. u.hand_count[Me] = Cardinality(u.hand[Me])
    <3>1. CASE Owner[c] = Me
      <4>1. c \in v.hand[Me]
        BY <1>1, <1>4, <3>1 DEF HandEvent, Brings, OwnCards
      <4>2. u.hand[Me] = v.hand[Me] \ {c} /\ u.hand_count[Me] = Cardinality(v.hand[Me] \ {c})
        BY <1>2, <2>2, <3>1, <4>1 DEF IsOut
      <4>. QED
        BY <4>2
    <3>2. CASE Owner[c] # Me
      BY <1>1, <1>2, <2>2, <3>2 DEF IsOut
    <3>. QED
      BY <3>1, <3>2
  <2>. QED
    BY <2>1, <2>4, <2>5, <2>6 DEF Counted
<1>5. CASE e.kind = "permanent_entered"
  <2>. DEFINE w == Enters(v, Owner[e.card], e.card)
  <2>1. SameHands(w, v) /\ w.library_count = v.library_count
    <3>1. e.card \in Cards
      BY <1>1
    <3>. QED
      BY ONLY ShowsTo(v, k), <3>1, EntersFits
  <2>2. Applied(v, e) = w
    BY <1>1, <1>5 DEF Applied
  <2>3. \A p \in Players : ~LibraryEvent(e, p)
    BY <1>5 DEF LibraryEvent
  <2>. HIDE DEF w
  <2>. QED
    BY <2>1, <2>2, <2>3 DEF Counted, SameHands
<1>. QED
  BY <1>3, <1>4, <1>5

(* A card that changes zones. *)
LEMMA TransferCounts ==
  ASSUME NEW k \in Nat, NEW v, ShowsTo(v, k), NEW e, Fits(e, k), Me \in e.to,
         v.hand_count[Me] = Cardinality(v.hand[Me]),
         \A c \in OwnCards : HandEvent(e, c) /\ ~Brings(e) => c \in v.hand[Me],
         e.kind = "zone_transfer"
  PROVE  Counted(Applied(v, e), v, e)
<1>. DEFINE c == e.card
            t == Taken(v, e)
            b == Brought(t, Owner[c], c)
<1>1. /\ c \in Cards /\ e.player = Owner[c] /\ Owner[c] \in Players
      /\ e.from \in {"library", "hand", "battlefield"} /\ e.dest \in {"hand", "graveyard"}
  BY CardsOwned DEF Fits, OfCard
<1>2. /\ v.library_count \in [Players -> 0 .. Cardinality(Cards)]
      /\ v.hand \in [Players -> SUBSET Cards] /\ v.hand_count \in [Players -> Nat]
      /\ Me \in Players /\ v \in ViewsTo(k)
  BY ViewFields DEF ShowsTo, Players
<1>3. Applied(v, e) = IF e.dest = "hand" THEN b ELSE t
  <2>1. Applied(v, e) = Transferred(v, e)
    BY DEF Applied
  <2>. QED
    BY <1>1, <1>2, <2>1, TransferredParts
<1>4. \A p \in Players : LibraryEvent(e, p) <=> p = Owner[c] /\ e.from = "library"
  BY <1>1 DEF LibraryEvent
<1>5. /\ ShowsTo(t, k)
      /\ \A p \in Players :
           t.library_count[p] = IF p = Owner[c] /\ e.from = "library"
                                THEN Less(v.library_count[p]) ELSE v.library_count[p]
      /\ e.dest # "hand" \/ Owner[c] # Me => t.hand_count[Me] = Cardinality(t.hand[Me])
  <2>1. CASE e.from = "hand"
    <3>. DEFINE u == OutOfHand(v, Owner[c], c)
    <3>1. IsOut(u, v, c, k) /\ t = u
      BY <1>1, <2>1, OutOfHandFits DEF Taken
    <3>. HIDE DEF u, t
    <3>2. e.dest # "hand" \/ Owner[c] # Me => u.hand_count[Me] = Cardinality(u.hand[Me])
      <4>1. CASE Owner[c] = Me /\ e.dest # "hand"
        <5>1. c \in v.hand[Me]
          BY <1>1, <2>1, <4>1 DEF HandEvent, Brings, OwnCards
        <5>2. u.hand[Me] = v.hand[Me] \ {c} /\ u.hand_count[Me] = Cardinality(v.hand[Me] \ {c})
          BY <1>2, <3>1, <4>1, <5>1 DEF IsOut
        <5>. QED
          BY <5>2
      <4>2. CASE Owner[c] # Me
        BY <1>1, <1>2, <3>1, <4>2 DEF IsOut
      <4>. QED
        BY <4>1, <4>2
    <3>. QED
      BY <2>1, <3>1, <3>2 DEF IsOut
  <2>2. CASE e.from = "battlefield"
    <3>. DEFINE u == Left(v, Owner[c], c)
    <3>1. HasLeft(u, v, c, k) /\ t = u
      BY <1>1, <2>2, LeftFits DEF Taken
    <3>. HIDE DEF u, t
    <3>. QED
      BY <2>2, <3>1 DEF HasLeft, SameHands
  <2>3. CASE e.from = "library"
    <3>. DEFINE u == Fewer(v, Owner[c])
    <3>1. IsFewer(u, v, Owner[c], k) /\ t = u
      BY <1>1, <2>3, FewerFits DEF Taken
    <3>. HIDE DEF u, t
    <3>. QED
      BY <1>1, <1>2, <2>3, <3>1 DEF IsFewer, SameHands
  <2>. QED
    BY <1>1, <2>1, <2>2, <2>3
<1>. HIDE DEF t
<1>6. IsBrought(b, t, c, k)
  BY <1>1, <1>5, BroughtFits
<1>. HIDE DEF b
<1>7. CASE e.dest = "hand"
  <2>1. b.library_count = t.library_count /\ t.hand \in [Players -> SUBSET Cards]
        /\ t.hand_count \in [Players -> Nat]
    BY <1>5, <1>6, ViewFields DEF IsBrought, ShowsTo
  <2>2. b.hand_count[Me] = Cardinality(b.hand[Me])
    <3>1. CASE Owner[c] = Me
      BY <1>2, <1>6, <2>1, <3>1 DEF IsBrought
    <3>2. CASE Owner[c] # Me
      <4>1. b.hand_count[Me] = t.hand_count[Me] /\ b.hand[Me] = t.hand[Me]
        BY <1>1, <1>2, <1>6, <2>1, <3>2 DEF IsBrought
      <4>. QED
        BY <1>5, <3>2, <4>1
    <3>. QED
      BY <3>1, <3>2
  <2>. QED
    BY <1>3, <1>4, <1>5, <1>7, <2>1, <2>2 DEF Counted
<1>8. CASE e.dest # "hand"
  BY <1>3, <1>4, <1>5, <1>8 DEF Counted
<1>. QED
  BY <1>7, <1>8

(* Every event but a snapshot. *)
LEMMA EventCounts ==
  ASSUME NEW k \in Nat, NEW v, ShowsTo(v, k), NEW e, Fits(e, k), Me \in e.to,
         v.hand_count[Me] = Cardinality(v.hand[Me]),
         \A c \in OwnCards : HandEvent(e, c) /\ ~Brings(e) => c \in v.hand[Me],
         e.kind # "snapshot"
  PROVE  Counted(Applied(v, e), v, e)
<1>1. e.kind \in OfCard \cup {"life_changed", "damage_dealt", "permanent_destroyed",
                              "spell_resolved", "ability_activated", "action_prompt", "game_over"}
  BY DEF Fits
<1>2. CASE e.kind \in OfCard
  BY <1>2, CardCounts, TransferCounts DEF OfCard
<1>3. CASE e.kind \notin OfCard
  <2>. DEFINE w == Applied(v, e)
  <2>1. SUFFICES w.library_count = v.library_count /\ SameHands(w, v)
    BY <1>3 DEF Counted, SameHands, LibraryEvent, OfCard
  <2>2. CASE e.kind = "life_changed"
    <3>1. w = LifeShown(v, e.player, e.total) /\ e.player \in Players /\ e.total \in Int
      BY <2>2 DEF Applied, Fits
    <3>2. IsLife(w, v, e.player, e.total, k)
      BY <3>1, LifeFits
    <3>. QED
      BY <3>2 DEF IsLife
  <2>3. CASE e.kind = "damage_dealt"
    <3>1. w = Hit(v, e.player, e.amount) /\ e.player \in Players /\ e.amount \in Int
      BY <2>3 DEF Applied, Fits
    <3>2. IsLife(w, v, e.player, v.life[e.player] - e.amount, k)
      BY <3>1, HitFits
    <3>. QED
      BY <3>2 DEF IsLife
  <2>4. CASE e.kind = "permanent_destroyed"
    <3>1. w = Destroyed(v, e.card)
      BY <2>4 DEF Applied
    <3>. DEFINE x == Destroyed(v, e.card)
    <3>2. SameHands(x, v) /\ x.library_count = v.library_count
      BY DestroyedFits
    <3>. HIDE DEF x
    <3>3. w = x
      BY <3>1 DEF x
    <3>. QED
      BY <3>2, <3>3
  <2>5. CASE e.kind = "spell_resolved"
    <3>1. w = Erase(v, e.entry)
      BY <2>5 DEF Applied
    <3>2. IsErased(w, v, e.entry, k)
      BY <3>1, EraseFits
    <3>. QED
      BY <3>2 DEF IsErased, OtherStack
  <2>6. CASE e.kind = "ability_activated"
    <3>1. w = Push(v, e.entry) /\ e.entry \in 0 .. k
      BY <2>6 DEF Applied, Fits
    <3>2. IsPushed(w, v, e.entry, k)
      BY <3>1, PushFits
    <3>. QED
      BY <3>2 DEF IsPushed, OtherStack
  <2>7. CASE e.kind \in {"action_prompt", "game_over"}
    <3>1. w = v
      BY <2>7 DEF Applied
    <3>. QED
      BY <3>1 DEF SameHands
  <2>. QED
    BY <1>1, <1>3, <2>2, <2>3, <2>4, <2>5, <2>6, <2>7
<1>. QED
  BY <1>2, <1>3

(* The hand after one more event. *)
LEMMA HeldNext ==
  ASSUME Len(log) \in Nat, NEW n \in 1 .. Len(log), NEW c
  PROVE  /\ ~HandEvent(log[n], c) => (HeldAt(n - 1, c) <=> HeldAt(n, c))
         /\ HandEvent(log[n], c) /\ ~Brings(log[n]) => HeldAt(n - 1, c)
<1>. DEFINE H(i) == HandEvent(log[i], c)
            B(i) == Brings(log[i])
            L == Len(log)
            held == match.zone[c] = "hand"
<1>1. \A i : HeldAt(i, c) <=>
        \/ held /\ \A j \in i + 1 .. L : ~H(j)
        \/ \E j \in i + 1 .. L : H(j) /\ ~B(j) /\ \A a \in i + 1 .. j - 1 : ~H(a)
  BY DEF HeldAt
<1>2. L \in Nat /\ n \in 1 .. L
  OBVIOUS
<1>. HIDE DEF H, B, L, held
<1>3. ASSUME ~H(n)
      PROVE  HeldAt(n - 1, c) <=> HeldAt(n, c)
  <2>1. (\A j \in n - 1 + 1 .. L : ~H(j)) <=> (\A j \in n + 1 .. L : ~H(j))
    BY <1>2, <1>3
  <2>2. ASSUME NEW j \in n + 1 .. L
        PROVE  (\A a \in n - 1 + 1 .. j - 1 : ~H(a)) <=> (\A a \in n + 1 .. j - 1 : ~H(a))
    BY <1>2, <1>3
  <2>3. \A j \in n - 1 + 1 .. L : j \in n + 1 .. L \/ ~H(j)
    BY <1>2, <1>3
  <2>4. \A j \in n + 1 .. L : j \in n - 1 + 1 .. L
    BY <1>2
  <2>5. (\E j \in n - 1 + 1 .. L : H(j) /\ ~B(j) /\ \A a \in n - 1 + 1 .. j - 1 : ~H(a))
          <=> (\E j \in n + 1 .. L : H(j) /\ ~B(j) /\ \A a \in n + 1 .. j - 1 : ~H(a))
    BY <2>2, <2>3, <2>4
  <2>. QED
    BY <1>1, <2>1, <2>5
<1>4. ASSUME H(n), ~B(n)
      PROVE  HeldAt(n - 1, c)
  <2>1. n \in n - 1 + 1 .. L /\ \A a \in n - 1 + 1 .. n - 1 : FALSE
    BY <1>2
  <2>. QED
    BY <1>1, <1>4, <2>1
<1>. QED
  BY <1>3, <1>4 DEF H, B

(* The library after one more event. *)
LEMMA LibraryNext ==
  ASSUME Len(log) \in Nat, NEW n \in 1 .. Len(log), NEW p
  PROVE  /\ Cardinality(FromLibrary(n, p)) \in Nat
         /\ Cardinality(FromLibrary(n - 1, p)) = IF LibraryEvent(log[n], p)
                                                 THEN Cardinality(FromLibrary(n, p)) + 1
                                                 ELSE Cardinality(FromLibrary(n, p))
<1>1. /\ IsFiniteSet(FromLibrary(n, p)) /\ Cardinality(FromLibrary(n, p)) \in Nat
      /\ n \notin FromLibrary(n, p)
  BY LibrariesFinite
<1>2. \A j : j \in n - 1 + 1 .. Len(log) <=> j = n \/ j \in n + 1 .. Len(log)
  OBVIOUS
<1>3. CASE LibraryEvent(log[n], p)
  <2>1. FromLibrary(n - 1, p) = FromLibrary(n, p) \cup {n}
    BY <1>2, <1>3 DEF FromLibrary
  <2>. QED
    BY <1>1, <1>3, <2>1, FS_AddElement
<1>4. CASE ~LibraryEvent(log[n], p)
  <2>1. FromLibrary(n - 1, p) = FromLibrary(n, p)
    BY <1>2, <1>4 DEF FromLibrary
  <2>. QED
    BY <1>1, <1>4, <2>1
<1>. QED
  BY <1>3, <1>4

(* The next event for this player keeps the counts exact. *)
LEMMA ExactNext ==
  ASSUME Shape, Alternates, NEW n \in 1 .. Len(log), ForMe(n), NEW e, e = log[n],
         e.kind # "snapshot",
         NEW v, ShowsTo(v, match.entries), Exact(v, n - 1), NEW w, w = Applied(v, e)
  PROVE  Exact(w, n)
<1>1. Len(log) \in Nat /\ match.entries \in Nat /\ Fits(e, match.entries) /\ Me \in e.to
  BY ShapeNumbers DEF Shape, LogFits, ForMe
<1>2. \A c \in OwnCards : HandEvent(e, c) /\ ~Brings(e) => c \in v.hand[Me]
  BY <1>1, HeldNext DEF Exact
<1>3. Counted(w, v, e)
  BY <1>1, <1>2, EventCounts DEF Exact
<1>4. Sees(w, v, e, match.entries)
  BY <1>1, SeesEvent
<1>5. ASSUME NEW p \in Players
      PROVE  w.library_count[p] = Cardinality(Library(match, p)) + Cardinality(FromLibrary(n, p))
  <2>1. Cardinality(Library(match, p)) \in Nat
    <3>1. Library(match, p) \in SUBSET Cards
      BY DEF Library
    <3>. QED
      BY <3>1, HandsFinite
  <2>2. v.library_count[p] = Cardinality(Library(match, p)) + Cardinality(FromLibrary(n - 1, p))
    BY DEF Exact
  <2>3. w.library_count[p] = IF LibraryEvent(e, p) THEN Less(v.library_count[p])
                                                   ELSE v.library_count[p]
    BY <1>3 DEF Counted
  <2>4. /\ Cardinality(FromLibrary(n, p)) \in Nat
        /\ Cardinality(FromLibrary(n - 1, p)) = IF LibraryEvent(e, p)
                                                THEN Cardinality(FromLibrary(n, p)) + 1
                                                ELSE Cardinality(FromLibrary(n, p))
    BY <1>1, LibraryNext
  <2>. QED
    BY <2>1, <2>2, <2>3, <2>4 DEF Less
<1>6. ASSUME NEW c \in OwnCards
      PROVE  c \in w.hand[Me] <=> HeldAt(n, c)
  <2>. DEFINE m == [of |-> "hand", card |-> c]
  <2>1. m \in Marks /\ m.of = "hand" /\ m.card = c
    BY DEF Marks
  <2>. HIDE DEF m
  <2>2. Follows(w, v, e, m)
    BY <1>4, <2>1 DEF Sees
  <2>3. Touches(e, m) <=> HandEvent(e, c)
    BY <1>1, <2>1 DEF Touches, HandEvent
  <2>4. HandEvent(e, c) => e.kind # "damage_dealt" /\ (Says(e, m) <=> Brings(e))
    BY <2>1 DEF Says, Brings, HandEvent
  <2>5. CASE HandEvent(e, c)
    <3>1. HeldAt(n, c) <=> Brings(e)
      BY <2>5 DEF Alternates
    <3>2. Has(w, m) <=> Says(e, m)
      BY <2>2, <2>3, <2>4, <2>5 DEF Follows
    <3>. QED
      BY <2>1, <2>4, <2>5, <3>1, <3>2 DEF Has
  <2>6. CASE ~HandEvent(e, c)
    <3>1. HeldAt(n - 1, c) <=> HeldAt(n, c)
      BY <1>1, <2>6, HeldNext
    <3>2. Has(w, m) <=> Has(v, m)
      BY <2>2, <2>3, <2>6 DEF Follows
    <3>3. c \in v.hand[Me] <=> HeldAt(n - 1, c)
      BY DEF Exact
    <3>. QED
      BY <2>1, <3>1, <3>2, <3>3 DEF Has
  <2>. QED
    BY <2>5, <2>6
<1>. QED
  BY <1>3, <1>5, <1>6 DEF Exact, Counted

(* What Latest is. *)
LEMMA LatestFits ==
  ASSUME Shape
  PROVE  /\ Latest \in 0 .. Len(log) /\ local.last <= Latest /\ history.upto <= Latest
         /\ Latest = local.last \/ Latest = history.upto
BY ShapeNumbers DEF Latest, Shape, ClientFits

(* The steps that bring nothing. *)
LEMMA CalmCounts ==
  ASSUME Shape, Counts, Calm
  PROVE  Counts'
<1>1. /\ \A v, n : Exact(v, n) => Exact(v, n)'
      /\ Alternates' /\ LogExact'
  BY SameCounts DEF Counts, Calm
<1>2. SnapsExact'
  <2>1. ASSUME action'.stage = "snapshot"
        PROVE  Exact(action'.view, action'.upto)
    BY <2>1, SnapshotExact DEF Counts, SnapsExact, Calm
  <2>2. ASSUME rejoin'.stage = "answered"
        PROVE  Exact(rejoin'.view, rejoin'.upto)
    BY <2>2, SnapshotExact DEF Counts, SnapsExact, Calm
  <2>. QED
    BY <1>1, <2>1, <2>2 DEF SnapsExact
<1>3. ViewExact'
  <2>1. SUFFICES ASSUME action'.stage = "live", history'.astray = 0, ~history'.again
                 PROVE  \/ Exact(local.view, Latest)'
                        \/ \E f \in 1 .. Latest' : ForMe(f)' /\ Coming(f)'
    BY DEF ViewExact
  <2>2. /\ action.stage = "live" /\ history.astray = 0 /\ ~history.again
        /\ local'.view = local.view /\ Latest' = Latest
        /\ \A f \in 1 .. Len(log) : Coming(f) => Coming(f)'
    BY <2>1 DEF Calm, Latest
  <2>3. \A f : ForMe(f) => ForMe(f)'
    BY DEF Calm, SameGame, ForMe
  <2>4. \A f \in 1 .. Latest : f \in 1 .. Len(log)
    BY LatestFits, ShapeNumbers
  <2>5. CASE Exact(local.view, Latest)
    BY <1>1, <2>2, <2>5
  <2>6. CASE \E f \in 1 .. Latest : ForMe(f) /\ Coming(f)
    BY <2>2, <2>3, <2>4, <2>6
  <2>. QED
    BY <2>2, <2>5, <2>6 DEF Counts, ViewExact
<1>. QED
  BY <1>1, <1>2, <1>3 DEF Counts

(* Snapshots under way stay as exact as they are. *)
LEMMA SnapsStayExact ==
  ASSUME Shape, SameGame, SnapsExact,
         action'.stage = "snapshot" => action.stage = "snapshot" /\ action'.view = action.view
                                         /\ action'.upto = action.upto,
         rejoin'.stage = "answered" => rejoin' = rejoin
  PROVE  SnapsExact'
<1>1. \A v, n : Exact(v, n) => Exact(v, n)'
  BY SameCounts
<1>. QED
  BY <1>1 DEF SnapsExact

(* What is exact after the j-th event is exact after the k-th too, or one in *)
(* between is for this player.                                                *)
LEMMA ExactUnless ==
  ASSUME Shape, NEW j \in Nat, NEW k \in Nat, j <= k, k <= Len(log), NEW v, Exact(v, j)
  PROVE  Exact(v, k) \/ \E f \in 1 .. k : f > j /\ ForMe(f)
<1>1. CASE \A n \in j + 1 .. k : ~ForMe(n)
  BY <1>1, ExactShifts
<1>2. CASE ~(\A n \in j + 1 .. k : ~ForMe(n))
  <2>1. PICK f \in j + 1 .. k : ForMe(f)
    BY <1>2
  <2>2. f \in 1 .. k /\ f > j
    OBVIOUS
  <2>. QED
    BY <2>1, <2>2
<1>. QED
  BY <1>1, <1>2

(* The action stream's snapshot. *)
LEMMA FirstCounts ==
  ASSUME Shape, Counts, IsReceiveSnapshot
  PROVE  Counts'
<1>1. /\ Still /\ SameGame /\ rejoin' = rejoin /\ state' = state
      /\ action.stage = "snapshot" /\ action'.stage = "live" /\ action'.next = action.next
      /\ local'.view = action.view /\ local'.last = local.last
      /\ history'.upto = action.upto
      /\ action.upto \in 0 .. Len(log) /\ action.next <= action.upto + 1
      /\ action.next \in 1 .. Len(log) + 1
  BY StillSame DEF IsReceiveSnapshot, Turns, Resets
<1>2. /\ \A v, n : Exact(v, n) => Exact(v, n)'
      /\ Alternates' /\ LogExact' /\ SnapsExact'
  BY <1>1, SameCounts, SnapsStayExact DEF Counts
<1>3. ViewExact'
  <2>. DEFINE k == IF local.last > action.upto THEN local.last ELSE action.upto
  <2>1. Latest' = k
    BY <1>1 DEF Latest
  <2>2. k \in 0 .. Len(log) /\ action.upto <= k
    BY <1>1, ShapeNumbers
  <2>. HIDE DEF k
  <2>3. Exact(action.view, action.upto)
    BY <1>1 DEF Counts, SnapsExact
  <2>4. Exact(action.view, k) \/ \E f \in 1 .. k : f > action.upto /\ ForMe(f)
    BY <1>1, <2>2, <2>3, ExactUnless, ShapeNumbers
  <2>5. ASSUME NEW f \in 1 .. k, f > action.upto, ForMe(f)
        PROVE  ForMe(f)' /\ Coming(f)'
    BY <1>1, <2>2, <2>5, ShapeNumbers DEF Coming, ForMe, Still
  <2>6. Exact(local.view, Latest)' \/ \E f \in 1 .. k : ForMe(f)' /\ Coming(f)'
    <3>1. CASE Exact(action.view, k)
      BY <1>1, <1>2, <2>1, <3>1
    <3>. QED
      BY <2>4, <2>5, <3>1
  <2>. QED
    BY <2>1, <2>6 DEF ViewExact
<1>. QED
  BY <1>2, <1>3 DEF Counts

(* The answer to RejoinGame. *)
LEMMA RejoinedCounts ==
  ASSUME Shape, Counts, IsReceiveRejoin
  PROVE  Counts'
<1>1. /\ Still /\ SameGame /\ action' = action
      /\ rejoin.stage = "answered" /\ rejoin'.stage = "none" /\ rejoin.upto \in 0 .. Len(log)
      /\ local'.view = rejoin.view /\ local'.last = local.last
      /\ history'.upto = rejoin.upto
      /\ history'.astray = 0 => local.last <= rejoin.upto
  BY StillSame DEF IsReceiveRejoin, Turns
<1>2. /\ \A v, n : Exact(v, n) => Exact(v, n)'
      /\ Alternates' /\ LogExact' /\ SnapsExact'
  BY <1>1, SameCounts, SnapsStayExact DEF Counts
<1>3. ViewExact'
  <2>1. SUFFICES ASSUME history'.astray = 0
                 PROVE  Exact(local.view, Latest)'
    BY DEF ViewExact
  <2>2. Latest' = rejoin.upto
    BY <1>1, <2>1, ShapeNumbers DEF Latest
  <2>3. Exact(rejoin.view, rejoin.upto)
    BY <1>1 DEF Counts, SnapsExact
  <2>. QED
    BY <1>1, <1>2, <2>2, <2>3
<1>. QED
  BY <1>2, <1>3 DEF Counts

(* An event that is shown. *)
LEMMA ShownCounts ==
  ASSUME Shape, Tells, Counts, NEW n, BringsNext(n)
  PROVE  Counts'
<1>. DEFINE e == log[n]
<1>1. /\ IsShow(n) /\ Still /\ SameGame /\ rejoin' = rejoin /\ n \in 1 .. Len(log)
      /\ local'.last = IF n > local.last THEN n ELSE local.last
      /\ Learns(history', e, n)
  BY StillSame DEF BringsNext, IsShow
<1>2. /\ \A v, i : Exact(v, i) => Exact(v, i)'
      /\ Alternates' /\ LogExact' /\ SnapsExact'
  BY <1>1, SameCounts, SnapsStayExact DEF Counts, BringsNext
<1>3. \A f : ForMe(f) => ForMe(f)'
  BY <1>1 DEF ForMe, Still
<1>4. ViewExact'
  <2>1. SUFFICES ASSUME action'.stage = "live", history'.astray = 0, ~history'.again
                 PROVE  \/ Exact(local.view, Latest)'
                        \/ \E f \in 1 .. Latest' : ForMe(f)' /\ Coming(f)'
    BY DEF ViewExact
  <2>2. action.stage = "live" /\ local.has /\ local'.view = Applied(local.view, e)
    BY <1>1, <2>1 DEF BringsNext, IsShow, Shape, ClientFits
  <2>3. \A f \in 1 .. Len(log) : f > n => Coming(f)'
    BY <2>2 DEF BringsNext
  <2>4. CASE e.kind = "snapshot" /\ e.for = Me /\ Resets(history', n)
    <3>. DEFINE k == IF n > local.last THEN n ELSE local.last
    <3>1. k \in 0 .. Len(log) /\ n <= k
      BY <1>1, ShapeNumbers
    <3>2. Latest' = k
      BY <1>1, <2>4, <3>1, ShapeNumbers DEF Latest, Resets
    <3>. HIDE DEF k
    <3>3. local'.view = e.view
      BY <2>2, <2>4 DEF Applied
    <3>4. Exact(e.view, n)
      BY <1>1, <2>4 DEF Counts, LogExact
    <3>5. Exact(e.view, k) \/ \E f \in 1 .. k : f > n /\ ForMe(f)
      BY <1>1, <3>1, <3>4, ExactUnless, ShapeNumbers
    <3>6. CASE Exact(e.view, k)
      BY <1>2, <3>2, <3>3, <3>6
    <3>7. CASE \E f \in 1 .. k : f > n /\ ForMe(f)
      <4>1. \A f \in 1 .. k : f \in 1 .. Len(log)
        BY <3>1, ShapeNumbers
      <4>. QED
        BY <1>3, <2>3, <3>2, <3>7, <4>1
    <3>. QED
      BY <3>5, <3>6, <3>7
  <2>5. CASE ~(e.kind = "snapshot" /\ e.for = Me /\ Resets(history', n))
    <3>1. /\ e.kind # "snapshot" /\ ~history.again /\ history.astray = 0
          /\ n > local.last /\ n > history.upto /\ ForMe(n) /\ history'.upto = history.upto
      BY <1>1, <2>1, <2>5 DEF Learns, ForMe
    <3>2. Latest' = n /\ Latest \in 0 .. Len(log) /\ Latest < n
          /\ local.last <= Latest /\ history.upto <= Latest
      BY <1>1, <3>1, LatestFits, ShapeNumbers DEF Latest
    <3>3. \A f \in 1 .. Len(log) : ForMe(f) /\ Coming(f) /\ f # n => Coming(f)'
      BY DEF BringsNext
    <3>4. CASE \E f \in 1 .. Latest : ForMe(f) /\ Coming(f)
      <4>1. PICK f \in 1 .. Latest : ForMe(f) /\ Coming(f)
        BY <3>4
      <4>2. f \in 1 .. Len(log) /\ f # n /\ f \in 1 .. n
        BY <1>1, <3>2, ShapeNumbers
      <4>. QED
        BY <1>3, <3>2, <3>3, <4>1, <4>2
    <3>5. CASE Exact(local.view, Latest)
      <4>1. n - 1 \in Nat /\ Latest \in Nat /\ Latest <= n - 1 /\ n - 1 <= Len(log)
        BY <1>1, <3>2, ShapeNumbers
      <4>2. Exact(local.view, n - 1) \/ \E f \in 1 .. n - 1 : f > Latest /\ ForMe(f)
        BY <3>5, <4>1, ExactUnless
      <4>3. CASE Exact(local.view, n - 1)
        <5>1. Exact(local'.view, n)
          BY <1>1, <2>2, <3>1, <4>3, ExactNext, ShapeNumbers DEF Counts
        <5>. QED
          BY <1>2, <3>2, <5>1
      <4>4. CASE \E f \in 1 .. n - 1 : f > Latest /\ ForMe(f)
        <5>1. PICK f \in 1 .. n - 1 : f > Latest /\ ForMe(f)
          BY <4>4
        <5>2. /\ f \in 1 .. Len(log) /\ f \in 1 .. n /\ f # n
              /\ f > local.last /\ f > history.upto /\ f > history.astray
          BY <1>1, <3>1, <3>2, <5>1, ShapeNumbers
        <5>3. Coming(f)
          BY <2>2, <5>1, <5>2 DEF Tells, Reach
        <5>. QED
          BY <1>3, <3>2, <3>3, <5>1, <5>2, <5>3
      <4>. QED
        BY <4>2, <4>3, <4>4
    <3>. QED
      BY <2>2, <3>1, <3>4, <3>5 DEF Counts, ViewExact
  <2>. QED
    BY <2>4, <2>5
<1>. QED
  BY <1>2, <1>4 DEF Counts

(* Every step keeps the counts. *)
LEMMA StepsCount ==
  ASSUME Shape, Tells, Counts, Steps
  PROVE  Counts'
<1>1. CASE \E k \in 0 .. 2 : OnlyGrows(k) /\ Waits(k)
  BY <1>1, GrowsCounts
<1>2. CASE \E n \in 1 .. Len(log) : IsReceiveAction(n) \/ IsReceiveState(n)
  BY <1>2, ActionBrings, StateBrings, ShownCounts
<1>. QED
  BY <1>1, <1>2, CalmSteps, CalmCounts, FirstCounts, RejoinedCounts DEF Steps

(* Initially nothing is counted. *)
LEMMA InitCounts ==
  ASSUME ViewInit
  PROVE  Counts
<1>1. Len(log) = 0 /\ action.stage \in {"none", "opened"} /\ rejoin.stage = "none"
  BY DEF ViewInit, NoReader, NoAnswer
<1>2. Alternates /\ LogExact
  BY <1>1 DEF Alternates, LogExact
<1>. QED
  BY <1>1, <1>2 DEF Counts, SnapsExact, ViewExact

(* The counts when all has come. *)
LEMMA SettledCounts ==
  ASSUME Shape, Tells, Counts
  PROVE  CountsAgree
<1>. DEFINE v == local.view
            real == Snapshot(Me)
<1>1. SUFFICES ASSUME Settled, history.astray = 0, ~history.again
               PROVE  /\ v.library_count = real.library_count
                      /\ v.hand_count[Me] = real.hand_count[Me]
  BY DEF CountsAgree
<1>2. /\ ShowsTo(v, match.entries) /\ ShowsTo(real, match.entries)
      /\ Me \in Players
  BY ShapeNumbers, SnapshotMirrors DEF Shape, Players, Mirrors
<1>3. Exact(real, Len(log))
  BY SnapshotExact
<1>4. action.stage = "live"
  BY <1>1 DEF Settled
<1>5. \A f \in 1 .. Len(log) : ~(ForMe(f) /\ Coming(f))
  BY <1>1, SettledDone
<1>6. /\ Latest \in 0 .. Len(log) /\ Len(log) \in Nat
      /\ \A f \in 1 .. Latest : f \in 1 .. Len(log)
  BY LatestFits, ShapeNumbers
<1>7. Exact(v, Latest)
  BY <1>1, <1>4, <1>5, <1>6 DEF Counts, ViewExact
<1>8. Exact(v, Len(log))
  <2>1. ASSUME NEW f \in 1 .. Len(log), f > Latest, ForMe(f)
        PROVE  FALSE
    <3>1. f > local.last /\ f > history.upto /\ f > history.astray
      BY <1>1, <1>6, <2>1, LatestFits, ShapeNumbers
    <3>2. Coming(f)
      BY <1>4, <2>1, <3>1 DEF Tells, Reach
    <3>. QED
      BY <1>5, <2>1, <3>2
  <2>2. Exact(v, Len(log)) \/ \E f \in 1 .. Len(log) : f > Latest /\ ForMe(f)
    BY <1>6, <1>7, ExactUnless
  <2>. QED
    BY <2>1, <2>2
<1>. HIDE DEF v, real
<1>9. /\ v.library_count \in [Players -> 0 .. Cardinality(Cards)]
      /\ real.library_count \in [Players -> 0 .. Cardinality(Cards)]
      /\ v.hand \in [Players -> SUBSET Cards] /\ real.hand \in [Players -> SUBSET Cards]
  BY <1>2, ViewFields DEF ShowsTo
<1>10. v.library_count = real.library_count
  <2>1. \A p \in Players : v.library_count[p] = real.library_count[p]
    BY <1>3, <1>8 DEF Exact
  <2>. QED
    BY <1>9, <2>1
<1>11. v.hand[Me] = real.hand[Me]
  <2>1. v.hand[Me] \subseteq OwnCards /\ real.hand[Me] \subseteq OwnCards
    BY <1>2, <1>9 DEF ShowsTo, Sorted, OwnCards
  <2>2. \A c \in OwnCards : c \in v.hand[Me] <=> c \in real.hand[Me]
    BY <1>3, <1>8 DEF Exact
  <2>. QED
    BY <2>1, <2>2
<1>. QED
  BY <1>3, <1>8, <1>10, <1>11 DEF Exact

-----------------------------------------------------------------------------
(* The prompt that the game waits for *)

\* It is shown, or a stream will bring it, or one that is being opened.
Awaited ==
  match.awaiting # 0 /\ ~history.answered /\ ~history.missed =>
    \/ local.prompt = match.awaiting
    \/ Coming(match.awaiting)
    \/ action.stage \in {"subscribed", "snapshot"} /\ match.awaiting >= action.next
    \/ /\ action.stage \in {"none", "opened"} /\ match.awaiting > local.last
       /\ state.stage = "none"

\* A state stream will bring it unless it was read.
StateReach ==
  state.stage # "none" /\ match.awaiting > local.last /\ ~history.missed => match.awaiting >= Due

\* The game waits for its last prompt, and for none when it is over, as a client
\* that has learnt of its end knows.
LastAsked ==
  /\ match.awaiting # 0 =>
       /\ log[match.awaiting].kind = "action_prompt"
       /\ \A n \in 1 .. Len(log) : log[n].kind = "action_prompt" => n <= match.awaiting
  /\ match.over => match.awaiting = 0
  /\ local.over => match.over
  /\ \A n \in 1 .. Len(log) : log[n].kind = "game_over" => match.over

Prompts == Awaited /\ StateReach /\ LastAsked

(* The prompt that is waited for is in the log, and for this player. *)
LEMMA AwaitedFits ==
  ASSUME Shape, LastAsked, match.awaiting # 0
  PROVE  match.awaiting \in 1 .. Len(log) /\ ForMe(match.awaiting)
<1>1. match.awaiting \in 1 .. Len(log)
  BY ShapeNumbers DEF Shape, ClientFits
<1>. QED
  BY <1>1 DEF Shape, LogFits, Fits, ForMe, LastAsked

(* A state stream will bring what is due. *)
LEMMA DueFits ==
  ASSUME Shape, state.stage # "none"
  PROVE  /\ Due \in 1 .. Len(log) + 1
         /\ \A f \in 1 .. Len(log) + 1 : f >= Due => Coming(f)
<1>1. StateFits(state, Len(log))
  BY DEF Shape, StreamsFit
<1>. QED
  BY <1>1, ShapeNumbers DEF StateFits, Due, Coming

(* The steps of the game. *)
LEMMA GrowsPrompts ==
  ASSUME Shape, NEW k, OnlyGrows(k), Waits(k), Prompts
  PROVE  Prompts'
<1>1. /\ k \in 0 .. 2 /\ Len(log) \in Nat /\ Len(log') = Len(log) + k
      /\ \A n \in 1 .. Len(log) : log'[n] = log[n]
      /\ action' = action /\ state' = state /\ rejoin' = rejoin /\ local' = local
  BY DEF OnlyGrows, Longer
<1>2. \A n \in 1 .. Len(log') : n \in 1 .. Len(log) \/ \E i \in 1 .. k : n = Len(log) + i
  <2>1. SUFFICES ASSUME NEW n \in 1 .. Len(log'), n \notin 1 .. Len(log)
                 PROVE  n - Len(log) \in 1 .. k /\ n = Len(log) + (n - Len(log))
    OBVIOUS
  <2>. QED
    BY <1>1, <2>1
<1>3. CASE /\ match'.awaiting = match.awaiting /\ match'.over = match.over
           /\ history'.missed = history.missed /\ history'.answered = history.answered
           /\ \A i \in 1 .. k : log'[Len(log) + i].kind \notin {"action_prompt", "game_over"}
  <2>1. Awaited' /\ StateReach'
    BY <1>1, <1>3 DEF Prompts, Awaited, StateReach, Coming, Due
  <2>2. LastAsked'
    <3>1. ASSUME match.awaiting # 0
          PROVE  match.awaiting \in 1 .. Len(log)
      BY <3>1, AwaitedFits DEF Prompts
    <3>. QED
      BY <1>1, <1>2, <1>3, <3>1 DEF Prompts, LastAsked
  <2>. QED
    BY <2>1, <2>2 DEF Prompts
<1>4. CASE /\ k = 1 /\ match'.awaiting = Len(log) + 1 /\ ~match.over /\ ~match'.over
           /\ ~history'.missed /\ ~history'.answered
           /\ log'[Len(log) + 1].kind = "action_prompt"
  <2>. DEFINE a == Len(log) + 1
  <2>1. state.stage # "none" => a >= Due /\ Coming(a)
    BY <1>1, DueFits
  <2>2. action.stage = "live" => Coming(a)
    BY <1>1, NextFits DEF Coming
  <2>3. action.stage \in {"subscribed", "snapshot"} => a >= action.next
    BY <1>1, NextFits
  <2>4. action.stage \in {"none", "opened", "subscribed", "snapshot", "live"}
    BY DEF Shape, StreamsFit, ActionFits
  <2>5. a > local.last
    BY <1>1, ShapeNumbers
  <2>6. \A f : Coming(f)' <=> Coming(f)
    BY <1>1 DEF Coming
  <2>7. Awaited' /\ StateReach'
    BY <1>1, <1>4, <2>1, <2>2, <2>3, <2>4, <2>5, <2>6 DEF Awaited, StateReach, Due
  <2>8. LastAsked'
    <3>1. \A n \in 1 .. Len(log') : n <= match'.awaiting
      BY <1>1, <1>4
    <3>2. \A n \in 1 .. Len(log') : log'[n].kind # "game_over"
      <4>1. \A i \in 1 .. k : i = 1
        BY <1>4
      <4>. QED
        BY <1>1, <1>2, <1>4, <4>1 DEF Prompts, LastAsked
    <3>. QED
      BY <1>1, <1>4, <3>1, <3>2 DEF Prompts, LastAsked
  <2>. QED
    BY <2>7, <2>8 DEF Prompts
<1>5. CASE /\ match'.awaiting = 0 /\ (match.over => match'.over)
           /\ \A i \in 1 .. k : log'[Len(log) + i].kind = "game_over" => match'.over
  <2>1. Awaited' /\ StateReach'
    BY <1>1, <1>5, ShapeNumbers DEF Awaited, StateReach
  <2>2. LastAsked'
    BY <1>1, <1>2, <1>5 DEF Prompts, LastAsked
  <2>. QED
    BY <2>1, <2>2 DEF Prompts
<1>. QED
  BY <1>3, <1>4, <1>5 DEF Waits

-----------------------------------------------------------------------------
(* The steps of the client *)

(* A step of the client keeps which prompt is the last. *)
LEMMA SameLastAsked ==
  ASSUME Shape, SameGame, LastAsked, local'.over => match.over
  PROVE  LastAsked'
BY DEF SameGame, LastAsked

\* The game still waits for a prompt that was neither missed nor answered.
Waiting ==
  /\ match.awaiting \in 1 .. Len(log) /\ ForMe(match.awaiting)
  /\ match'.awaiting = match.awaiting /\ ~history'.missed /\ ~history'.answered

\* It waits for one that was not read, and the client has a state stream.
Reaching ==
  /\ match.awaiting \in 1 .. Len(log) /\ match.awaiting > local'.last
  /\ match'.awaiting = match.awaiting /\ ~history'.missed /\ state'.stage # "none"

(* So much is to prove of a step of the client. *)
LEMMA WaitingSuffices ==
  ASSUME Shape, Shape', SameGame, Prompts, local'.over => match.over,
         Waiting => Awaited',
         Reaching => match.awaiting >= Due'
  PROVE  Prompts'
<1>1. LastAsked'
  BY SameLastAsked DEF Prompts
<1>2. match'.awaiting \in {0, match.awaiting}
  BY DEF SameGame
<1>3. match.awaiting # 0 => match.awaiting \in 1 .. Len(log) /\ ForMe(match.awaiting)
  BY AwaitedFits DEF Prompts
<1>4. Awaited'
  BY <1>2, <1>3 DEF Awaited, Waiting
<1>5. StateReach'
  <2>1. SUFFICES ASSUME state'.stage # "none", match'.awaiting > local'.last, ~history'.missed
                 PROVE  match'.awaiting >= Due'
    BY DEF StateReach
  <2>2. local'.last \in Nat
    BY DEF Shape, ClientFits, LocalFits
  <2>. QED
    BY <1>2, <1>3, <2>1, <2>2 DEF Reaching
<1>. QED
  BY <1>1, <1>4, <1>5 DEF Prompts

(* The steps that open an action stream. *)
LEMMA OpeningPrompts ==
  ASSUME Shape, Shape', Prompts, IsRejoin \/ IsSubscribe \/ IsTakeSnapshot
  PROVE  Prompts'
<1>. DEFINE a == match.awaiting
<1>1. /\ Still /\ SameGame /\ local' = local /\ match' = match
  BY StillSame DEF IsRejoin, IsSubscribe, IsTakeSnapshot, Still
<1>2. /\ local.last \in Nat /\ Len(log) \in Nat /\ (local.over => match.over)
  BY ShapeNumbers DEF Prompts, LastAsked
<1>3. CASE IsRejoin
  <2>1. ASSUME Waiting
        PROVE  Awaited'
    BY <1>1, <1>2, <1>3, <2>1 DEF Waiting, IsRejoin, Prompts, Awaited, Coming
  <2>2. ASSUME Reaching
        PROVE  a >= Due'
    BY <1>1, <1>2, <1>3, <2>2 DEF Reaching, IsRejoin, Prompts, StateReach, Due
  <2>. QED
    BY <1>1, <1>2, <2>1, <2>2, WaitingSuffices
<1>4. CASE IsSubscribe
  <2>1. ASSUME Waiting
        PROVE  Awaited'
    <3>1. /\ state' = state /\ action.stage = "opened" /\ action'.stage = "subscribed"
          /\ ~history.missed /\ (history.answered => history'.answered)
          /\ ~(state.stage = "none" /\ a > local.last)
      BY <1>4, <2>1 DEF Waiting, IsSubscribe, Misses
    <3>. QED
      BY <1>1, <1>2, <2>1, <3>1 DEF Waiting, Prompts, Awaited, Coming
  <2>2. ASSUME Reaching
        PROVE  a >= Due'
    BY <1>1, <1>2, <1>4, <2>2 DEF Reaching, IsSubscribe, Misses, Prompts, StateReach, Due
  <2>. QED
    BY <1>1, <1>2, <2>1, <2>2, WaitingSuffices
<1>5. CASE IsTakeSnapshot
  <2>1. ASSUME Waiting
        PROVE  Awaited'
    BY <1>1, <1>2, <1>5, <2>1 DEF Waiting, IsTakeSnapshot, Prompts, Awaited, Coming
  <2>2. ASSUME Reaching
        PROVE  a >= Due'
    BY <1>1, <1>2, <1>5, <2>2 DEF Reaching, IsTakeSnapshot, Prompts, StateReach, Due
  <2>. QED
    BY <1>1, <1>2, <2>1, <2>2, WaitingSuffices
<1>. QED
  BY <1>3, <1>4, <1>5

(* The steps of the state stream that bring nothing. *)
LEMMA ReadingPrompts ==
  ASSUME Shape, Shape', Prompts, IsReadLog \/ IsFollow \/ IsLoseState
  PROVE  Prompts'
<1>. DEFINE a == match.awaiting
<1>1. /\ Still /\ SameGame /\ local' = local /\ match' = match /\ action' = action
  BY StillSame DEF IsReadLog, IsFollow, IsLoseState, Still
<1>2. /\ local.last \in Nat /\ Len(log) \in Nat /\ (local.over => match.over)
  BY ShapeNumbers DEF Prompts, LastAsked
<1>3. CASE IsReadLog
  <2>1. ASSUME Waiting
        PROVE  Awaited'
    BY <1>1, <1>2, <1>3, <2>1 DEF Waiting, IsReadLog, Prompts, Awaited, Coming
  <2>2. ASSUME Reaching
        PROVE  a >= Due'
    BY <1>1, <1>2, <1>3, <2>2 DEF Reaching, IsReadLog, Prompts, StateReach, Due
  <2>. QED
    BY <1>1, <1>2, <2>1, <2>2, WaitingSuffices
<1>4. CASE IsFollow
  <2>0. /\ state.stage = "replay" /\ state.next \in Nat /\ state.next > state.end
        /\ state.end \in 0 .. Len(log)
        /\ state'.stage = "live" /\ (history.missed => history'.missed)
        /\ history'.answered = history.answered
        /\ a \in state.end + 1 .. Len(log) => history'.missed
    BY <1>4 DEF IsFollow, Passes
  <2>1. ASSUME Waiting
        PROVE  Awaited'
    <3>1. a \in 1 .. Len(log) /\ ~history.missed /\ ~history.answered /\ ~(a >= state.next)
      BY <1>2, <2>0, <2>1 DEF Waiting
    <3>2. \/ local.prompt = a
          \/ action.stage = "live" /\ a >= action.next
          \/ action.stage \in {"subscribed", "snapshot"} /\ a >= action.next
      BY <1>2, <2>0, <3>1 DEF Prompts, Awaited, Coming
    <3>. QED
      BY <1>1, <3>2 DEF Awaited, Coming
  <2>2. ASSUME Reaching
        PROVE  a >= Due'
    BY <1>1, <1>2, <2>0, <2>2 DEF Reaching, Prompts, StateReach, Due
  <2>. QED
    BY <1>1, <1>2, <2>1, <2>2, WaitingSuffices
<1>5. CASE IsLoseState
  <2>0. /\ state.stage # "none" /\ state'.stage = "none" /\ Due \in 1 .. Len(log) + 1
        /\ history.missed => history'.missed
        /\ history'.answered = history.answered
        /\ a \in Due .. Len(log) => history'.missed
    BY <1>5 DEF IsLoseState, Passes
  <2>1. ASSUME Waiting
        PROVE  Awaited'
    <3>1. a \in 1 .. Len(log) /\ ~history.missed /\ ~history.answered /\ ~(a >= Due)
      BY <1>2, <2>0, <2>1 DEF Waiting
    <3>2. Coming(a) => action.stage = "live" /\ a >= action.next
      BY <1>2, <3>1, NextFits DEF Coming, Due
    <3>3. \/ local.prompt = a
          \/ action.stage = "live" /\ a >= action.next
          \/ action.stage \in {"subscribed", "snapshot"} /\ a >= action.next
      BY <1>2, <2>0, <3>1, <3>2 DEF Prompts, Awaited
    <3>. QED
      BY <1>1, <3>3 DEF Awaited, Coming
  <2>. QED
    BY <1>1, <1>2, <2>0, <2>1, WaitingSuffices DEF Reaching
<1>. QED
  BY <1>3, <1>4, <1>5

(* The snapshots. *)
LEMMA SnapshotPrompts ==
  ASSUME Shape, Shape', Prompts, IsReceiveSnapshot \/ IsReceiveRejoin \/ IsAnswerRejoin
  PROVE  Prompts'
<1>. DEFINE a == match.awaiting
<1>1. /\ Still /\ SameGame /\ match' = match /\ state' = state
      /\ local'.last = local.last /\ local'.prompt = local.prompt /\ local'.over = local.over
      /\ history'.missed = history.missed /\ history'.answered = history.answered
      /\ \/ action' = action
         \/ action.stage = "snapshot" /\ action'.stage = "live" /\ action'.next = action.next
  BY StillSame DEF IsReceiveSnapshot, IsReceiveRejoin, IsAnswerRejoin, Still, Turns, Resets
<1>2. /\ local.last \in Nat /\ Len(log) \in Nat /\ (local.over => match.over)
  BY ShapeNumbers DEF Prompts, LastAsked
<1>3. ASSUME Waiting
      PROVE  Awaited'
  BY <1>1, <1>2, <1>3 DEF Waiting, Prompts, Awaited, Coming
<1>4. ASSUME Reaching
      PROVE  a >= Due'
  BY <1>1, <1>2, <1>4 DEF Reaching, Prompts, StateReach, Due
<1>. QED
  BY <1>1, <1>2, <1>3, <1>4, WaitingSuffices

(* The action stream is lost: the state stream brings the prompt, or the next one. *)
LEMMA LosingPrompts ==
  ASSUME Shape, Shape', Prompts, IsLoseAction
  PROVE  Prompts'
<1>. DEFINE a == match.awaiting
<1>1. /\ Still /\ SameGame /\ match' = match /\ state' = state /\ local' = local
      /\ action.stage # "none" /\ action'.stage = "none"
      /\ history'.answered = history.answered /\ (history.missed => history'.missed)
      /\ Displaced => history'.missed
  BY StillSame DEF IsLoseAction, Still, Misses
<1>2. /\ local.last \in Nat /\ Len(log) \in Nat /\ (local.over => match.over)
  BY ShapeNumbers DEF Prompts, LastAsked
<1>3. ASSUME Waiting
      PROVE  Awaited'
  <2>1. a \in 1 .. Len(log) /\ ~history.missed /\ ~history.answered /\ ~Displaced
    BY <1>1, <1>3 DEF Waiting
  <2>2. CASE local.prompt = a
    BY <1>1, <2>2 DEF Awaited
  <2>3. CASE /\ action.stage \in {"subscribed", "snapshot", "live"} /\ a >= action.next
    <3>1. a > local.last
      BY <1>2, <2>1, <2>3, NextFits DEF Displaced
    <3>2. state.stage # "none" => Coming(a)
      <4>1. ASSUME state.stage # "none"
            PROVE  a >= Due
        BY <2>1, <3>1, <4>1 DEF Prompts, StateReach
      <4>2. a \in 1 .. Len(log) + 1
        BY <1>2, <2>1
      <4>. QED
        BY <4>1, <4>2, DueFits
    <3>3. state.stage # "none" => Coming(a)'
      <4>1. SUFFICES ASSUME state.stage # "none"
                     PROVE  Coming(a)'
        OBVIOUS
      <4>2. a >= Due /\ Due \in 1 .. Len(log) + 1
        BY <2>1, <3>1, <4>1, DueFits DEF Prompts, StateReach
      <4>3. StateFits(state, Len(log))
        BY DEF Shape, StreamsFit
      <4>. QED
        BY <1>1, <1>2, <2>1, <4>1, <4>2, <4>3 DEF StateFits, Coming, Due
    <3>. QED
      BY <1>1, <3>1, <3>3 DEF Awaited
  <2>4. CASE Coming(a) /\ ~(action.stage = "live" /\ a >= action.next)
    BY <1>1, <2>4 DEF Awaited, Coming
  <2>5. CASE action.stage \in {"none", "opened"} /\ a > local.last /\ state.stage = "none"
    BY <1>1, <2>5 DEF Awaited
  <2>. QED
    BY <2>1, <2>2, <2>3, <2>4, <2>5 DEF Prompts, Awaited
<1>4. ASSUME Reaching
      PROVE  a >= Due'
  BY <1>1, <1>2, <1>4 DEF Reaching, Prompts, StateReach, Due
<1>. QED
  BY <1>1, <1>2, <1>3, <1>4, WaitingSuffices

(* The streams are stopped at the end, or an answer is given. *)
LEMMA EndingPrompts ==
  ASSUME Shape, Shape', Prompts, IsStop \/ IsAnswer
  PROVE  Prompts'
<1>. DEFINE a == match.awaiting
<1>1. (local.over => match.over /\ a = 0) /\ local.last \in Nat /\ Len(log) \in Nat
  BY ShapeNumbers DEF Prompts, LastAsked
<1>2. CASE IsStop
  <2>1. SameGame /\ local' = local /\ a = 0
    BY <1>1, <1>2, StillSame DEF IsStop
  <2>. QED
    BY <1>1, <2>1, WaitingSuffices DEF Waiting, Reaching
<1>3. CASE IsAnswer
  <2>1. /\ SameGame /\ action' = action /\ state' = state
        /\ local'.last = local.last /\ local'.over = local.over
        /\ history'.missed = history.missed /\ (history.answered => history'.answered)
        /\ local.prompt = a => local'.prompt = local.prompt \/ history'.answered
    BY <1>3 DEF IsAnswer
  <2>2. ASSUME Waiting
        PROVE  Awaited'
    BY <1>1, <2>1, <2>2 DEF Waiting, Prompts, Awaited, Coming
  <2>3. ASSUME Reaching
        PROVE  a >= Due'
    BY <1>1, <2>1, <2>3 DEF Reaching, Prompts, StateReach, Due
  <2>. QED
    BY <1>1, <2>1, <2>2, <2>3, WaitingSuffices
<1>. QED
  BY <1>2, <1>3

(* An event that is shown; an older prompt comes before the one waited for. *)
LEMMA ShownPrompts ==
  ASSUME Shape, Shape', Prompts, NEW n, IsReceiveAction(n) \/ IsReceiveState(n)
  PROVE  Prompts'
<1>. DEFINE a == match.awaiting
<1>1. /\ Still /\ SameGame /\ match' = match /\ n \in 1 .. Len(log) /\ BringsNext(n)
      /\ local'.last = IF n > local.last THEN n ELSE local.last
      /\ local'.prompt = IF log[n].kind = "action_prompt" THEN n ELSE local.prompt
      /\ local'.over <=> local.over \/ log[n].kind = "game_over"
      /\ history'.missed = history.missed /\ history'.answered = history.answered
  BY ActionBrings, StateBrings, StillSame
     DEF IsReceiveAction, IsReceiveState, IsShow, Still, Learns
<1>2. local.last \in Nat /\ Len(log) \in Nat
  BY ShapeNumbers
<1>3. local'.over => match.over
  BY <1>1 DEF Prompts, LastAsked
<1>4. ASSUME NEW f \in 1 .. Len(log), f > n
      PROVE  Coming(f)'
  BY <1>1, <1>2, <1>4, ShapeNumbers DEF Coming, IsReceiveAction, IsReceiveState
<1>5. ASSUME Waiting
      PROVE  Awaited'
  <2>1. a \in 1 .. Len(log) /\ ForMe(a) /\ ~history.missed /\ ~history.answered
    BY <1>1, <1>5 DEF Waiting
  <2>2. \/ local.prompt = a
        \/ Coming(a)
        \/ action.stage \in {"subscribed", "snapshot"} /\ a >= action.next
        \/ action.stage \in {"none", "opened"} /\ state.stage = "none"
    BY <1>2, <2>1 DEF Prompts, Awaited
  <2>3. CASE n = a
    BY <1>1, <2>1, <2>3 DEF Prompts, LastAsked, Awaited
  <2>4. CASE n # a /\ log[n].kind = "action_prompt"
    <3>1. a > n
      BY <1>1, <1>2, <2>1, <2>4 DEF Prompts, LastAsked
    <3>. QED
      BY <1>1, <1>4, <2>1, <3>1 DEF Awaited
  <2>5. CASE n # a /\ log[n].kind # "action_prompt"
    <3>1. CASE local.prompt = a
      BY <1>1, <2>5, <3>1 DEF Awaited
    <3>2. CASE Coming(a)
      <4>1. Coming(a)'
        BY <2>1, <2>5, <3>2, <1>1 DEF BringsNext
      <4>. QED
        BY <1>1, <4>1 DEF Awaited
    <3>3. CASE action.stage \in {"subscribed", "snapshot"} /\ a >= action.next
      <4>1. action' = action
        BY <3>3 DEF IsReceiveAction, IsReceiveState
      <4>. QED
        BY <1>1, <3>3, <4>1 DEF Awaited
    <3>4. CASE action.stage \in {"none", "opened"} /\ state.stage = "none"
      BY <3>4 DEF IsReceiveAction, IsReceiveState
    <3>. QED
      BY <2>2, <3>1, <3>2, <3>3, <3>4
  <2>. QED
    BY <2>3, <2>4, <2>5
<1>6. ASSUME Reaching
      PROVE  a >= Due'
  <2>1. a \in 1 .. Len(log) /\ a > local.last /\ a > n /\ ~history.missed
    BY <1>1, <1>2, <1>6 DEF Reaching
  <2>2. CASE IsReceiveAction(n)
    <3>1. state' = state /\ state.stage # "none"
      BY <1>6, <2>2 DEF IsReceiveAction, Reaching
    <3>. QED
      BY <2>1, <3>1 DEF Prompts, StateReach, Due
  <2>3. CASE IsReceiveState(n)
    BY <1>1, <2>1, <2>3 DEF IsReceiveState, Due
  <2>. QED
    BY <2>2, <2>3
<1>. QED
  BY <1>1, <1>3, <1>5, <1>6, WaitingSuffices

(* Every step keeps the prompt. *)
LEMMA StepsPrompt ==
  ASSUME Shape, Shape', Prompts, Steps
  PROVE  Prompts'
<1>1. CASE \E k \in 0 .. 2 : OnlyGrows(k) /\ Waits(k)
  BY <1>1, GrowsPrompts
<1>2. CASE \E n \in 1 .. Len(log) : IsReceiveAction(n) \/ IsReceiveState(n)
  BY <1>2, ShownPrompts
<1>3. CASE IsCalm \/ IsReceiveSnapshot \/ IsReceiveRejoin
  BY <1>3, OpeningPrompts, ReadingPrompts, SnapshotPrompts, LosingPrompts, EndingPrompts
  DEF IsCalm
<1>. QED
  BY <1>1, <1>2, <1>3 DEF Steps

(* Initially the game waits for nothing. *)
LEMMA InitPrompts ==
  ASSUME ViewInit
  PROVE  Prompts
<1>1. /\ match.awaiting = 0 /\ ~match.over /\ Len(log) = 0 /\ ~local.over /\ local.last = 0
  BY DEF ViewInit
<1>2. Awaited /\ StateReach
  BY <1>1 DEF Awaited, StateReach
<1>. QED
  BY <1>1, <1>2 DEF Prompts, LastAsked

(* When all has come, so has the prompt. *)
LEMMA SettledPrompt ==
  ASSUME Shape, Prompts
  PROVE  PromptShown
<1>1. SUFFICES ASSUME Settled, match.awaiting # 0, ~history.answered, ~history.missed
               PROVE  local.prompt = match.awaiting
  BY DEF PromptShown
<1>2. action.stage = "live" /\ \A f \in 1 .. Len(log) : ~(ForMe(f) /\ Coming(f))
  BY <1>1, SettledDone
<1>3. match.awaiting \in 1 .. Len(log) /\ ForMe(match.awaiting)
  BY <1>1, AwaitedFits DEF Prompts
<1>. QED
  BY <1>1, <1>2, <1>3 DEF Prompts, Awaited

-----------------------------------------------------------------------------
(* The theorems *)

\* The inductive invariant.
ViewInv == Shape /\ Tells /\ Counts /\ Prompts

(* The inductive invariant holds initially. *)
LEMMA ViewInvStarts ==
  ASSUME ViewInit
  PROVE  ViewInv
BY InitShape, InitTells, InitCounts, InitPrompts DEF ViewInv

(* And every step keeps it. *)
LEMMA ViewInvSteps ==
  ASSUME ViewInv, [ViewNext]_viewVars
  PROVE  ViewInv'
<1>1. CASE ViewNext
  BY <1>1, NextSteps, StepsTell, StepsCount, StepsPrompt DEF ViewInv
<1>2. CASE UNCHANGED viewVars
  <2>1. /\ match' = match /\ log' = log /\ action' = action /\ state' = state
        /\ rejoin' = rejoin /\ local' = local /\ history' = history
    BY <1>2 DEF viewVars
  <2>2. SameGame
    <3>1. Still
      BY <2>1 DEF ViewInv, Shape, Still, HistoryTyped
    <3>. QED
      BY <3>1, StillSame DEF ViewInv
  <2>3. \A f : Coming(f)' <=> Coming(f)
    BY <2>1 DEF Coming
  <2>4. Calm
    BY <2>1, <2>2, <2>3 DEF Calm
  <2>5. Shape'
    <3>1. StreamsFit' /\ ClientFits'
      BY <2>1 DEF ViewInv, Shape, StreamsFit, ClientFits
    <3>. QED
      BY <2>2, <3>1, SameFits DEF ViewInv
  <2>6. Prompts'
    BY <2>1, <2>3 DEF ViewInv, Prompts, Awaited, StateReach, LastAsked, Due
  <2>. QED
    BY <2>4, <2>5, <2>6, CalmTells, CalmCounts DEF ViewInv
<1>. QED
  BY <1>1, <1>2

(* The inductive invariant holds in every reachable state: everything fits,
   the log, the snapshots under way and the view tell what is so or are to be
   set right by an event under way, the counts are exact, and the prompt that
   the game waits for will be shown. *)
THEOREM ViewInvariant == ViewSpec => []ViewInv
<1>. QED
  BY ViewInvStarts, ViewInvSteps, PTL DEF ViewSpec

(* The types, for any cards and any number of events: no count that
   Local_Game_State shows is below zero, nor a library above the cards there
   are, and the prompt shown is one that was sent. *)
THEOREM ViewTypes == ViewSpec => []ViewTypeOK
<1>1. ViewInv => ViewTypeOK
  BY ShapeTypes DEF ViewInv
<1>. QED
  BY <1>1, ViewInvariant, PTL

(* Once everything has arrived, Local_Game_State shows the life totals, the
   battlefields, the stack, the own hand and the counts of the game, in
   whatever order the streams and the answer to RejoinGame brought them. *)
THEOREM SettledViewAgreesAlways == ViewSpec => []SettledViewAgrees
<1>1. ViewInv => SettledViewAgrees
  BY SettledAgrees, SettledCounts DEF ViewInv, SettledViewAgrees
<1>. QED
  BY <1>1, ViewInvariant, PTL

(* Once everything has arrived, the prompt that the game waits for is on the
   screen, or it was answered or fell into a gap between the streams. *)
THEOREM PromptShownAlways == ViewSpec => []PromptShown
<1>1. ViewInv => PromptShown
  BY SettledPrompt DEF ViewInv
<1>. QED
  BY <1>1, ViewInvariant, PTL
=============================================================================
