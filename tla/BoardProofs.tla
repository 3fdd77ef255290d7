----------------------------- MODULE BoardProofs -----------------------------
(***************************************************************************)
(* Where the cards are.  The invariant BoardInv says of every id which of  *)
(* four things holds: it is in one list or on the battlefield, and the     *)
(* index knows it (Placed); a spell on the stack holds it; a sorcery that  *)
(* is resolving holds it on the call stack; or it is a token's and nowhere *)
(* at all.  A step either moves cards between places of the ZoneManager    *)
(* (Moved) or hands one from there to the stack, from the stack to the     *)
(* call stack, and back (Held).  So there are three kinds of lemma: what   *)
(* each operation of ZoneManager does to At, what concatenation, Tail and  *)
(* RemoveAt do to what a sequence holds, and one lemma for each action.    *)
(*                                                                         *)
(* What a player finds when she is asked.  The state-based actions run     *)
(* until a pass finds nothing to do (Quiet), and SettledInv says that they *)
(* are the last call of the thread whenever it runs (Ends), but in the end *)
(* step before anybody has acted, when only callbacks run (OnlyCallbacks). *)
(* What a permanent is attached to may be gone in the meantime, but then   *)
(* it is in no library, from where a script could put it back on the       *)
(* battlefield (Attachments); and when a spell puts it there, the          *)
(* state-based actions have taken off what was attached to it.             *)
(***************************************************************************)
EXTENDS Board, FiniteSetTheorems, SequenceTheorems, WellFoundedInduction, TLAPS

-----------------------------------------------------------------------------
(* Cards in a sequence.  The spells on the stack, and the sorceries still to *)
(* be put away on the call stack, are the elements of a sequence that are in *)
(* some set; each holds a card.                                              *)

Held(line, M) == {line[i].card : i \in {j \in DOMAIN line : line[j] \in M}}

\* No two of them hold the same card.
Once(line, M) ==
  \A i, j \in DOMAIN line :
    line[i] \in M /\ line[j] \in M /\ line[i].card = line[j].card => i = j

(* Nothing of M holds nothing. *)
LEMMA HeldNone ==
  ASSUME NEW line, NEW M, \A i \in DOMAIN line : line[i] \notin M
  PROVE  Held(line, M) = {} /\ Once(line, M)
BY DEF Held, Once

(* Two sequences in a row hold what each of them holds. *)
LEMMA HeldConcat ==
  ASSUME NEW S, NEW s \in Seq(S), NEW t \in Seq(S), NEW M
  PROVE  /\ Held(s \o t, M) = Held(s, M) \cup Held(t, M)
         /\ Once(s, M) /\ Once(t, M) /\ Held(s, M) \cap Held(t, M) = {} => Once(s \o t, M)
<1>. DEFINE u == s \o t
            m == Len(s)
            n == Len(t)
<1>1. /\ m \in Nat /\ n \in Nat /\ DOMAIN s = 1 .. m /\ DOMAIN t = 1 .. n
      /\ DOMAIN u = 1 .. m + n
      /\ \A i \in 1 .. m + n : u[i] = IF i <= m THEN s[i] ELSE t[i - m]
  BY LenProperties, ConcatProperties
<1>. HIDE DEF u, m, n
<1>2. \A i \in DOMAIN u : \/ i \in DOMAIN s /\ u[i] = s[i]
                          \/ i - m \in DOMAIN t /\ u[i] = t[i - m] /\ i \notin DOMAIN s
  BY <1>1
<1>3. \A i \in DOMAIN s : i \in DOMAIN u /\ u[i] = s[i]
  BY <1>1
<1>4. ASSUME NEW i \in DOMAIN t
      PROVE  i + m \in DOMAIN u /\ u[i + m] = t[i]
  <2>1. i + m \in 1 .. m + n /\ ~(i + m <= m) /\ (i + m) - m = i
    BY <1>1
  <2>. QED
    BY <1>1, <2>1
<1>5. Held(u, M) = Held(s, M) \cup Held(t, M)
  <2>1. Held(u, M) \subseteq Held(s, M) \cup Held(t, M)
    BY <1>2 DEF Held
  <2>2. Held(s, M) \subseteq Held(u, M)
    BY <1>3 DEF Held
  <2>3. Held(t, M) \subseteq Held(u, M)
    BY <1>4 DEF Held
  <2>. QED
    BY <2>1, <2>2, <2>3
<1>6. ASSUME Once(s, M), Once(t, M), Held(s, M) \cap Held(t, M) = {},
             NEW i \in DOMAIN u, NEW j \in DOMAIN u,
             u[i] \in M, u[j] \in M, u[i].card = u[j].card
      PROVE  i = j
  <2>1. CASE i \in DOMAIN s /\ j \in DOMAIN s
    BY <1>3, <1>6, <2>1 DEF Once
  <2>2. CASE i \notin DOMAIN s /\ j \notin DOMAIN s
    <3>1. i - m \in DOMAIN t /\ j - m \in DOMAIN t /\ u[i] = t[i - m] /\ u[j] = t[j - m]
      BY <1>2, <2>2
    <3>2. i - m = j - m
      BY <1>6, <3>1 DEF Once
    <3>. QED
      BY <1>1, <3>2
  <2>3. ASSUME NEW k \in DOMAIN s, NEW l \in DOMAIN t, s[k] \in M, t[l] \in M,
               s[k].card = t[l].card
        PROVE  FALSE
    BY <1>6, <2>3 DEF Held
  <2>4. CASE i \in DOMAIN s /\ j \notin DOMAIN s
    BY <1>2, <1>3, <1>6, <2>3, <2>4
  <2>5. CASE i \notin DOMAIN s /\ j \in DOMAIN s
    BY <1>2, <1>3, <1>6, <2>3, <2>5
  <2>. QED
    BY <2>1, <2>2, <2>4, <2>5
<1>7. Once(s, M) /\ Once(t, M) /\ Held(s, M) \cap Held(t, M) = {} => Once(u, M)
  BY <1>6 DEF Once
<1>. QED
  BY <1>5, <1>7 DEF u

\* The sequence without its k-th element.
Without(rest, line, k) ==
  /\ Len(rest) = Len(line) - 1
  /\ \A i \in 1 .. Len(rest) : rest[i] = line[IF i < k THEN i ELSE i + 1]

(* Without its k-th element a sequence holds all but what that one holds. *)
LEMMA HeldWithout ==
  ASSUME NEW S, NEW line \in Seq(S), NEW rest \in Seq(S), NEW M, NEW k \in 1 .. Len(line),
         Without(rest, line, k), Once(line, M)
  PROVE  /\ Once(rest, M)
         /\ line[k] \in M => Held(rest, M) = Held(line, M) \ {line[k].card}
         /\ line[k] \notin M => Held(rest, M) = Held(line, M)
<1>. DEFINE n == Len(line)
            from(i) == IF i < k THEN i ELSE i + 1
            to(i) == IF i < k THEN i ELSE i - 1
<1>1. /\ n \in Nat /\ DOMAIN line = 1 .. n /\ DOMAIN rest = 1 .. n - 1 /\ k \in 1 .. n
      /\ \A i \in 1 .. n - 1 : rest[i] = line[from(i)]
  BY LenProperties DEF Without
<1>. HIDE DEF n
<1>2. \A i \in DOMAIN rest : from(i) \in DOMAIN line /\ from(i) # k /\ rest[i] = line[from(i)]
  BY <1>1
<1>3. \A i, j \in DOMAIN rest : from(i) = from(j) => i = j
  BY <1>1
<1>4. \A i \in DOMAIN line : i # k => to(i) \in DOMAIN rest /\ from(to(i)) = i
  BY <1>1
<1>. HIDE DEF from, to
<1>5. Once(rest, M)
  BY <1>2, <1>3 DEF Once
<1>6. Held(rest, M) \subseteq Held(line, M)
  BY <1>2 DEF Held
<1>7. ASSUME NEW c \in Held(line, M), line[k] \in M => c # line[k].card
      PROVE  c \in Held(rest, M)
  <2>1. PICK i \in DOMAIN line : line[i] \in M /\ c = line[i].card
    BY DEF Held
  <2>2. i # k
    BY <1>7, <2>1
  <2>. QED
    BY <1>2, <1>4, <2>1, <2>2 DEF Held
<1>8. ASSUME line[k] \in M
      PROVE  line[k].card \notin Held(rest, M)
  BY <1>1, <1>2, <1>8 DEF Held, Once
<1>. QED
  BY <1>5, <1>6, <1>7, <1>8

(* The rest of the call stack. *)
LEMMA HeldTail ==
  ASSUME NEW S, NEW line \in Seq(S), line # <<>>, NEW M, Once(line, M)
  PROVE  /\ Tail(line) \in Seq(S) /\ Head(line) \in S
         /\ Once(Tail(line), M)
         /\ Head(line) \in M => Held(Tail(line), M) = Held(line, M) \ {Head(line).card}
         /\ Head(line) \notin M => Held(Tail(line), M) = Held(line, M)
<1>1. /\ Head(line) \in S /\ Tail(line) \in Seq(S)
      /\ Len(Tail(line)) = Len(line) - 1
      /\ \A i \in 1 .. Len(Tail(line)) : Tail(line)[i] = line[i + 1]
  BY HeadTailProperties
<1>2. PICK k \in 1 .. Len(line) : k = 1
  BY EmptySeq
<1>3. Head(line) = line[k]
  BY <1>2
<1>4. Without(Tail(line), line, k)
  BY <1>1, <1>2 DEF Without
<1>. DEFINE rest == Tail(line)
<1>5. rest \in Seq(S) /\ Without(rest, line, k)
  BY <1>1, <1>4
<1>6. /\ Once(rest, M)
      /\ line[k] \in M => Held(rest, M) = Held(line, M) \ {line[k].card}
      /\ line[k] \notin M => Held(rest, M) = Held(line, M)
  <2>. HIDE DEF rest
  <2>. QED
    BY <1>5, HeldWithout
<1>. QED
  BY <1>1, <1>3, <1>6

(* The stack without one entry. *)
LEMMA HeldRemoved ==
  ASSUME NEW S, NEW line \in Seq(S), NEW k \in 1 .. Len(line), NEW M, Once(line, M)
  PROVE  /\ RemoveAt(line, k) \in Seq(S)
         /\ Once(RemoveAt(line, k), M)
         /\ line[k] \in M => Held(RemoveAt(line, k), M) = Held(line, M) \ {line[k].card}
         /\ line[k] \notin M => Held(RemoveAt(line, k), M) = Held(line, M)
<1>. DEFINE n == Len(line)
            a == SubSeq(line, 1, k - 1)
            b == SubSeq(line, k + 1, n)
            r == RemoveAt(line, k)
<1>1. n \in Nat /\ k \in 1 .. n /\ \A i \in 1 .. n : line[i] \in S
  BY LenProperties, ElementOfSeq
<1>2. /\ a \in Seq(S) /\ Len(a) = k - 1
      /\ \A i \in 1 .. k - 1 : a[i] = line[i]
  <2>1. 1 \in Int /\ k - 1 \in Int /\ \A i \in 1 .. k - 1 : line[i] \in S
    BY <1>1
  <2>2. /\ a \in Seq(S) /\ Len(a) = IF 1 <= k - 1 THEN (k - 1) - 1 + 1 ELSE 0
        /\ \A i \in 1 .. (k - 1) - 1 + 1 : a[i] = line[1 + i - 1]
    BY <2>1, SubSeqProperties
  <2>3. \A i \in 1 .. k - 1 : 1 + i - 1 = i
    BY <1>1
  <2>. QED
    BY <1>1, <2>2, <2>3
<1>3. /\ b \in Seq(S) /\ Len(b) = n - k
      /\ \A i \in 1 .. n - k : b[i] = line[k + i]
  <2>1. k + 1 \in Int /\ n \in Int /\ \A i \in k + 1 .. n : line[i] \in S
    BY <1>1
  <2>2. /\ b \in Seq(S) /\ Len(b) = IF k + 1 <= n THEN n - (k + 1) + 1 ELSE 0
        /\ \A i \in 1 .. n - (k + 1) + 1 : b[i] = line[(k + 1) + i - 1]
    BY <2>1, SubSeqProperties
  <2>3. \A i \in 1 .. n - k : (k + 1) + i - 1 = k + i
    BY <1>1
  <2>. QED
    BY <1>1, <2>2, <2>3
<1>. HIDE DEF a, b
<1>4. r = a \o b
  BY DEF RemoveAt, a, b
<1>5. /\ r \in Seq(S) /\ Len(r) = n - 1
      /\ \A i \in 1 .. n - 1 : r[i] = IF i <= k - 1 THEN a[i] ELSE b[i - (k - 1)]
  <2>0. a \in Seq(S) /\ b \in Seq(S)
    BY <1>2, <1>3
  <2>1. /\ r \in Seq(S) /\ Len(r) = Len(a) + Len(b)
        /\ \A i \in 1 .. Len(a) + Len(b) : r[i] = IF i <= Len(a) THEN a[i] ELSE b[i - Len(a)]
    <3>. HIDE DEF r
    <3>. QED
      BY <2>0, <1>4, ConcatProperties
  <2>2. (k - 1) + (n - k) = n - 1
    BY <1>1
  <2>. HIDE DEF r, n
  <2>. QED
    BY <1>2, <1>3, <2>1, <2>2
<1>6. \A i \in 1 .. n - 1 : r[i] = line[IF i < k THEN i ELSE i + 1]
  <2>1. SUFFICES ASSUME NEW i \in 1 .. n - 1
                 PROVE  r[i] = line[IF i < k THEN i ELSE i + 1]
    OBVIOUS
  <2>2. CASE i < k
    <3>1. i \in 1 .. k - 1 /\ i <= k - 1
      BY <1>1, <2>2
    <3>2. r[i] = a[i]
      BY <1>5, <3>1
    <3>. QED
      BY <1>2, <2>2, <3>1, <3>2
  <2>3. CASE ~(i < k)
    <3>1. i - (k - 1) \in 1 .. n - k /\ k + (i - (k - 1)) = i + 1 /\ ~(i <= k - 1)
      BY <1>1, <2>3
    <3>. QED
      BY <1>3, <1>5, <2>3, <3>1
  <2>. QED
    BY <2>2, <2>3
<1>. HIDE DEF r
<1>7. r \in Seq(S) /\ Without(r, line, k)
  BY <1>1, <1>5, <1>6 DEF Without, n
<1>. QED
  BY <1>7, HeldWithout DEF r

(* What is under the top of the stack. *)
LEMMA RestIsRemoved ==
  ASSUME NEW S, NEW line \in Seq(S), line # <<>>
  PROVE  /\ Len(line) \in 1 .. Len(line)
         /\ SubSeq(line, 1, Len(line) - 1) = RemoveAt(line, Len(line))
<1>1. Len(line) \in Nat \ {0}
  BY EmptySeq
<1>2. SubSeq(line, Len(line) + 1, Len(line)) = <<>>
  BY <1>1, SubSeqEmpty
<1>3. SubSeq(line, 1, Len(line) - 1) \in Seq(S)
  <2>1. 1 \in Int /\ Len(line) - 1 \in Int /\ \A i \in 1 .. Len(line) - 1 : line[i] \in S
    BY <1>1, ElementOfSeq
  <2>. QED
    BY <2>1, SubSeqProperties
<1>. QED
  BY <1>1, <1>2, <1>3, ConcatEmptySeq DEF RemoveAt

-----------------------------------------------------------------------------
(* Where a ZoneManager has a card. *)

Spots == Places \cup {"Battlefield"}
Marks == (Places \ {"Sideboard"}) \cup {"Battlefield", "Unknown"}

\* The permanents of a battlefield; only tokens are marked as tokens.
Boards ==
  {b \in UNION {[S -> Permanents] : S \in SUBSET Ids} :
     \A c \in DOMAIN b : b[c].token => c \in Tokens}

Managers ==
  [zones : [Places -> [Players -> SUBSET Ids]], index : [Ids -> Marks], board : Boards]

At(z, d, x, p) ==
  IF x = "Battlefield" THEN d \in DOMAIN z.board /\ z.board[d].owner = p
  ELSE d \in z.zones[x][p]

Absent(z, d) == \A x \in Spots, p \in Players : ~At(z, d, x, p)

\* What the index says of a card that is in x.
Marked(mark, x) ==
  CASE x = "Hand" -> mark \in {"Hand", "Unknown"}
    [] x = "Sideboard" -> mark = "Unknown"
    [] OTHER -> mark = x

\* A card is in one place, where the index has it, or nowhere, and the index
\* knows it.
Sits(z, d, x, p) ==
  /\ \A y \in Spots, q \in Players : At(z, d, y, q) <=> y = x /\ q = p
  /\ Marked(z.index[d], x)

Nowhere(z, d) == Absent(z, d) /\ z.index[d] = "Unknown"

\* A card's own player has it; tokens may be anybody's.
Own(d, p) == d \in Cards => p = OwnerOf[d]

Placed(z, d) == \E x \in Spots, p \in Players : Sits(z, d, x, p) /\ Own(d, p)

\* What happened to z left the card d as it was.
Same(z, y, d) ==
  /\ y.index[d] = z.index[d]
  /\ \A x \in Spots, p \in Players : At(y, d, x, p) <=> At(z, d, x, p)

Others(z, y, c) == \A d \in Ids \ {c} : Same(z, y, d)

(* The fields of a ZoneManager. *)
LEMMA Fields ==
  ASSUME NEW z \in Managers
  PROVE  /\ z.zones \in [Places -> [Players -> SUBSET Ids]]
         /\ z.index \in [Ids -> Marks] /\ z.board \in Boards
BY DEF Managers

(* A battlefield is a function on ids. *)
LEMMA BoardFields ==
  ASSUME NEW b \in Boards
  PROVE  /\ DOMAIN b \subseteq Ids
         /\ \A c \in DOMAIN b : b[c] \in Permanents /\ (b[c].token => c \in Tokens)
BY DEF Boards

(* Any function from ids to permanents is one. *)
LEMMA IsBoard ==
  ASSUME NEW S \in SUBSET Ids, NEW b \in [S -> Permanents],
         \A c \in S : b[c].token => c \in Tokens
  PROVE  b \in Boards
BY DEF Boards

(* pop_back takes a card out of a list and leaves the index. *)
LEMMA PopMoves ==
  ASSUME NEW z \in Managers, NEW place \in Places, NEW p \in Players, NEW c \in Ids
  PROVE  LET y == Pop(z, place, p, c) IN
         /\ y \in Managers /\ Others(z, y, c) /\ y.index = z.index /\ y.board = z.board
         /\ Sits(z, c, place, p) => Absent(y, c)
<1>. DEFINE y == Pop(z, place, p, c)
<1>1. /\ y \in Managers /\ y.index = z.index /\ y.board = z.board
      /\ \A x \in Places, q \in Players :
           y.zones[x][q] = IF x = place /\ q = p THEN z.zones[x][q] \ {c} ELSE z.zones[x][q]
  BY Fields DEF Managers, Pop, Places
<1>. HIDE DEF y
<1>2. \A d \in Ids : d # c => Same(z, y, d)
  BY <1>1 DEF Same, At, Spots
<1>3. ASSUME Sits(z, c, place, p), NEW x \in Spots, NEW q \in Players
      PROVE  ~At(y, c, x, q)
  <2>1. At(z, c, x, q) => x = place /\ q = p
    BY <1>3 DEF Sits
  <2>2. CASE x = "Battlefield"
    BY <1>1, <2>1, <2>2 DEF At, Places
  <2>3. CASE x # "Battlefield"
    <3>1. x \in Places
      BY <2>3 DEF Spots
    <3>. QED
      BY <1>1, <2>1, <2>3, <3>1 DEF At
  <2>. QED
    BY <2>2, <2>3
<1>. QED
  BY <1>1, <1>2, <1>3 DEF Others, Absent, y

(* remove_from_hand and the like take it out of the index as well. *)
LEMMA RemoveFromMoves ==
  ASSUME NEW z \in Managers, NEW place \in Places, NEW p \in Players, NEW c \in Ids
  PROVE  LET y == RemoveFrom(z, place, p, c) IN
         /\ y \in Managers /\ Others(z, y, c) /\ y.board = z.board
         /\ Sits(z, c, place, p) => Nowhere(y, c)
<1>. DEFINE y == RemoveFrom(z, place, p, c)
<1>1. /\ y \in Managers /\ y.board = z.board
      /\ y.index = [z.index EXCEPT ![c] = "Unknown"]
      /\ \A x \in Places, q \in Players :
           y.zones[x][q] = IF x = place /\ q = p THEN z.zones[x][q] \ {c} ELSE z.zones[x][q]
  BY DEF Managers, RemoveFrom, Marks
<1>. HIDE DEF y
<1>2. \A d \in Ids : d # c => Same(z, y, d)
  <2>1. \A d \in Ids : d # c => y.index[d] = z.index[d]
    BY <1>1, Fields
  <2>. QED
    BY <1>1, <2>1 DEF Same, At, Spots
<1>3. Sits(z, c, place, p) => Nowhere(y, c)
  <2>1. y.index[c] = "Unknown"
    BY <1>1, Fields
  <2>2. ASSUME Sits(z, c, place, p), NEW x \in Spots, NEW q \in Players
        PROVE  ~At(y, c, x, q)
    <3>1. At(z, c, x, q) => x = place /\ q = p
      BY <2>2 DEF Sits
    <3>2. CASE x = "Battlefield"
      BY <1>1, <3>1, <3>2 DEF At, Places
    <3>3. CASE x # "Battlefield"
      <4>1. x \in Places
        BY <3>3 DEF Spots
      <4>. QED
        BY <1>1, <3>1, <3>3, <4>1 DEF At
    <3>. QED
      BY <3>2, <3>3
  <2>. QED
    BY <2>1, <2>2 DEF Nowhere, Absent
<1>. QED
  BY <1>1, <1>2, <1>3 DEF Others, y

(* add_to_graveyard and the like put a card in one place and in the index. *)
LEMMA AddMoves ==
  ASSUME NEW z \in Managers, NEW place \in Places \ {"Sideboard"}, NEW p \in Players,
         NEW c \in Ids
  PROVE  LET y == Add(z, place, p, c) IN
         /\ y \in Managers /\ Others(z, y, c) /\ y.board = z.board
         /\ Absent(z, c) => Sits(y, c, place, p)
<1>. DEFINE y == Add(z, place, p, c)
<1>1. /\ y \in Managers /\ y.board = z.board
      /\ y.index = [z.index EXCEPT ![c] = place]
      /\ \A x \in Places, q \in Players :
           y.zones[x][q] = IF x = place /\ q = p THEN z.zones[x][q] \cup {c} ELSE z.zones[x][q]
  BY DEF Managers, Add, Marks
<1>. HIDE DEF y
<1>2. \A d \in Ids : d # c => Same(z, y, d)
  <2>1. \A d \in Ids : d # c => y.index[d] = z.index[d]
    BY <1>1, Fields
  <2>. QED
    BY <1>1, <2>1 DEF Same, At, Spots
<1>3. y.index[c] = place
  BY <1>1, Fields
<1>4. Absent(z, c) => Sits(y, c, place, p)
  <2>1. Marked(y.index[c], place)
    BY <1>3 DEF Marked, Places
  <2>2. ASSUME Absent(z, c), NEW x \in Spots, NEW q \in Players
        PROVE  At(y, c, x, q) <=> x = place /\ q = p
    BY <1>1, <2>2 DEF Absent, At, Spots, Places
  <2>. QED
    BY <2>1, <2>2 DEF Sits
<1>. QED
  BY <1>1, <1>2, <1>4 DEF Others, y

(* push_back on a list leaves the index, which must not know the card. *)
LEMMA PushBackMoves ==
  ASSUME NEW z \in Managers, NEW place \in {"Hand", "Sideboard"}, NEW p \in Players,
         NEW c \in Ids
  PROVE  LET y == PushBack(z, place, p, c) IN
         /\ y \in Managers /\ Others(z, y, c) /\ y.index = z.index /\ y.board = z.board
         /\ Nowhere(z, c) => Sits(y, c, place, p)
<1>. DEFINE y == PushBack(z, place, p, c)
<1>1. /\ y \in Managers /\ y.index = z.index /\ y.board = z.board
      /\ \A x \in Places, q \in Players :
           y.zones[x][q] = IF x = place /\ q = p THEN z.zones[x][q] \cup {c} ELSE z.zones[x][q]
  BY DEF Managers, PushBack, Places
<1>. HIDE DEF y
<1>2. \A d \in Ids : d # c => Same(z, y, d)
  <2>1. \A d \in Ids : d # c => y.index[d] = z.index[d]
    BY <1>1, Fields
  <2>. QED
    BY <1>1, <2>1 DEF Same, At, Spots
<1>3. ASSUME Nowhere(z, c)
      PROVE  Sits(y, c, place, p)
  <2>1. Marked(y.index[c], place)
    BY <1>1, <1>3 DEF Marked, Nowhere
  <2>2. ASSUME NEW x \in Spots, NEW q \in Players
        PROVE  At(y, c, x, q) <=> x = place /\ q = p
    <3>1. ~At(z, c, x, q)
      BY <1>3 DEF Nowhere, Absent
    <3>2. CASE x = "Battlefield"
      BY <1>1, <3>1, <3>2 DEF At
    <3>3. CASE x # "Battlefield"
      <4>1. x \in Places
        BY <3>3 DEF Spots
      <4>. QED
        BY <1>1, <3>1, <3>3, <4>1 DEF At
    <3>. QED
      BY <3>2, <3>3
  <2>. QED
    BY <2>1, <2>2 DEF Sits
<1>. QED
  BY <1>1, <1>2, <1>3 DEF Others, y

(* A permanent enters. *)
LEMMA EnterMoves ==
  ASSUME NEW z \in Managers, NEW p \in Players, NEW c \in Ids, NEW token \in BOOLEAN,
         Absent(z, c), token => c \in Tokens
  PROVE  LET y == add_to_battlefield(z, c, p, token) IN
         /\ y \in Managers /\ Others(z, y, c)
         /\ Sits(y, c, "Battlefield", p)
         /\ DOMAIN y.board = DOMAIN z.board \cup {c} /\ c \notin DOMAIN z.board
         /\ y.board[c] = Fresh(p, token)
         /\ \A d \in DOMAIN z.board : y.board[d] = z.board[d]
<1>. DEFINE y == add_to_battlefield(z, c, p, token)
            b == [d \in DOMAIN z.board \cup {c} |->
                   IF d \in DOMAIN z.board THEN z.board[d] ELSE Fresh(p, token)]
<1>1. z.board \in Boards /\ DOMAIN z.board \subseteq Ids
  BY Fields, BoardFields
<1>2. c \notin DOMAIN z.board
  <2>1. c \in DOMAIN z.board => At(z, c, "Battlefield", z.board[c].owner)
    BY DEF At
  <2>2. c \in DOMAIN z.board => z.board[c].owner \in Players
    BY <1>1, BoardFields DEF Permanents
  <2>. QED
    BY <2>1, <2>2 DEF Absent, Spots
<1>3. Fresh(p, token) \in Permanents /\ Fresh(p, token).token = token
      /\ Fresh(p, token).owner = p
  BY DEF Fresh, Permanents
<1>4. /\ b \in [DOMAIN z.board \cup {c} -> Permanents] /\ b[c] = Fresh(p, token)
      /\ \A d \in DOMAIN z.board : b[d] = z.board[d]
  <2>1. \A d \in DOMAIN z.board \cup {c} :
          b[d] = IF d \in DOMAIN z.board THEN z.board[d] ELSE Fresh(p, token)
    OBVIOUS
  <2>2. \A d \in DOMAIN z.board \cup {c} : b[d] \in Permanents
    BY <1>1, <1>3, <2>1, BoardFields
  <2>3. b \in [DOMAIN z.board \cup {c} -> Permanents]
    BY <2>2
  <2>. HIDE DEF b
  <2>. QED
    BY <1>2, <2>1, <2>3
<1>5. b \in Boards
  <2>. HIDE DEF b
  <2>1. DOMAIN z.board \cup {c} \in SUBSET Ids
    BY <1>1
  <2>2. \A d \in DOMAIN z.board \cup {c} : b[d].token => d \in Tokens
    BY <1>1, <1>3, <1>4, BoardFields
  <2>. QED
    BY <1>4, <2>1, <2>2, IsBoard
<1>6. /\ y \in Managers /\ y.board = b /\ y.zones = z.zones
      /\ y.index = [z.index EXCEPT ![c] = "Battlefield"]
  BY <1>5 DEF Managers, add_to_battlefield, Marks
<1>. HIDE DEF b, y
<1>7. \A d \in Ids : d # c => Same(z, y, d)
  BY <1>4, <1>6, Fields DEF Same, At
<1>8. Sits(y, c, "Battlefield", p)
  BY <1>3, <1>4, <1>6, Fields DEF Sits, Marked, Absent, At, Spots, Places
<1>. QED
  BY <1>2, <1>4, <1>6, <1>7, <1>8 DEF Others, y

(* A permanent leaves. *)
LEMMA LeaveMoves ==
  ASSUME NEW z \in Managers, NEW c \in DOMAIN z.board
  PROVE  LET y == remove_from_battlefield(z, c) IN
         /\ y \in Managers /\ Others(z, y, c)
         /\ Placed(z, c) => Nowhere(y, c)
         /\ DOMAIN y.board = DOMAIN z.board \ {c}
         /\ \A d \in DOMAIN z.board \ {c} : y.board[d] = z.board[d]
<1>. DEFINE y == remove_from_battlefield(z, c)
            b == Restrict(z.board, DOMAIN z.board \ {c})
<1>1. z.board \in Boards /\ DOMAIN z.board \subseteq Ids
  BY Fields, BoardFields
<1>2. /\ b \in [DOMAIN z.board \ {c} -> Permanents]
      /\ \A d \in DOMAIN z.board \ {c} : b[d] = z.board[d]
  BY <1>1, BoardFields DEF Restrict
<1>3. b \in Boards
  <2>. HIDE DEF b
  <2>1. DOMAIN z.board \ {c} \in SUBSET Ids
    BY <1>1
  <2>2. \A d \in DOMAIN z.board \ {c} : b[d].token => d \in Tokens
    BY <1>1, <1>2, BoardFields
  <2>. QED
    BY <1>2, <2>1, <2>2, IsBoard
<1>4. /\ y \in Managers /\ y.board = b /\ y.zones = z.zones
      /\ y.index = [z.index EXCEPT ![c] = "Unknown"]
  BY <1>3 DEF Managers, remove_from_battlefield, Marks
<1>. HIDE DEF b, y
<1>5. \A d \in Ids : d # c => Same(z, y, d)
  BY <1>2, <1>4, Fields DEF Same, At
<1>6. ASSUME Placed(z, c)
      PROVE  Nowhere(y, c)
  <2>1. PICK x \in Spots, p \in Players : Sits(z, c, x, p)
    BY <1>6 DEF Placed
  <2>2. z.board[c].owner \in Players
    BY <1>1, BoardFields DEF Permanents
  <2>3. x = "Battlefield"
    BY <2>1, <2>2 DEF Sits, At, Spots
  <2>4. \A u \in Places, q \in Players : ~At(z, c, u, q)
    BY <2>1, <2>3 DEF Sits, Spots, Places
  <2>. QED
    BY <1>1, <1>2, <1>4, <2>4, Fields DEF Nowhere, Absent, At, Spots
<1>. QED
  BY <1>2, <1>4, <1>5, <1>6 DEF Others, y

(* A card that is as it was is where it was. *)
LEMMA SameKeeps ==
  ASSUME NEW z, NEW y, NEW d, Same(z, y, d)
  PROVE  /\ Placed(z, d) <=> Placed(y, d)
         /\ Nowhere(z, d) <=> Nowhere(y, d)
         /\ Absent(z, d) <=> Absent(y, d)
         /\ \A x \in Spots, p \in Players : Sits(z, d, x, p) <=> Sits(y, d, x, p)
<1>1. Absent(z, d) <=> Absent(y, d)
  BY DEF Same, Absent
<1>2. \A x \in Spots, p \in Players : Sits(z, d, x, p) <=> Sits(y, d, x, p)
  BY DEF Same, Sits
<1>3. Nowhere(z, d) <=> Nowhere(y, d)
  BY <1>1 DEF Same, Nowhere
<1>4. Placed(z, d) <=> Placed(y, d)
  BY <1>2 DEF Placed
<1>. QED
  BY <1>1, <1>2, <1>3, <1>4

(* A card that is placed is in the place where it is found. *)
LEMMA FoundThere ==
  ASSUME NEW z, NEW d, Placed(z, d), NEW x \in Spots, NEW p \in Players, At(z, d, x, p)
  PROVE  Sits(z, d, x, p) /\ Own(d, p)
BY DEF Placed, Sits

(* Nor is a card that is found somewhere nowhere. *)
LEMMA FoundIsNotNowhere ==
  ASSUME NEW z, NEW d, NEW x \in Spots, NEW p \in Players, At(z, d, x, p)
  PROVE  ~Nowhere(z, d) /\ ~Absent(z, d)
BY DEF Nowhere, Absent

(* A permanent is on the battlefield for its owner. *)
LEMMA PermanentIsThere ==
  ASSUME NEW z \in Managers, NEW c \in DOMAIN z.board
  PROVE  /\ c \in Ids /\ z.board[c] \in Permanents /\ z.board[c].owner \in Players
         /\ "Battlefield" \in Spots /\ At(z, c, "Battlefield", z.board[c].owner)
<1>1. z.board \in Boards
  BY Fields
<1>2. z.board[c] \in Permanents /\ c \in Ids
  BY <1>1, BoardFields
<1>. QED
  BY <1>2 DEF At, Permanents, Spots

(* What changes permanents, but neither which there are nor whose they are,
   moves no card. *)
LEMMA BoardChange ==
  ASSUME NEW z \in Managers, NEW b \in Boards, DOMAIN b = DOMAIN z.board,
         \A c \in DOMAIN b : b[c].owner = z.board[c].owner
  PROVE  LET y == [z EXCEPT !.board = b] IN
         y \in Managers /\ y.board = b /\ \A d \in Ids : Same(z, y, d)
<1>. DEFINE y == [z EXCEPT !.board = b]
<1>1. y \in Managers /\ y.board = b /\ y.zones = z.zones /\ y.index = z.index
  BY DEF Managers
<1>. HIDE DEF y
<1>2. \A d \in Ids : Same(z, y, d)
  BY <1>1 DEF Same, At
<1>. QED
  BY <1>1, <1>2 DEF y

\* A card has been moved from place to place, or a token put away.
Moved(z, y, d) ==
  /\ Placed(z, d) => Placed(y, d) \/ (d \in Tokens /\ Nowhere(y, d))
  /\ Nowhere(z, d) => Nowhere(y, d)

(* A card that is as it was has been moved if at all. *)
LEMMA SameIsMoved ==
  ASSUME NEW z, NEW y, NEW d, Same(z, y, d)
  PROVE  Moved(z, y, d)
<1>1. (Placed(z, d) <=> Placed(y, d)) /\ (Nowhere(z, d) <=> Nowhere(y, d))
  BY SameKeeps
<1>. QED
  BY <1>1 DEF Moved

(* One move after another. *)
LEMMA MovedTwice ==
  ASSUME NEW z, NEW y, NEW w, NEW d, Moved(z, y, d), Moved(y, w, d)
  PROVE  Moved(z, w, d)
BY DEF Moved

(* The state-based actions put cards into graveyards and tokens nowhere. *)
LEMMA PutAwayMoves ==
  ASSUME NEW z \in Managers, NEW S \in SUBSET DOMAIN z.board
  PROVE  LET y == PutAway(z, S) IN
         /\ y \in Managers /\ \A d \in Ids : Moved(z, y, d)
         /\ DOMAIN y.board = DOMAIN z.board \ S
         /\ \A c \in DOMAIN z.board \ S : y.board[c] = z.board[c]
<1>. DEFINE y == PutAway(z, S)
            buried == {c \in S : ~z.board[c].token}
            owner(c) == z.board[c].owner
            lists == [p \in Players |-> z.zones["Graveyard"][p] \cup {c \in buried : owner(c) = p}]
            b == Restrict(z.board, DOMAIN z.board \ S)
            index == [c \in Ids |-> CASE c \in buried -> "Graveyard"
                                      [] c \in S \ buried -> "Unknown"
                                      [] OTHER -> z.index[c]]
<1>1. z.board \in Boards /\ DOMAIN z.board \subseteq Ids
  BY Fields, BoardFields
<1>2. /\ \A c \in S : c \in Ids /\ owner(c) \in Players /\ At(z, c, "Battlefield", owner(c))
      /\ \A c \in S \ buried : c \in Tokens
  BY <1>1, PermanentIsThere, BoardFields
<1>3. /\ b \in [DOMAIN z.board \ S -> Permanents]
      /\ \A d \in DOMAIN z.board \ S : b[d] = z.board[d]
  BY <1>1, BoardFields DEF Restrict
<1>4. b \in Boards
  <2>. HIDE DEF b
  <2>1. DOMAIN z.board \ S \in SUBSET Ids
    BY <1>1
  <2>2. \A d \in DOMAIN z.board \ S : b[d].token => d \in Tokens
    BY <1>1, <1>3, BoardFields
  <2>. QED
    BY <1>3, <2>1, <2>2, IsBoard
<1>5. lists \in [Players -> SUBSET Ids]
  BY <1>1, Fields DEF Places
<1>6. index \in [Ids -> Marks]
  BY Fields DEF Marks, Places
<1>7. y = [zones |-> [z.zones EXCEPT !["Graveyard"] = lists], index |-> index, board |-> b]
  BY DEF PutAway, OnBattlefield
<1>. HIDE DEF lists, index, b, y
<1>8. y \in Managers /\ y.index = index /\ y.board = b
  BY <1>4, <1>5, <1>6, <1>7, Fields DEF Managers, Places
<1>9. \A x \in Places, q \in Players :
        y.zones[x][q] = IF x = "Graveyard"
                        THEN z.zones[x][q] \cup {c \in buried : owner(c) = q}
                        ELSE z.zones[x][q]
  BY <1>7, Fields DEF Places, lists
<1>10. ASSUME NEW d \in Ids \ S
       PROVE  Same(z, y, d)
  <2>1. y.index[d] = z.index[d]
    BY <1>8 DEF index
  <2>2. \A q \in Players : At(y, d, "Battlefield", q) <=> At(z, d, "Battlefield", q)
    BY <1>3, <1>8 DEF At
  <2>3. \A x \in Places, q \in Players : At(y, d, x, q) <=> At(z, d, x, q)
    BY <1>9 DEF At, Places
  <2>. QED
    BY <2>1, <2>2, <2>3 DEF Same, Spots
<1>11. ASSUME NEW d \in S, Placed(z, d)
       PROVE  Placed(y, d) \/ (d \in Tokens /\ Nowhere(y, d))
  <2>1. /\ Sits(z, d, "Battlefield", owner(d)) /\ Own(d, owner(d))
        /\ owner(d) \in Players /\ d \in Ids
    BY <1>2, <1>11, FoundThere DEF Spots
  <2>2. \A x \in Places, q \in Players : d \notin z.zones[x][q]
    BY <2>1 DEF Sits, At, Spots, Places
  <2>3. \A q \in Players : ~At(y, d, "Battlefield", q)
    BY <1>3, <1>8 DEF At
  <2>4. CASE d \in buried
    <3>1. y.index[d] = "Graveyard"
      BY <1>8, <2>1, <2>4 DEF index
    <3>2. \A x \in Places, q \in Players : At(y, d, x, q) <=> x = "Graveyard" /\ q = owner(d)
      BY <1>9, <2>2, <2>4 DEF At, Places
    <3>3. Sits(y, d, "Graveyard", owner(d))
      BY <2>3, <3>1, <3>2 DEF Sits, Marked, Spots
    <3>4. "Graveyard" \in Spots
      BY DEF Spots, Places
    <3>5. PICK q \in Players : q = owner(d)
      BY <2>1
    <3>6. Sits(y, d, "Graveyard", q) /\ Own(d, q)
      BY <2>1, <3>3, <3>5
    <3>. QED
      BY <3>4, <3>6 DEF Placed
  <2>5. CASE d \notin buried
    <3>1. y.index[d] = "Unknown"
      BY <1>8, <2>1, <2>5 DEF index
    <3>2. \A x \in Places, q \in Players : ~At(y, d, x, q)
      BY <1>9, <2>2, <2>5 DEF At, Places
    <3>. QED
      BY <1>2, <2>3, <2>5, <3>1, <3>2 DEF Nowhere, Absent, Spots
  <2>. QED
    BY <2>4, <2>5
<1>12. \A d \in S : ~Nowhere(z, d)
  BY <1>2, FoundIsNotNowhere DEF Spots
<1>13. \A d \in Ids : Moved(z, y, d)
  BY <1>10, <1>11, <1>12, SameIsMoved DEF Moved
<1>. QED
  BY <1>3, <1>8, <1>13 DEF y

(* Delve moves cards of one graveyard into exile. *)
LEMMA DelvedMoves ==
  ASSUME NEW z \in Managers, NEW p \in Players, NEW c, NEW y \in Delved(z, p, c)
  PROVE  /\ y \in Managers /\ y.board = z.board /\ \A d \in Ids : Moved(z, y, d)
         /\ \A d \in Ids : d \notin z.zones["Graveyard"][p] => Same(z, y, d)
<1>1. PICK S \in SUBSET z.zones["Graveyard"][p] :
        y = [z EXCEPT !.zones["Graveyard"][p] = @ \ S, !.zones["Exile"][p] = @ \cup S,
                      !.index = [d \in Ids |-> IF d \in S THEN "Exile" ELSE @[d]]]
  <2>. DEFINE of(S) == [z EXCEPT !.zones["Graveyard"][p] = @ \ S, !.zones["Exile"][p] = @ \cup S,
                      !.index = [d \in Ids |-> IF d \in S THEN "Exile" ELSE @[d]]]
  <2>1. \E S \in IF c \in Delve THEN SUBSET z.zones["Graveyard"][p] ELSE {{}} : y = of(S)
    BY DEF Delved
  <2>. HIDE DEF of
  <2>2. \E S \in SUBSET z.zones["Graveyard"][p] : y = of(S)
    BY <2>1
  <2>. QED
    BY <2>2 DEF of
<1>. DEFINE lists == [z.zones EXCEPT !["Graveyard"][p] = @ \ S, !["Exile"][p] = @ \cup S]
            index == [d \in Ids |-> IF d \in S THEN "Exile" ELSE z.index[d]]
<1>2. S \subseteq Ids
  BY Fields DEF Places
<1>3. y.zones = lists /\ y.index = index /\ y.board = z.board
      /\ y = [zones |-> lists, index |-> index, board |-> z.board]
  BY <1>1 DEF Managers, Places
<1>4. /\ y \in Managers
      /\ \A d \in Ids, x \in Places, q \in Players :
           d \in y.zones[x][q] <=> IF q = p /\ d \in S /\ x \in {"Graveyard", "Exile"}
                                    THEN x = "Exile" ELSE d \in z.zones[x][q]
  <2>1. /\ lists \in [Places -> [Players -> SUBSET Ids]]
        /\ \A d \in Ids, x \in Places, q \in Players :
             d \in lists[x][q] <=> IF q = p /\ d \in S /\ x \in {"Graveyard", "Exile"}
                                    THEN x = "Exile" ELSE d \in z.zones[x][q]
    BY <1>2, Fields DEF Places
  <2>2. index \in [Ids -> Marks]
    BY Fields DEF Marks, Places
  <2>. HIDE DEF lists, index
  <2>3. z.board \in Boards
    BY Fields
  <2>4. y \in Managers
    BY <1>3, <2>1, <2>2, <2>3 DEF Managers
  <2>. QED
    BY <1>3, <2>1, <2>4
<1>5. \A d \in Ids : y.index[d] = IF d \in S THEN "Exile" ELSE z.index[d]
  BY <1>3
<1>. HIDE DEF lists, index
<1>6. ASSUME NEW d \in Ids, d \notin S
      PROVE  Same(z, y, d)
  <2>1. ASSUME NEW x \in Places, NEW q \in Players
        PROVE  At(y, d, x, q) <=> At(z, d, x, q)
    <3>1. d \in y.zones[x][q] <=> d \in z.zones[x][q]
      BY <1>4, <1>6
    <3>. QED
      BY <3>1 DEF At, Places
  <2>. QED
    BY <1>3, <1>5, <1>6, <2>1 DEF Same, At, Spots
<1>7. ASSUME NEW d \in S, Placed(z, d)
      PROVE  Placed(y, d)
  <2>1. At(z, d, "Graveyard", p) /\ "Graveyard" \in Spots /\ "Exile" \in Spots
    BY DEF At, Spots, Places
  <2>2. Sits(z, d, "Graveyard", p) /\ Own(d, p)
    BY <1>7, <2>1, FoundThere
  <2>3. Sits(y, d, "Exile", p)
    <3>1. \A x \in Places, q \in Players :
            d \in z.zones[x][q] <=> x = "Graveyard" /\ q = p
      BY <2>2 DEF Sits, At, Spots, Places
    <3>2. \A x \in Places, q \in Players : At(y, d, x, q) <=> x = "Exile" /\ q = p
      BY <1>2, <1>4, <3>1 DEF At, Places
    <3>3. \A q \in Players : ~At(y, d, "Battlefield", q)
      BY <1>3, <2>2 DEF Sits, At, Spots, Places
    <3>4. y.index[d] = "Exile"
      BY <1>2, <1>5
    <3>. QED
      BY <3>2, <3>3, <3>4 DEF Sits, Marked, Spots
  <2>. QED
    BY <2>1, <2>2, <2>3 DEF Placed
<1>8. \A d \in S : ~Nowhere(z, d)
  <2>1. \A d \in S : At(z, d, "Graveyard", p)
    BY DEF At
  <2>. QED
    BY <2>1, FoundIsNotNowhere DEF Spots, Places
<1>9. \A d \in Ids : Moved(z, y, d)
  BY <1>6, <1>7, <1>8, SameIsMoved DEF Moved
<1>. QED
  BY <1>3, <1>4, <1>6, <1>9

-----------------------------------------------------------------------------
(* The invariant. *)

\* What is on the stack: an ability has no target that could be gone, and a
\* spell is its card's own player's.
FitEntries ==
  {e \in Entries : IF e.spell THEN Own(e.card, e.owner) ELSE e.target = None}

\* A sorcery is put away for its own player.
FitTasks == {t \in Tasks : t.task = "settle" => Own(t.card, t.owner)}

Spells == {e \in FitEntries : e.spell}
Settles == {t \in FitTasks : t.task = "settle"}

Typed ==
  /\ zm \in Managers /\ stack \in Seq(FitEntries) /\ agenda \in Seq(FitTasks)

TurnTyped ==
  /\ delayed \in Seq(DelayedTriggers) /\ Len(delayed) <= MaxDelayed
  /\ active \in Players /\ phase \in {"main", "end"} /\ asked \in BOOLEAN
  /\ calls \in 0 .. MaxCalls

\* The cards h are held elsewhere; the others are in one place, but for tokens,
\* which may be nowhere.
LocatedIn(z, h) ==
  \A d \in Ids : IF d \in h THEN Nowhere(z, d)
                 ELSE Placed(z, d) \/ (d \in Tokens /\ Nowhere(z, d))

OnStack == Held(stack, Spells)
Resolving == Held(agenda, Settles)

Located ==
  /\ LocatedIn(zm, OnStack \cup Resolving)
  /\ Once(stack, Spells) /\ Once(agenda, Settles) /\ OnStack \cap Resolving = {}

BoardInv == Typed /\ TurnTyped /\ Located

(* A card is not both in a place and nowhere. *)
LEMMA PlacedIsNotNowhere ==
  ASSUME NEW z, NEW d, Placed(z, d)
  PROVE  ~Nowhere(z, d)
BY DEF Placed, Sits, Nowhere, Absent

(* A card that is found somewhere is not held and is its player's. *)
LEMMA FoundInPlace ==
  ASSUME NEW z, NEW h, LocatedIn(z, h), NEW d \in Ids, NEW x \in Spots, NEW p \in Players,
         At(z, d, x, p)
  PROVE  Sits(z, d, x, p) /\ Own(d, p) /\ Placed(z, d) /\ d \notin h
<1>1. ~Nowhere(z, d)
  BY FoundIsNotNowhere
<1>2. Placed(z, d) /\ d \notin h
  BY <1>1 DEF LocatedIn
<1>. QED
  BY <1>2, FoundThere

(* In particular one that is in a list. *)
LEMMA ListedInPlace ==
  ASSUME NEW z, NEW h, LocatedIn(z, h), NEW d \in Ids, NEW x \in Places, NEW p \in Players,
         d \in z.zones[x][p]
  PROVE  Sits(z, d, x, p) /\ Own(d, p) /\ Placed(z, d) /\ d \notin h
<1>1. At(z, d, x, p) /\ x \in Spots
  BY DEF At, Places, Spots
<1>. QED
  BY <1>1, FoundInPlace

(* Or on the battlefield. *)
LEMMA PermanentInPlace ==
  ASSUME NEW z \in Managers, NEW h, LocatedIn(z, h), NEW d \in DOMAIN z.board
  PROVE  /\ d \in Ids /\ z.board[d].owner \in Players
         /\ Sits(z, d, "Battlefield", z.board[d].owner) /\ Own(d, z.board[d].owner)
         /\ Placed(z, d) /\ d \notin h
<1>1. /\ d \in Ids /\ z.board[d].owner \in Players /\ "Battlefield" \in Spots
      /\ At(z, d, "Battlefield", z.board[d].owner)
  BY PermanentIsThere
<1>2. PICK p \in Players : p = z.board[d].owner
  BY <1>1
<1>. QED
  BY <1>1, <1>2, FoundInPlace

(* Moves keep every card where it can be found. *)
LEMMA MovesKeepLocated ==
  ASSUME NEW z, NEW y, NEW h, LocatedIn(z, h), \A d \in Ids : Moved(z, y, d)
  PROVE  LocatedIn(y, h)
BY DEF LocatedIn, Moved

(* A card goes from one place to another by way of w. *)
LEMMA MovesOver ==
  ASSUME NEW z, NEW w, NEW y, NEW c \in Ids, Others(z, w, c), Others(w, y, c),
         Placed(z, c), Placed(y, c)
  PROVE  \A d \in Ids : Moved(z, y, d)
<1>1. Moved(z, y, c)
  BY PlacedIsNotNowhere DEF Moved
<1>2. ASSUME NEW d \in Ids \ {c}
      PROVE  Moved(z, y, d)
  <2>1. Same(z, w, d) /\ Same(w, y, d)
    BY DEF Others
  <2>. QED
    BY <2>1, SameIsMoved, MovedTwice
<1>. QED
  BY <1>1, <1>2

(* A card leaves its place for the stack. *)
LEMMA TakenIsHeld ==
  ASSUME NEW z, NEW y, NEW h, LocatedIn(z, h), NEW c \in Ids, Nowhere(y, c),
         \A d \in Ids \ {c} : Moved(z, y, d)
  PROVE  LocatedIn(y, h \cup {c})
BY DEF LocatedIn, Moved

(* A card that was held is put somewhere. *)
LEMMA HeldIsPut ==
  ASSUME NEW z, NEW y, NEW h, LocatedIn(z, h), NEW c \in Ids, Placed(y, c), Others(z, y, c)
  PROVE  LocatedIn(y, h \ {c})
<1>1. \A d \in Ids \ {c} : Moved(z, y, d)
  BY SameIsMoved DEF Others
<1>. QED
  BY <1>1 DEF LocatedIn, Moved

\* The stack and the call stack hold the cards they held.
SameStack ==
  stack' \in Seq(FitEntries) /\ Once(stack, Spells)' /\ OnStack' = OnStack
SameAgenda ==
  agenda' \in Seq(FitTasks) /\ Once(agenda, Settles)' /\ Resolving' = Resolving

(* A step that only moves cards between places. *)
LEMMA MovesKeepInv ==
  ASSUME Typed, Located, zm' \in Managers, \A d \in Ids : Moved(zm, zm', d),
         SameStack, SameAgenda
  PROVE  Typed' /\ Located'
<1>1. LocatedIn(zm', OnStack \cup Resolving)
  BY MovesKeepLocated DEF Located
<1>. QED
  BY <1>1 DEF Typed, Located, SameStack, SameAgenda

(* A step that moves nothing. *)
LEMMA StaysKeepInv ==
  ASSUME Typed, Located, UNCHANGED zm, SameStack, SameAgenda
  PROVE  Typed' /\ Located'
BY DEF Typed, Located, SameStack, SameAgenda

(* The stack may be as it was. *)
LEMMA StackStays ==
  ASSUME Typed, Located, UNCHANGED stack
  PROVE  SameStack
BY DEF Typed, Located, SameStack, OnStack

\* Calls that put no card away.
Plain(tasks) == tasks \in Seq(FitTasks) /\ \A i \in DOMAIN tasks : tasks[i] \notin Settles

(* The calls other than Settle are plain. *)
LEMMA PlainCalls ==
  /\ Plain(<<>>) /\ Plain(Check)
  /\ \A b \in BOOLEAN : Plain(Script(b))
  /\ \A c \in Ids : Plain(News(c))
  /\ \A dead \in Seq(Ids) : Plain(Deaths(dead))
<1>1. \A t \in FitTasks : t.task # "settle" => Plain(<<t>>)
  BY DEF Plain, Settles
<1>2. [task |-> "check"] \in FitTasks
  BY DEF FitTasks, Tasks
<1>3. ASSUME NEW b \in BOOLEAN
      PROVE  [task |-> "script", callback |-> b] \in FitTasks
  BY DEF FitTasks, Tasks
<1>4. ASSUME NEW c \in Ids
      PROVE  [task |-> "news", card |-> c] \in FitTasks
  BY DEF FitTasks, Tasks
<1>5. ASSUME NEW dead \in Seq(Ids)
      PROVE  [task |-> "deaths", dead |-> dead] \in FitTasks
  BY DEF FitTasks, Tasks
<1>. QED
  BY <1>1, <1>2, <1>3, <1>4, <1>5 DEF Plain, Check, Script, News, Deaths

(* And so they are one after the other. *)
LEMMA PlainConcat ==
  ASSUME NEW s, NEW t, Plain(s), Plain(t)
  PROVE  Plain(s \o t)
<1>1. s \in Seq(FitTasks) /\ t \in Seq(FitTasks)
  BY DEF Plain
<1>2. /\ s \o t \in Seq(FitTasks) /\ Len(s) \in Nat /\ Len(t) \in Nat
      /\ DOMAIN (s \o t) = 1 .. Len(s) + Len(t)
      /\ \A i \in 1 .. Len(s) + Len(t) : (s \o t)[i] = IF i <= Len(s) THEN s[i] ELSE t[i - Len(s)]
  BY <1>1, ConcatProperties, LenProperties
<1>3. DOMAIN s = 1 .. Len(s) /\ DOMAIN t = 1 .. Len(t)
  BY <1>1, LenProperties
<1>4. ASSUME NEW i \in 1 .. Len(s) + Len(t)
      PROVE  (s \o t)[i] \notin Settles
  <2>1. CASE i <= Len(s)
    BY <1>2, <1>3, <2>1 DEF Plain
  <2>2. CASE ~(i <= Len(s))
    <3>1. i - Len(s) \in 1 .. Len(t)
      BY <1>2, <2>2
    <3>. QED
      BY <1>2, <1>3, <2>2, <3>1 DEF Plain
  <2>. QED
    BY <2>1, <2>2
<1>. QED
  BY <1>2, <1>4 DEF Plain

(* Plain calls hold nothing. *)
LEMMA PlainHoldsNothing ==
  ASSUME NEW s, Plain(s)
  PROVE  s \in Seq(FitTasks) /\ Held(s, Settles) = {} /\ Once(s, Settles)
BY HeldNone DEF Plain

(* On top of the call stack they change nothing that is held. *)
LEMMA PlainOnTop ==
  ASSUME NEW s, Plain(s), NEW t \in Seq(FitTasks)
  PROVE  /\ s \o t \in Seq(FitTasks) /\ Held(s \o t, Settles) = Held(t, Settles)
         /\ Once(t, Settles) => Once(s \o t, Settles)
<1>1. s \in Seq(FitTasks) /\ Held(s, Settles) = {} /\ Once(s, Settles)
  BY PlainHoldsNothing
<1>2. s \o t \in Seq(FitTasks)
  BY <1>1, ConcatProperties
<1>3. /\ Held(s \o t, Settles) = Held(s, Settles) \cup Held(t, Settles)
      /\ Once(s, Settles) /\ Once(t, Settles) /\ Held(s, Settles) \cap Held(t, Settles) = {}
           => Once(s \o t, Settles)
  BY <1>1, HeldConcat
<1>. QED
  BY <1>1, <1>2, <1>3

-----------------------------------------------------------------------------
(* The delayed triggers and the triggers of one event. *)

(* What holds of 0, and of k + 1 if it does of k, holds of all numbers to n. *)
LEMMA UpTo ==
  ASSUME NEW n \in Nat, NEW good, 0 \in good,
         \A k \in 0 .. n : k \in good /\ k < n => k + 1 \in good
  PROVE  \A k \in 0 .. n : k \in good
<1>. DEFINE bad == {k \in 0 .. n : k \notin good}
<1>1. SUFFICES ASSUME bad # {}
               PROVE  FALSE
  OBVIOUS
<1>2. bad \subseteq Nat
  OBVIOUS
<1>3. PICK k \in bad : \A j \in bad : <<j, k>> \notin OpToRel(<, Nat)
  <2>. HIDE DEF bad
  <2>. QED
    BY <1>1, <1>2, WFMin, NatLessThanWellFounded
<1>4. \A j \in bad : ~(j < k)
  BY <1>2, <1>3 DEF OpToRel
<1>5. k \in 0 .. n /\ k \notin good /\ k # 0
  BY <1>3
<1>6. k - 1 \in 0 .. n /\ k - 1 < n /\ k - 1 < k /\ (k - 1) + 1 = k
  BY <1>5
<1>7. k - 1 \notin bad
  <2>. HIDE DEF bad
  <2>. QED
    BY <1>4, <1>6
<1>8. k - 1 \in good
  BY <1>6, <1>7
<1>. QED
  BY <1>5, <1>6, <1>8

(* The function Remaining computes with, and one step of its recursion. *)
Kept(event, source) ==
  CHOOSE kept : kept = [i \in 0 .. Len(delayed) |->
    IF i = 0 THEN <<>>
    ELSE IF Fires(delayed[i], event, source) THEN kept[i - 1]
    ELSE Append(kept[i - 1], delayed[i])]

KeptStep(event, source, g, i) ==
  IF i = 0 THEN <<>> ELSE IF Fires(delayed[i], event, source) THEN g[i - 1]
  ELSE Append(g[i - 1], delayed[i])

(* The recursion has a solution: it has one up to every index. *)
LEMMA KeptExists ==
  ASSUME NEW S, delayed \in Seq(S), NEW event, NEW source
  PROVE  \E g : g = [i \in 0 .. Len(delayed) |-> KeptStep(event, source, g, i)]
<1>. DEFINE good == {k \in 0 .. Len(delayed) :
                       \E g \in [0 .. k -> Seq(S)] :
                          \A i \in 0 .. k : g[i] = KeptStep(event, source, g, i)}
<1>1. Len(delayed) \in Nat /\ \A i \in 1 .. Len(delayed) : delayed[i] \in S
  BY ElementOfSeq, LenProperties
<1>2. 0 \in good
  <2>. DEFINE g == [i \in 0 .. 0 |-> <<>>]
  <2>1. g \in [0 .. 0 -> Seq(S)] /\ \A i \in 0 .. 0 : g[i] = KeptStep(event, source, g, i)
    BY EmptySeq DEF KeptStep
  <2>2. 0 \in 0 .. Len(delayed)
    BY <1>1
  <2>. HIDE DEF g
  <2>. QED
    BY <2>1, <2>2
<1>3. ASSUME NEW k \in 0 .. Len(delayed), k \in good, k < Len(delayed)
      PROVE  k + 1 \in good
  <2>1. PICK g \in [0 .. k -> Seq(S)] : \A i \in 0 .. k : g[i] = KeptStep(event, source, g, i)
    BY <1>3
  <2>2. k \in Nat /\ k + 1 \in 1 .. Len(delayed) /\ k + 1 \in 0 .. Len(delayed) /\ (k + 1) - 1 = k
    BY <1>1, <1>3
  <2>. DEFINE x == IF Fires(delayed[k + 1], event, source) THEN g[k]
                   ELSE Append(g[k], delayed[k + 1])
              h == [i \in 0 .. k + 1 |-> IF i = k + 1 THEN x ELSE g[i]]
  <2>3. g[k] \in Seq(S) /\ delayed[k + 1] \in S
    BY <1>1, <2>2
  <2>4. x \in Seq(S)
    BY <2>3, AppendProperties
  <2>. HIDE DEF x
  <2>5. h \in [0 .. k + 1 -> Seq(S)]
    BY <2>2, <2>4
  <2>6. \A i \in 0 .. k : h[i] = g[i] /\ i \in 0 .. k + 1
    BY <2>2
  <2>7. h[k + 1] = x
    BY <2>2
  <2>. HIDE DEF h
  <2>8. \A i \in 0 .. k + 1 : h[i] = KeptStep(event, source, h, i)
    <3>1. SUFFICES ASSUME NEW i \in 0 .. k + 1
                   PROVE  h[i] = KeptStep(event, source, h, i)
      OBVIOUS
    <3>2. CASE i = k + 1
      <4>1. k \in 0 .. k /\ h[k] = g[k]
        BY <2>2, <2>6
      <4>. QED
        BY <2>2, <2>7, <3>2, <4>1 DEF KeptStep, x
    <3>3. CASE i = 0
      BY <2>1, <2>2, <2>6, <3>3 DEF KeptStep
    <3>4. CASE i # k + 1 /\ i # 0
      <4>1. i \in 0 .. k /\ i - 1 \in 0 .. k
        BY <2>2, <3>1, <3>4
      <4>2. g[i] = KeptStep(event, source, g, i) /\ h[i] = g[i] /\ h[i - 1] = g[i - 1]
        BY <2>1, <2>6, <4>1
      <4>. QED
        BY <4>2 DEF KeptStep
    <3>. QED
      BY <3>2, <3>3, <3>4
  <2>. QED
    BY <2>2, <2>5, <2>8
<1>4. Len(delayed) \in good
  <2>. HIDE DEF good
  <2>1. \A k \in 0 .. Len(delayed) : k \in good
    BY <1>1, <1>2, <1>3, UpTo
  <2>. QED
    BY <1>1, <2>1
<1>5. PICK g \in [0 .. Len(delayed) -> Seq(S)] :
        \A i \in 0 .. Len(delayed) : g[i] = KeptStep(event, source, g, i)
  BY <1>4
<1>6. g = [i \in 0 .. Len(delayed) |-> g[i]]
  BY <1>5
<1>7. g = [i \in 0 .. Len(delayed) |-> KeptStep(event, source, g, i)]
  BY <1>5, <1>6
<1>. QED
  BY <1>7

(* So the function Remaining chooses is one. *)
LEMMA KeptIs ==
  ASSUME NEW S, delayed \in Seq(S), NEW event, NEW source
  PROVE  /\ Remaining(event, source) = Kept(event, source)[Len(delayed)]
         /\ \A i \in 0 .. Len(delayed) :
              Kept(event, source)[i] = KeptStep(event, source, Kept(event, source), i)
<1>. DEFINE k == Kept(event, source)
<1>1. Remaining(event, source) = k[Len(delayed)]
  BY DEF Remaining, Kept
<1>2. \E g : g = [i \in 0 .. Len(delayed) |->
              IF i = 0 THEN <<>>
              ELSE IF Fires(delayed[i], event, source) THEN g[i - 1]
              ELSE Append(g[i - 1], delayed[i])]
  BY KeptExists DEF KeptStep
<1>3. k = [i \in 0 .. Len(delayed) |->
         IF i = 0 THEN <<>>
         ELSE IF Fires(delayed[i], event, source) THEN k[i - 1]
         ELSE Append(k[i - 1], delayed[i])]
  BY <1>2, Zenon DEF Kept
<1>. HIDE DEF k
<1>4. k = [i \in 0 .. Len(delayed) |-> KeptStep(event, source, k, i)]
  BY <1>3, Zenon DEF KeptStep
<1>5. ASSUME NEW i \in 0 .. Len(delayed)
      PROVE  k[i] = KeptStep(event, source, k, i)
  BY <1>4, Zenon
<1>. QED
  BY <1>1, <1>5 DEF k

(* What is left is a part of what was registered. *)
LEMMA RemainingFacts ==
  ASSUME NEW S, delayed \in Seq(S), NEW event, NEW source
  PROVE  Remaining(event, source) \in Seq(S) /\ Len(Remaining(event, source)) <= Len(delayed)
<1>. DEFINE k(i) == Kept(event, source)[i]
            good == {i \in 0 .. Len(delayed) : k(i) \in Seq(S) /\ Len(k(i)) <= i}
<1>1. Len(delayed) \in Nat /\ \A i \in 1 .. Len(delayed) : delayed[i] \in S
  BY ElementOfSeq, LenProperties
<1>2. 0 \in good
  <2>1. k(0) = <<>>
    BY <1>1, KeptIs DEF KeptStep
  <2>2. k(0) \in Seq(S) /\ Len(k(0)) <= 0
    BY <2>1, EmptySeq
  <2>3. 0 \in 0 .. Len(delayed)
    BY <1>1
  <2>. HIDE DEF k
  <2>. QED
    BY <2>2, <2>3
<1>3. ASSUME NEW i \in 0 .. Len(delayed), i \in good, i < Len(delayed)
      PROVE  i + 1 \in good
  <2>1. /\ i \in Nat /\ i + 1 \in 1 .. Len(delayed) /\ i + 1 \in 0 .. Len(delayed)
        /\ (i + 1) - 1 = i /\ i + 1 # 0
    BY <1>1, <1>3
  <2>2. k(i + 1) = IF Fires(delayed[i + 1], event, source) THEN k(i)
                   ELSE Append(k(i), delayed[i + 1])
    BY <2>1, KeptIs DEF KeptStep
  <2>. HIDE DEF k
  <2>3. k(i) \in Seq(S) /\ Len(k(i)) <= i /\ Len(k(i)) \in Nat
    BY <1>3, LenProperties
  <2>4. /\ Append(k(i), delayed[i + 1]) \in Seq(S)
        /\ Len(Append(k(i), delayed[i + 1])) = Len(k(i)) + 1
    BY <1>1, <2>1, <2>3, AppendProperties
  <2>5. k(i + 1) \in Seq(S) /\ Len(k(i + 1)) <= i + 1
    <3>1. CASE Fires(delayed[i + 1], event, source)
      BY <2>1, <2>2, <2>3, <3>1
    <3>2. CASE ~Fires(delayed[i + 1], event, source)
      BY <2>1, <2>2, <2>3, <2>4, <3>2
    <3>. QED
      BY <3>1, <3>2
  <2>. QED
    BY <2>1, <2>5
<1>4. Len(delayed) \in good
  <2>. HIDE DEF good
  <2>1. \A i \in 0 .. Len(delayed) : i \in good
    BY <1>1, <1>2, <1>3, UpTo
  <2>. QED
    BY <1>1, <2>1
<1>. HIDE DEF k
<1>5. Remaining(event, source) = k(Len(delayed))
  BY KeptIs DEF k
<1>. QED
  BY <1>4, <1>5

(* The callbacks are calls of scripts. *)
LEMMA CallbacksPlain ==
  ASSUME NEW S, delayed \in Seq(S), NEW event, NEW source
  PROVE  Plain(Callbacks(event, source))
<1>. DEFINE n == Len(delayed) - Len(Remaining(event, source))
            t == [task |-> "script", callback |-> TRUE]
<1>1. n \in Nat
  BY RemainingFacts, LenProperties
<1>2. t \in FitTasks /\ t.task # "settle"
  BY DEF FitTasks, Tasks
<1>3. Callbacks(event, source) = [i \in 1 .. n |-> t]
  BY DEF Callbacks
<1>. HIDE DEF n, t
<1>4. [i \in 1 .. n |-> t] \in Seq(FitTasks)
  BY <1>1, <1>2, IsASeq
<1>. QED
  BY <1>2, <1>3, <1>4 DEF Plain, Settles

(* An order of some of the ids in T is a sequence of them. *)
LEMMA OrdersAreSeqs ==
  ASSUME NEW T \in SUBSET Ids, NEW S \in SUBSET T, NEW order \in SetToSeqs(S)
  PROVE  order \in Seq(T)
<1>1. S \subseteq Ids
  OBVIOUS
<1>2. Cardinality(S) \in Nat
  BY <1>1, BoardAssumption, FS_Subset, FS_CardinalityType
<1>3. order \in [1 .. Cardinality(S) -> S]
  BY DEF SetToSeqs
<1>4. order = [i \in 1 .. Cardinality(S) |-> order[i]]
      /\ \A i \in 1 .. Cardinality(S) : order[i] \in T
  BY <1>3
<1>. QED
  BY <1>2, <1>4, IsASeq

(* What fire_triggers pushes are abilities. *)
LEMMA BatchesAreAbilities ==
  ASSUME NEW z \in Managers, NEW trigger, NEW batch \in Batches(z, trigger)
  PROVE  /\ batch \in Seq(FitEntries) /\ Held(batch, Spells) = {} /\ Once(batch, Spells)
<1>. DEFINE Entry(c) == Ability(c, z.board[c].owner)
<1>1. OnBattlefield(z) \subseteq Ids
  BY Fields, BoardFields DEF OnBattlefield
<1>2. PICK first \in SetToSeqs(Sources(z, trigger, {active})),
           second \in SetToSeqs(Sources(z, trigger, Players \ {active})) :
        batch = Pushed(z, first \o second)
  BY DEF Batches
<1>3. PICK order : /\ order \in Seq(OnBattlefield(z))
                   /\ batch = [i \in DOMAIN order |-> Entry(order[i])]
  <2>1. \A P : Sources(z, trigger, P) \subseteq OnBattlefield(z)
    BY DEF Sources
  <2>2. first \in Seq(OnBattlefield(z)) /\ second \in Seq(OnBattlefield(z))
    BY <1>1, <1>2, <2>1, OrdersAreSeqs
  <2>3. first \o second \in Seq(OnBattlefield(z))
    BY <2>2, ConcatProperties
  <2>. QED
    BY <1>2, <2>3 DEF Pushed
<1>4. ASSUME NEW c \in OnBattlefield(z)
      PROVE  Entry(c) \in FitEntries /\ ~Entry(c).spell
  <2>1. c \in Ids /\ z.board[c].owner \in Players
    BY PermanentIsThere DEF OnBattlefield
  <2>. QED
    BY <2>1 DEF Ability, FitEntries, Entries
<1>. HIDE DEF Entry
<1>5. /\ Len(order) \in Nat /\ DOMAIN order = 1 .. Len(order)
      /\ \A i \in 1 .. Len(order) : order[i] \in OnBattlefield(z)
  BY <1>3, LenProperties, ElementOfSeq
<1>6. /\ DOMAIN batch = 1 .. Len(order)
      /\ \A i \in 1 .. Len(order) : batch[i] \in FitEntries /\ ~batch[i].spell
  BY <1>3, <1>4, <1>5
<1>7. batch \in Seq(FitEntries)
  <2>1. batch = [i \in 1 .. Len(order) |-> batch[i]]
    BY <1>3, <1>5
  <2>. QED
    BY <1>5, <1>6, <2>1, IsASeq
<1>. QED
  BY <1>6, <1>7, HeldNone DEF Spells

-----------------------------------------------------------------------------
(* What steps do to the stack and to the call stack. *)

(* Nobody puts a card away when nothing runs. *)
LEMMA IdleHoldsNothing ==
  ASSUME Idle
  PROVE  Resolving = {}
BY DEF Idle, Resolving, Held

(* Plain calls begin when nothing runs. *)
LEMMA PlainWhenIdle ==
  ASSUME Idle, Plain(agenda')
  PROVE  SameAgenda
<1>1. agenda' \in Seq(FitTasks) /\ Held(agenda', Settles) = {} /\ Once(agenda', Settles)
  BY PlainHoldsNothing
<1>2. Resolving = {} /\ Resolving' = {} /\ Once(agenda, Settles)'
  BY <1>1, IdleHoldsNothing DEF Resolving
<1>. QED
  BY <1>1, <1>2 DEF SameAgenda

(* What runs when something does, and what comes after it. *)
LEMMA NowRunning ==
  ASSUME Typed, Located, NEW task, Running(task)
  PROVE  /\ Now \in FitTasks /\ Now.task = task /\ Tail(agenda) \in Seq(FitTasks)
         /\ Once(Tail(agenda), Settles) /\ agenda # <<>>
         /\ task # "settle" => Held(Tail(agenda), Settles) = Resolving
         /\ task = "settle" => /\ Held(Tail(agenda), Settles) = Resolving \ {Now.card}
                               /\ Now.card \in Resolving
<1>1. agenda \in Seq(FitTasks) /\ agenda # <<>> /\ Now.task = task /\ Once(agenda, Settles)
  BY DEF Typed, Located, Running, Idle
<1>2. /\ Tail(agenda) \in Seq(FitTasks) /\ Head(agenda) \in FitTasks
      /\ Once(Tail(agenda), Settles)
      /\ Head(agenda) \in Settles
           => Held(Tail(agenda), Settles) = Held(agenda, Settles) \ {Head(agenda).card}
      /\ Head(agenda) \notin Settles => Held(Tail(agenda), Settles) = Held(agenda, Settles)
  BY <1>1, HeldTail
<1>3. Now \in Settles <=> task = "settle"
  BY <1>1, <1>2 DEF Settles, Now
<1>4. Now \in Settles => Now.card \in Resolving
  <2>1. PICK i \in DOMAIN agenda : Now = agenda[i]
    <3>1. Len(agenda) \in Nat \ {0} /\ DOMAIN agenda = 1 .. Len(agenda)
      BY <1>1, EmptySeq, LenProperties
    <3>. QED
      BY <3>1 DEF Now
  <2>. QED
    BY <2>1 DEF Resolving, Held
<1>. QED
  BY <1>1, <1>2, <1>3, <1>4 DEF Resolving, Now

(* The current call ends and plain ones take its place. *)
LEMMA PlainInstead ==
  ASSUME Typed, Located, NEW task, Running(task), task # "settle",
         NEW s, Plain(s), agenda' = s \o Tail(agenda)
  PROVE  SameAgenda
<1>1. /\ Tail(agenda) \in Seq(FitTasks) /\ Once(Tail(agenda), Settles)
      /\ Held(Tail(agenda), Settles) = Resolving
  BY NowRunning
<1>2. /\ agenda' \in Seq(FitTasks) /\ Held(agenda', Settles) = Resolving
      /\ Once(agenda', Settles)
  BY <1>1, PlainOnTop
<1>. QED
  BY <1>2 DEF SameAgenda, Resolving

(* Or it just ends. *)
LEMMA CallEnds ==
  ASSUME Typed, Located, NEW task, Running(task), task # "settle", agenda' = Tail(agenda)
  PROVE  SameAgenda
<1>1. /\ Tail(agenda) \in Seq(FitTasks) /\ Once(Tail(agenda), Settles)
      /\ Held(Tail(agenda), Settles) = Resolving
  BY NowRunning
<1>. QED
  BY <1>1 DEF SameAgenda, Resolving

(* A script makes a call. *)
LEMMA CallsKeepAgenda ==
  ASSUME Typed, Located, NEW s, Plain(s), Calls(s)
  PROVE  SameAgenda
<1>1. agenda \in Seq(FitTasks) /\ Once(agenda, Settles) /\ agenda' = s \o agenda
  BY DEF Typed, Located, Calls
<1>2. /\ agenda' \in Seq(FitTasks) /\ Held(agenda', Settles) = Held(agenda, Settles)
      /\ Once(agenda', Settles)
  BY <1>1, PlainOnTop
<1>. QED
  BY <1>2 DEF SameAgenda, Resolving

(* A script that only moves cards leaves both as they were. *)
LEMMA OnlyMovesKeeps ==
  ASSUME Typed, Located, OnlyMoves
  PROVE  SameAgenda /\ SameStack
<1>1. SameAgenda
  BY CallsKeepAgenda, PlainCalls DEF OnlyMoves
<1>2. SameStack
  BY StackStays DEF OnlyMoves
<1>. QED
  BY <1>1, <1>2

(* Abilities go on top of a stack. *)
LEMMA AbilitiesOnTop ==
  ASSUME NEW s \in Seq(FitEntries), Once(s, Spells), NEW t \in Seq(FitEntries),
         Held(t, Spells) = {}, Once(t, Spells)
  PROVE  /\ s \o t \in Seq(FitEntries) /\ Once(s \o t, Spells)
         /\ Held(s \o t, Spells) = Held(s, Spells)
<1>1. s \o t \in Seq(FitEntries)
  BY ConcatProperties
<1>2. /\ Held(s \o t, Spells) = Held(s, Spells) \cup Held(t, Spells)
      /\ Once(s, Spells) /\ Once(t, Spells) /\ Held(s, Spells) \cap Held(t, Spells) = {}
           => Once(s \o t, Spells)
  BY HeldConcat
<1>. QED
  BY <1>1, <1>2

(* One entry alone. *)
LEMMA OneEntry ==
  ASSUME NEW e \in FitEntries
  PROVE  /\ <<e>> \in Seq(FitEntries) /\ Once(<<e>>, Spells)
         /\ Held(<<e>>, Spells) = IF e.spell THEN {e.card} ELSE {}
<1>1. /\ <<e>> \in Seq(FitEntries) /\ DOMAIN <<e>> = {1} /\ <<e>>[1] = e
  OBVIOUS
<1>. DEFINE s == <<e>>
<1>. HIDE DEF s
<1>2. Once(s, Spells) /\ Held(s, Spells) = IF e.spell THEN {e.card} ELSE {}
  BY <1>1 DEF Once, Held, Spells, s
<1>. QED
  BY <1>1, <1>2 DEF s

(* An ability of one's own. *)
LEMMA AbilityFits ==
  ASSUME NEW c \in Ids, NEW p \in Players
  PROVE  Ability(c, p) \in FitEntries /\ ~Ability(c, p).spell
BY DEF Ability, FitEntries, Entries

(* A spell that its card's own player casts. *)
LEMMA SpellFits ==
  ASSUME NEW c \in Ids, NEW p \in Players, NEW t \in Ids \cup {None}, NEW exiled \in BOOLEAN,
         Own(c, p)
  PROVE  Spell(c, p, t, exiled) \in FitEntries /\ Spell(c, p, t, exiled).spell
         /\ Spell(c, p, t, exiled).card = c
BY DEF Spell, FitEntries, Entries

(* A spell goes on the stack: it is held there. *)
LEMMA SpellOnStack ==
  ASSUME Typed, Located, NEW e \in FitEntries, e.spell, e.card \notin OnStack \cup Resolving,
         stack' = Append(stack, e)
  PROVE  /\ stack' \in Seq(FitEntries) /\ Once(stack, Spells)'
         /\ OnStack' = OnStack \cup {e.card}
<1>1. stack \in Seq(FitEntries) /\ Once(stack, Spells)
  BY DEF Typed, Located
<1>2. stack' = stack \o <<e>>
  BY <1>1, AppendIsConcat
<1>3. /\ <<e>> \in Seq(FitEntries) /\ Once(<<e>>, Spells) /\ Held(<<e>>, Spells) = {e.card}
  BY OneEntry
<1>4. /\ Held(stack \o <<e>>, Spells) = Held(stack, Spells) \cup Held(<<e>>, Spells)
      /\ Once(stack, Spells) /\ Once(<<e>>, Spells)
         /\ Held(stack, Spells) \cap Held(<<e>>, Spells) = {} => Once(stack \o <<e>>, Spells)
  BY <1>1, <1>3, HeldConcat
<1>5. stack \o <<e>> \in Seq(FitEntries)
  BY <1>1, <1>3, ConcatProperties
<1>. QED
  BY <1>1, <1>2, <1>3, <1>4, <1>5 DEF OnStack

(* The top of the stack, and what the stack holds without it. *)
LEMMA TopAndRest ==
  ASSUME Typed, Located, stack # <<>>
  PROVE  /\ Top \in FitEntries /\ Rest \in Seq(FitEntries) /\ Once(Rest, Spells)
         /\ Top.spell => Held(Rest, Spells) = OnStack \ {Top.card} /\ Top.card \in OnStack
         /\ ~Top.spell => Held(Rest, Spells) = OnStack
<1>1. stack \in Seq(FitEntries) /\ Once(stack, Spells)
  BY DEF Typed, Located
<1>2. PICK k \in 1 .. Len(stack) : k = Len(stack) /\ Rest = RemoveAt(stack, k)
  BY <1>1, RestIsRemoved DEF Rest
<1>3. Top = stack[k] /\ Top \in FitEntries /\ k \in DOMAIN stack
  BY <1>1, <1>2, ElementOfSeq, LenProperties DEF Top
<1>4. /\ RemoveAt(stack, k) \in Seq(FitEntries)
      /\ Once(RemoveAt(stack, k), Spells)
      /\ stack[k] \in Spells =>
           Held(RemoveAt(stack, k), Spells) = Held(stack, Spells) \ {stack[k].card}
      /\ stack[k] \notin Spells => Held(RemoveAt(stack, k), Spells) = Held(stack, Spells)
  BY <1>1, HeldRemoved
<1>5. Top \in Spells <=> Top.spell
  BY <1>3 DEF Spells
<1>6. Top \in Spells => Top.card \in OnStack
  BY <1>3 DEF OnStack, Held
<1>. QED
  BY <1>2, <1>3, <1>4, <1>5, <1>6 DEF OnStack

-----------------------------------------------------------------------------
(* What the calls of a script do to the cards. *)

(* A card of a list that is taken from there, which tells the index or not, and
   put elsewhere for its player. *)
LEMMA ListToList ==
  ASSUME NEW z \in Managers, NEW h, LocatedIn(z, h), NEW x \in Places, NEW p \in Players,
         NEW c \in z.zones[x][p], NEW w, w \in {Pop(z, x, p, c), RemoveFrom(z, x, p, c)},
         NEW y \in Places \ {"Sideboard"}, NEW q \in Players, Own(c, q)
  PROVE  /\ Add(w, y, q, c) \in Managers /\ \A d \in Ids : Moved(z, Add(w, y, q, c), d)
         /\ Add(w, y, q, c).board = z.board
<1>1. c \in Ids
  BY Fields
<1>2. Sits(z, c, x, p) /\ Placed(z, c)
  BY <1>1, ListedInPlace
<1>3. w \in Managers /\ Others(z, w, c) /\ Absent(w, c) /\ w.board = z.board
  <2>1. CASE w = Pop(z, x, p, c)
    BY <1>1, <1>2, <2>1, PopMoves
  <2>2. CASE w = RemoveFrom(z, x, p, c)
    BY <1>1, <1>2, <2>2, RemoveFromMoves DEF Nowhere
  <2>. QED
    BY <2>1, <2>2
<1>. DEFINE v == Add(w, y, q, c)
<1>4. v \in Managers /\ Others(w, v, c) /\ Sits(v, c, y, q) /\ v.board = w.board
  BY <1>1, <1>3, AddMoves
<1>. HIDE DEF v
<1>5. Placed(v, c)
  BY <1>4 DEF Placed, Spots
<1>6. \A d \in Ids : Moved(z, v, d)
  BY <1>1, <1>2, <1>3, <1>4, <1>5, MovesOver
<1>. QED
  BY <1>3, <1>4, <1>6 DEF v

(* A card of a list that goes to its player's hand. *)
LEMMA ListToHand ==
  ASSUME NEW z \in Managers, NEW h, LocatedIn(z, h), NEW x \in Places, NEW p \in Players,
         NEW c \in z.zones[x][p], NEW q \in Players, Own(c, q)
  PROVE  LET y == PushBack(RemoveFrom(z, x, p, c), "Hand", q, c) IN
         y \in Managers /\ y.board = z.board /\ \A d \in Ids : Moved(z, y, d)
<1>. DEFINE w == RemoveFrom(z, x, p, c)
            y == PushBack(w, "Hand", q, c)
<1>1. c \in Ids
  BY Fields
<1>2. Sits(z, c, x, p) /\ Placed(z, c)
  BY <1>1, ListedInPlace
<1>3. w \in Managers /\ Others(z, w, c) /\ Nowhere(w, c) /\ w.board = z.board
  BY <1>1, <1>2, RemoveFromMoves
<1>. HIDE DEF w
<1>4. y \in Managers /\ Others(w, y, c) /\ Sits(y, c, "Hand", q) /\ y.board = w.board
  BY <1>1, <1>3, PushBackMoves
<1>. HIDE DEF y
<1>5. Placed(y, c)
  BY <1>4 DEF Placed, Spots, Places
<1>6. \A d \in Ids : Moved(z, y, d)
  BY <1>1, <1>2, <1>3, <1>4, <1>5, MovesOver
<1>. QED
  BY <1>3, <1>4, <1>6 DEF y, w

(* The player a move concerns when the owner is looked up is the card's own. *)
LEMMA OwnerOrOwns ==
  ASSUME NEW c, NEW p \in Players, Own(c, p)
  PROVE  OwnerOr(c, p) \in Players /\ Own(c, OwnerOr(c, p))
BY BoardAssumption DEF OwnerOr, Own

(* A permanent that goes to a zone of its owner. *)
LEMMA BoardToList ==
  ASSUME NEW z \in Managers, NEW h, LocatedIn(z, h), NEW c \in DOMAIN z.board,
         NEW y, NEW w, w = remove_from_battlefield(z, c), NEW x \in Places,
         y = IF x = "Hand" THEN PushBack(w, "Hand", z.board[c].owner, c)
             ELSE Add(w, x, z.board[c].owner, c),
         x # "Sideboard"
  PROVE  /\ y \in Managers /\ \A d \in Ids : Moved(z, y, d)
         /\ y.board = w.board
<1>1. /\ c \in Ids /\ z.board[c].owner \in Players /\ Own(c, z.board[c].owner) /\ Placed(z, c)
  BY PermanentInPlace
<1>2. PICK p \in Players : p = z.board[c].owner
  BY <1>1
<1>3. w \in Managers /\ Others(z, w, c) /\ Nowhere(w, c)
  BY <1>1, LeaveMoves
<1>4. y \in Managers /\ Others(w, y, c) /\ Sits(y, c, x, p) /\ y.board = w.board
  <2>1. CASE x = "Hand"
    BY <1>1, <1>2, <1>3, <2>1, PushBackMoves
  <2>2. CASE x # "Hand"
    BY <1>1, <1>2, <1>3, <2>2, AddMoves DEF Nowhere
  <2>. QED
    BY <2>1, <2>2
<1>5. Placed(y, c)
  BY <1>1, <1>2, <1>4 DEF Placed, Spots
<1>6. \A d \in Ids : Moved(z, y, d)
  BY <1>1, <1>3, <1>4, <1>5, MovesOver
<1>. QED
  BY <1>4, <1>6

(* Only the lists change hands in these calls. *)
LEMMA ListCallsNext ==
  ASSUME Typed, Located, NEW p \in Players,
         draw_cards(p) \/ discard_cards(p) \/ mill(p) \/ return_from_graveyard(p)
  PROVE  Typed' /\ Located'
<1>1. zm \in Managers /\ LocatedIn(zm, OnStack \cup Resolving)
  BY DEF Typed, Located
<1>2. OnlyMoves
  BY DEF draw_cards, discard_cards, mill, return_from_graveyard
<1>3. ASSUME NEW x \in {"Library", "Hand", "Graveyard"}, NEW c \in zm.zones[x][p]
      PROVE  Own(c, p)
  <2>1. c \in Ids /\ x \in Places
    BY <1>1, Fields DEF Places
  <2>. QED
    BY <1>1, <2>1, ListedInPlace
<1>4. zm' \in Managers /\ \A d \in Ids : Moved(zm, zm', d)
  <2>1. CASE draw_cards(p)
    <3>1. PICK c \in zm.zones["Library"][p] : zm' = Add(Pop(zm, "Library", p, c), "Hand", p, c)
      BY <2>1 DEF draw_cards
    <3>. QED
      BY <1>1, <1>3, <3>1, ListToList DEF Places
  <2>2. CASE discard_cards(p)
    <3>1. PICK c \in zm.zones["Hand"][p] : zm' = Add(Pop(zm, "Hand", p, c), "Graveyard", p, c)
      BY <2>2 DEF discard_cards
    <3>. QED
      BY <1>1, <1>3, <3>1, ListToList DEF Places
  <2>3. CASE mill(p)
    <3>1. PICK c \in zm.zones["Library"][p] :
            zm' = Add(RemoveFrom(zm, "Library", p, c), "Graveyard", p, c)
      BY <2>3 DEF mill
    <3>. QED
      BY <1>1, <1>3, <3>1, ListToList DEF Places
  <2>4. CASE return_from_graveyard(p)
    <3>1. PICK c \in zm.zones["Graveyard"][p] :
            zm' = PushBack(RemoveFrom(zm, "Graveyard", p, c), "Hand", p, c)
      BY <2>4 DEF return_from_graveyard
    <3>. QED
      BY <1>1, <1>3, <3>1, ListToHand DEF Places
  <2>. QED
    BY <2>1, <2>2, <2>3, <2>4
<1>. QED
  BY <1>2, <1>4, OnlyMovesKeeps, MovesKeepInv

(* A card of the library enters. *)
LEMMA SearchNext ==
  ASSUME Typed, Located, NEW p \in Players, search_library_to_battlefield(p)
  PROVE  Typed' /\ Located'
<1>1. zm \in Managers /\ LocatedIn(zm, OnStack \cup Resolving)
  BY DEF Typed, Located
<1>2. PICK c \in zm.zones["Library"][p] :
        zm' = add_to_battlefield(RemoveFrom(zm, "Library", p, c), c, p, FALSE)
  BY DEF search_library_to_battlefield
<1>3. c \in Ids /\ "Library" \in Places
  BY <1>1, Fields DEF Places
<1>4. Sits(zm, c, "Library", p) /\ Placed(zm, c) /\ Own(c, p)
  BY <1>1, <1>3, ListedInPlace
<1>. DEFINE w == RemoveFrom(zm, "Library", p, c)
<1>5. w \in Managers /\ Others(zm, w, c) /\ Nowhere(w, c)
  BY <1>1, <1>3, <1>4, RemoveFromMoves
<1>. HIDE DEF w
<1>6. zm' \in Managers /\ Others(w, zm', c) /\ Sits(zm', c, "Battlefield", p)
  BY <1>2, <1>3, <1>5, EnterMoves DEF Nowhere, w
<1>7. Placed(zm', c)
  BY <1>4, <1>6 DEF Placed, Spots
<1>8. \A d \in Ids : Moved(zm, zm', d)
  BY <1>3, <1>4, <1>5, <1>6, <1>7, MovesOver
<1>. QED
  BY <1>6, <1>8, OnlyMovesKeeps, MovesKeepInv DEF search_library_to_battlefield

(* A card returns to its owner's hand from wherever it is. *)
LEMMA ReturnNext ==
  ASSUME Typed, Located, NEW c \in Ids, return_to_hand(c)
  PROVE  Typed' /\ Located'
<1>1. zm \in Managers /\ LocatedIn(zm, OnStack \cup Resolving)
  BY DEF Typed, Located
<1>2. ASSUME c \in OnBattlefield(zm),
             zm' = PushBack(remove_from_battlefield(zm, c), "Hand", zm.board[c].owner, c)
      PROVE  zm' \in Managers /\ \A d \in Ids : Moved(zm, zm', d)
  BY <1>1, <1>2, BoardToList DEF OnBattlefield, Places
<1>3. ASSUME NEW p \in Players, NEW place \in {"Graveyard", "Exile"}, c \in zm.zones[place][p],
             zm' = PushBack(RemoveFrom(zm, place, p, c), "Hand",
                            IF place = "Exile" THEN p ELSE OwnerOr(c, p), c)
      PROVE  zm' \in Managers /\ \A d \in Ids : Moved(zm, zm', d)
  <2>1. place \in Places
    BY DEF Places
  <2>2. Own(c, p)
    BY <1>1, <1>3, <2>1, ListedInPlace
  <2>3. PICK q \in Players : Own(c, q) /\ q = IF place = "Exile" THEN p ELSE OwnerOr(c, p)
    BY <2>2, OwnerOrOwns
  <2>4. zm' = PushBack(RemoveFrom(zm, place, p, c), "Hand", q, c)
    BY <1>3, <2>3
  <2>. QED
    BY <1>1, <1>3, <2>1, <2>3, <2>4, ListToHand
<1>4. zm' \in Managers /\ \A d \in Ids : Moved(zm, zm', d)
  BY <1>2, <1>3 DEF return_to_hand
<1>. QED
  BY <1>4, OnlyMovesKeeps, MovesKeepInv DEF return_to_hand

(* A card is exiled from wherever it is; a token is gone. *)
LEMMA ExileNext ==
  ASSUME Typed, Located, NEW c \in Ids, exile_card(c)
  PROVE  Typed' /\ Located'
<1>1. zm \in Managers /\ LocatedIn(zm, OnStack \cup Resolving)
  BY DEF Typed, Located
<1>. DEFINE gone == remove_from_battlefield(zm, c)
<1>2. ASSUME c \in OnBattlefield(zm),
             zm' = IF zm.board[c].token THEN gone ELSE Add(gone, "Exile", zm.board[c].owner, c)
      PROVE  zm' \in Managers /\ \A d \in Ids : Moved(zm, zm', d)
  <2>1. CASE zm.board[c].token
    <3>1. zm.board \in Boards
      BY <1>1, Fields
    <3>2. c \in Tokens
      BY <1>2, <2>1, <3>1, BoardFields DEF OnBattlefield
    <3>3. Placed(zm, c)
      BY <1>1, <1>2, PermanentInPlace DEF OnBattlefield
    <3>4. zm' \in Managers /\ Others(zm, zm', c) /\ Nowhere(zm', c)
      BY <1>1, <1>2, <2>1, <3>3, LeaveMoves DEF OnBattlefield
    <3>5. \A d \in Ids \ {c} : Moved(zm, zm', d)
      BY <3>4, SameIsMoved DEF Others
    <3>6. Moved(zm, zm', c)
      BY <3>2, <3>4 DEF Moved
    <3>. QED
      BY <3>4, <3>5, <3>6
  <2>2. CASE ~zm.board[c].token
    BY <1>1, <1>2, <2>2, BoardToList DEF OnBattlefield, Places
  <2>. QED
    BY <2>1, <2>2
<1>3. ASSUME NEW p \in Players, NEW place \in {"Graveyard", "Hand"}, c \in zm.zones[place][p],
             zm' = Add(RemoveFrom(zm, place, p, c), "Exile", OwnerOr(c, p), c)
      PROVE  zm' \in Managers /\ \A d \in Ids : Moved(zm, zm', d)
  <2>1. place \in Places /\ "Exile" \in Places \ {"Sideboard"}
    BY DEF Places
  <2>2. Own(c, p)
    BY <1>1, <1>3, <2>1, ListedInPlace
  <2>3. OwnerOr(c, p) \in Players /\ Own(c, OwnerOr(c, p))
    BY <2>2, OwnerOrOwns
  <2>. QED
    BY <1>1, <1>3, <2>1, <2>3, ListToList
<1>. HIDE DEF gone
<1>4. zm' \in Managers /\ \A d \in Ids : Moved(zm, zm', d)
  <2>1. \/ c \in OnBattlefield(zm)
           /\ zm' = IF zm.board[c].token THEN gone ELSE Add(gone, "Exile", zm.board[c].owner, c)
        \/ \E p \in Players, place \in {"Graveyard", "Hand"} :
             c \in zm.zones[place][p]
             /\ zm' = Add(RemoveFrom(zm, place, p, c), "Exile", OwnerOr(c, p), c)
    BY DEF exile_card, gone
  <2>. QED
    BY <1>2, <1>3, <2>1
<1>. QED
  BY <1>4, OnlyMovesKeeps, MovesKeepInv DEF exile_card

(* A permanent is buried. *)
LEMMA KillNext ==
  ASSUME Typed, Located, NEW c \in Ids, destroy_permanent(c) \/ sacrifice(c)
  PROVE  Typed' /\ Located'
<1>1. zm \in Managers /\ LocatedIn(zm, OnStack \cup Resolving)
  BY DEF Typed, Located
<1>2. zm' \in Managers /\ \A d \in Ids : Moved(zm, zm', d)
  BY <1>1, BoardToList DEF destroy_permanent, sacrifice, Kill, Bury, OnBattlefield, Places
<1>3. SameStack
  BY StackStays DEF destroy_permanent, sacrifice
<1>4. SameAgenda
  <2>1. Calls(IF IsCreature(c) THEN News(c) ELSE <<>>)
    BY DEF destroy_permanent, sacrifice
  <2>2. Plain(IF IsCreature(c) THEN News(c) ELSE <<>>)
    BY PlainCalls
  <2>. QED
    BY <2>1, <2>2, CallsKeepAgenda
<1>. QED
  BY <1>2, <1>3, <1>4, MovesKeepInv

(* Changes to permanents that leave them where they are. *)
LEMMA BoardOnly ==
  ASSUME Typed, Located, NEW b \in Boards, DOMAIN b = DOMAIN zm.board,
         \A c \in DOMAIN b : b[c].owner = zm.board[c].owner,
         zm' = [zm EXCEPT !.board = b], SameStack, SameAgenda
  PROVE  Typed' /\ Located'
<1>1. zm' \in Managers /\ \A d \in Ids : Same(zm, zm', d)
  BY BoardChange DEF Typed
<1>2. \A d \in Ids : Moved(zm, zm', d)
  BY <1>1, SameIsMoved
<1>. QED
  BY <1>1, <1>2, MovesKeepInv

(* Damage and counters. *)
LEMMA MarkNext ==
  ASSUME Typed, Located, NEW c \in Ids, deal_damage(c) \/ add_counter(c)
  PROVE  Typed' /\ Located'
<1>1. zm \in Managers /\ zm.board \in Boards /\ c \in DOMAIN zm.board
  BY Fields DEF Typed, deal_damage, add_counter, OnBattlefield
<1>2. zm.board[c] \in Permanents /\ DOMAIN zm.board \subseteq Ids
  BY <1>1, BoardFields
<1>3. ASSUME NEW perm \in Permanents, perm.owner = zm.board[c].owner,
             perm.token = zm.board[c].token, zm' = [zm EXCEPT !.board[c] = perm]
      PROVE  Typed' /\ Located'
  <2>. DEFINE b == [zm.board EXCEPT ![c] = perm]
  <2>1. /\ b \in [DOMAIN zm.board -> Permanents] /\ DOMAIN b = DOMAIN zm.board
        /\ \A d \in DOMAIN b : b[d] = IF d = c THEN perm ELSE zm.board[d]
    BY <1>1, BoardFields
  <2>2. zm' = [zm EXCEPT !.board = b]
    BY <1>3
  <2>. HIDE DEF b
  <2>3. \A d \in DOMAIN b : b[d].token => d \in Tokens
    BY <1>1, <1>3, <2>1, BoardFields
  <2>4. b \in Boards
    BY <1>2, <2>1, <2>3, IsBoard
  <2>5. \A d \in DOMAIN b : b[d].owner = zm.board[d].owner
    BY <1>3, <2>1
  <2>6. SameStack /\ SameAgenda
    BY OnlyMovesKeeps DEF deal_damage, add_counter
  <2>. QED
    BY <2>1, <2>2, <2>4, <2>5, <2>6, BoardOnly
<1>. DEFINE hurt == [zm.board[c] EXCEPT !.damage = 1]
            more == [zm.board[c] EXCEPT !.plus = 1]
            less == [zm.board[c] EXCEPT !.minus = 1]
<1>4. \A perm \in {hurt, more, less} :
        perm \in Permanents /\ perm.owner = zm.board[c].owner /\ perm.token = zm.board[c].token
  BY <1>2 DEF Permanents
<1>5. \E perm \in {hurt, more, less} : zm' = [zm EXCEPT !.board[c] = perm]
  <2>1. \/ zm' = [zm EXCEPT !.board[c].damage = 1] \/ zm' = [zm EXCEPT !.board[c].plus = 1]
        \/ zm' = [zm EXCEPT !.board[c].minus = 1]
    BY DEF deal_damage, add_counter
  <2>. QED
    BY <2>1
<1>. HIDE DEF hurt, more, less
<1>. QED
  BY <1>3, <1>4, <1>5

(* A permanent is attached to another. *)
LEMMA AttachedToFits ==
  ASSUME NEW board \in Boards, NEW e \in DOMAIN board, NEW t \in DOMAIN board
  PROVE  LET b == AttachedTo(board, e, t) IN
         /\ b \in Boards /\ DOMAIN b = DOMAIN board
         /\ \A c \in DOMAIN b : b[c].owner = board[c].owner
<1>. DEFINE new(c) == [board[c] EXCEPT
                 !.attached = IF c = e THEN t ELSE board[c].attached,
                 !.attachments = CASE c = t -> board[c].attachments \cup {e}
                        [] c # t /\ c = board[e].attached -> board[c].attachments \ {e}
                        [] OTHER -> board[c].attachments]
            b == AttachedTo(board, e, t)
<1>1. b = [c \in DOMAIN board |-> new(c)]
  BY DEF AttachedTo
<1>2. \A c \in DOMAIN board : board[c] \in Permanents /\ c \in Ids
  BY BoardFields
<1>3. ASSUME NEW c \in DOMAIN board
      PROVE  /\ new(c) \in Permanents /\ new(c).owner = board[c].owner
             /\ new(c).token = board[c].token
  <2>1. board[c] \in Permanents
    BY <1>2
  <2>. DEFINE a == IF c = e THEN t ELSE board[c].attached
              s == CASE c = t -> board[c].attachments \cup {e}
                     [] c # t /\ c = board[e].attached -> board[c].attachments \ {e}
                     [] OTHER -> board[c].attachments
  <2>2. a \in Ids \cup {None} /\ s \in SUBSET Ids
    BY <1>2, <2>1 DEF Permanents
  <2>3. new(c) = [board[c] EXCEPT !.attached = a, !.attachments = s]
    OBVIOUS
  <2>. HIDE DEF a, s, new
  <2>. QED
    BY <2>1, <2>2, <2>3 DEF Permanents
<1>. HIDE DEF new, b
<1>4. b \in [DOMAIN board -> Permanents] /\ \A c \in DOMAIN board : b[c] = new(c)
  BY <1>1, <1>3
<1>5. DOMAIN board \subseteq Ids /\ \A c \in DOMAIN board : b[c].token => c \in Tokens
  BY <1>3, <1>4, BoardFields
<1>6. b \in Boards
  BY <1>4, <1>5, IsBoard
<1>. QED
  BY <1>3, <1>4, <1>6 DEF b

(* Equipment moves from creature to creature. *)
LEMMA AttachNext ==
  ASSUME Typed, Located, NEW e \in Ids, NEW t \in Ids, attach(e, t)
  PROVE  Typed' /\ Located'
<1>1. zm \in Managers /\ zm.board \in Boards /\ e \in DOMAIN zm.board /\ t \in DOMAIN zm.board
  BY Fields DEF Typed, attach, OnBattlefield
<1>2. PICK b : b = AttachedTo(zm.board, e, t)
  OBVIOUS
<1>3. zm' = [zm EXCEPT !.board = b]
  BY <1>2 DEF attach
<1>4. /\ b \in Boards /\ DOMAIN b = DOMAIN zm.board
      /\ \A c \in DOMAIN b : b[c].owner = zm.board[c].owner
  BY <1>1, <1>2, AttachedToFits
<1>. QED
  BY <1>3, <1>4, BoardOnly, OnlyMovesKeeps DEF attach

(* A new token was nowhere, and is held nowhere. *)
LEMMA TokenNext ==
  ASSUME Typed, Located, active \in Players, NEW t \in Tokens, create_token(t)
  PROVE  Typed' /\ Located'
<1>1. /\ zm \in Managers /\ LocatedIn(zm, OnStack \cup Resolving)
      /\ stack \in Seq(FitEntries) /\ agenda \in Seq(FitTasks)
  BY DEF Typed, Located
<1>2. t \in Ids /\ t \notin Cards
  BY BoardAssumption DEF Ids
<1>3. ~Mentioned(t) /\ zm' = add_to_battlefield(zm, t, active, TRUE)
  BY DEF create_token
<1>4. t \notin OnStack \cup Resolving
  <2>1. t \notin OnStack
    BY <1>3 DEF Mentioned, OnStack, Held
  <2>2. ASSUME NEW i \in DOMAIN agenda, agenda[i] \in Settles
        PROVE  agenda[i].card \in Cards
    BY <2>2 DEF Settles, FitTasks, Tasks
  <2>3. t \notin Resolving
    BY <1>2, <2>2 DEF Resolving, Held
  <2>. QED
    BY <2>1, <2>3
<1>5. Absent(zm, t)
  BY <1>3 DEF Mentioned, Absent, At, Spots, OnBattlefield
<1>6. zm' \in Managers /\ Others(zm, zm', t) /\ Sits(zm', t, "Battlefield", active)
  BY <1>1, <1>2, <1>3, <1>5, EnterMoves
<1>7. Placed(zm', t)
  BY <1>2, <1>6 DEF Placed, Spots, Own
<1>8. LocatedIn(zm', (OnStack \cup Resolving) \ {t})
  BY <1>1, <1>2, <1>6, <1>7, HeldIsPut
<1>9. SameStack /\ SameAgenda
  BY OnlyMovesKeeps DEF create_token
<1>10. (OnStack \cup Resolving) \ {t} = OnStack \cup Resolving
  BY <1>4
<1>11. LocatedIn(zm', OnStack \cup Resolving)
  BY <1>8, <1>10
<1>. QED
  BY <1>6, <1>9, <1>11 DEF Typed, Located, SameStack, SameAgenda

(* A spell that leaves the stack is put into a place of its player. *)
LEMMA SpellIsPut ==
  ASSUME Typed, Located, NEW e \in FitEntries, e.spell, e.card \in OnStack,
         zm' \in Managers, Placed(zm', e.card), Others(zm, zm', e.card),
         stack' \in Seq(FitEntries), Once(stack, Spells)', OnStack' = OnStack \ {e.card},
         SameAgenda
  PROVE  Typed' /\ Located'
<1>1. e.card \in Ids /\ LocatedIn(zm, OnStack \cup Resolving) /\ e.card \notin Resolving
  BY DEF Located, FitEntries, Entries
<1>2. LocatedIn(zm', (OnStack \cup Resolving) \ {e.card})
  BY <1>1, HeldIsPut
<1>3. (OnStack \cup Resolving) \ {e.card} = (OnStack \ {e.card}) \cup Resolving
  BY <1>1
<1>4. LocatedIn(zm', (OnStack \ {e.card}) \cup Resolving)
  BY <1>2, <1>3
<1>. QED
  BY <1>4 DEF Typed, Located, SameAgenda

(* In particular into its player's graveyard. *)
LEMMA SpellToGraveyard ==
  ASSUME Typed, Located, NEW e \in FitEntries, e.spell, e.card \in OnStack
  PROVE  LET y == Add(zm, "Graveyard", e.owner, e.card) IN
         y \in Managers /\ Placed(y, e.card) /\ Others(zm, y, e.card)
<1>1. /\ e.card \in Ids /\ e.owner \in Players /\ Own(e.card, e.owner)
      /\ LocatedIn(zm, OnStack \cup Resolving) /\ zm \in Managers
  BY DEF Typed, Located, FitEntries, Entries
<1>2. Absent(zm, e.card)
  BY <1>1 DEF LocatedIn, Nowhere
<1>. DEFINE y == Add(zm, "Graveyard", e.owner, e.card)
<1>3. y \in Managers /\ Sits(y, e.card, "Graveyard", e.owner) /\ Others(zm, y, e.card)
  BY <1>1, <1>2, AddMoves DEF Places
<1>. HIDE DEF y
<1>4. Placed(y, e.card)
  BY <1>1, <1>3 DEF Placed, Spots, Places
<1>. QED
  BY <1>3, <1>4 DEF y

(* Something on the stack is countered. *)
LEMMA CounterNext ==
  ASSUME Typed, Located, NEW i \in DOMAIN stack, counter_spell(i)
  PROVE  Typed' /\ Located'
<1>1. stack \in Seq(FitEntries) /\ Once(stack, Spells)
  BY DEF Typed, Located
<1>2. PICK k \in 1 .. Len(stack) : k = i
  BY <1>1, LenProperties
<1>3. /\ stack' \in Seq(FitEntries) /\ Once(stack', Spells)
      /\ stack[k] \in Spells => Held(stack', Spells) = Held(stack, Spells) \ {stack[k].card}
      /\ stack[k] \notin Spells => Held(stack', Spells) = Held(stack, Spells)
  BY <1>1, <1>2, HeldRemoved DEF counter_spell
<1>4. stack[k] \in FitEntries
  BY <1>1, ElementOfSeq
<1>5. SameAgenda
  BY CallsKeepAgenda, PlainCalls DEF counter_spell
<1>6. CASE stack[k].spell
  <2>1. stack[k] \in Spells /\ stack[k].card \in OnStack
    BY <1>2, <1>4, <1>6 DEF Spells, OnStack, Held
  <2>2. zm' = Add(zm, "Graveyard", stack[k].owner, stack[k].card)
    BY <1>2, <1>6 DEF counter_spell
  <2>3. zm' \in Managers /\ Placed(zm', stack[k].card) /\ Others(zm, zm', stack[k].card)
    BY <1>4, <1>6, <2>1, <2>2, SpellToGraveyard
  <2>. QED
    BY <1>3, <1>4, <1>5, <1>6, <2>1, <2>3, SpellIsPut DEF OnStack
<1>7. CASE ~stack[k].spell
  <2>1. SameStack
    BY <1>3, <1>7 DEF SameStack, Spells, OnStack
  <2>2. UNCHANGED zm
    BY <1>2, <1>7 DEF counter_spell
  <2>. QED
    BY <1>5, <2>1, <2>2, StaysKeepInv
<1>. QED
  BY <1>6, <1>7

(* A delayed trigger is registered, or the limit reached. *)
LEMMA RegisterNext ==
  ASSUME Typed, Located, NEW source, NEW event, register_delayed_trigger(source, event)
  PROVE  Typed' /\ Located'
<1>1. SameAgenda /\ SameStack /\ UNCHANGED zm
  BY CallsKeepAgenda, StackStays, PlainCalls DEF register_delayed_trigger
<1>. QED
  BY <1>1, StaysKeepInv

(* Every call of a script keeps the cards in their places. *)
LEMMA ScriptCallNext ==
  ASSUME Typed, Located, active \in Players, ScriptCall
  PROVE  Typed' /\ Located'
<1>1. ASSUME NEW p \in Players,
             \/ draw_cards(p) \/ discard_cards(p) \/ mill(p)
             \/ search_library_to_battlefield(p) \/ return_from_graveyard(p)
      PROVE  Typed' /\ Located'
  BY <1>1, ListCallsNext, SearchNext
<1>2. ASSUME NEW c \in Ids,
             \/ return_to_hand(c) \/ exile_card(c) \/ destroy_permanent(c) \/ sacrifice(c)
             \/ deal_damage(c) \/ add_counter(c)
             \/ \E t \in Ids : attach(c, t)
      PROVE  Typed' /\ Located'
  BY <1>2, ReturnNext, ExileNext, KillNext, MarkNext, AttachNext
<1>3. ASSUME NEW t \in Tokens, create_token(t)
      PROVE  Typed' /\ Located'
  BY <1>3, TokenNext
<1>4. ASSUME NEW i \in DOMAIN stack, counter_spell(i)
      PROVE  Typed' /\ Located'
  BY <1>4, CounterNext
<1>5. ASSUME NEW source, NEW event, register_delayed_trigger(source, event)
      PROVE  Typed' /\ Located'
  BY <1>5, RegisterNext
<1>. QED
  BY <1>1, <1>2, <1>3, <1>4, <1>5 DEF ScriptCall

-----------------------------------------------------------------------------
(* What the state-based actions and the end of the turn do to the cards. *)

(* A change to permanents of z that leaves them where they are. *)
LEMMA Remade ==
  ASSUME NEW z \in Managers, NEW b, DOMAIN b = DOMAIN z.board,
         b = [c \in DOMAIN z.board |-> b[c]],
         \A c \in DOMAIN z.board : /\ b[c] \in Permanents /\ b[c].owner = z.board[c].owner
                                   /\ b[c].token = z.board[c].token
  PROVE  LET y == [z EXCEPT !.board = b] IN
         /\ y \in Managers /\ y.board = b /\ \A d \in Ids : Same(z, y, d) /\ Moved(z, y, d)
<1>1. z.board \in Boards
  BY Fields
<1>2. DOMAIN z.board \in SUBSET Ids /\ \A c \in DOMAIN z.board : b[c].token => c \in Tokens
  BY <1>1, BoardFields
<1>3. b \in [DOMAIN z.board -> Permanents]
  OBVIOUS
<1>4. b \in Boards
  BY <1>2, <1>3, IsBoard
<1>. DEFINE y == [z EXCEPT !.board = b]
<1>5. y \in Managers /\ y.board = b /\ \A d \in Ids : Same(z, y, d)
  BY <1>4, BoardChange
<1>. HIDE DEF y
<1>6. \A d \in Ids : Moved(z, y, d)
  BY <1>5, SameIsMoved
<1>. QED
  BY <1>5, <1>6 DEF y

(* What has come loose comes off or goes to a graveyard. *)
LEMMA OrphansMoves ==
  ASSUME NEW z \in Managers
  PROVE  LET y == PutOrphansAway(z) IN
         /\ y \in Managers /\ \A d \in Ids : Moved(z, y, d)
         /\ DOMAIN y.board \subseteq DOMAIN z.board
<1>. DEFINE loose == {c \in Orphans(z) : ~IsEnchantment(c)}
            off(c) == IF c \in loose THEN [z.board[c] EXCEPT !.attached = None] ELSE z.board[c]
            b == [c \in DOMAIN z.board |-> off(c)]
            w == [z EXCEPT !.board = b]
            y == PutAway(w, Orphans(z) \ loose)
<1>1. PutOrphansAway(z) = y
  BY DEF PutOrphansAway
<1>2. \A c \in DOMAIN z.board : z.board[c] \in Permanents
  BY Fields, BoardFields
<1>3. \A c \in DOMAIN z.board : /\ off(c) \in Permanents /\ off(c).owner = z.board[c].owner
                                /\ off(c).token = z.board[c].token
  BY <1>2 DEF Permanents
<1>4. Orphans(z) \ loose \subseteq DOMAIN z.board
  BY DEF Orphans, OnBattlefield
<1>. HIDE DEF loose, off
<1>5. DOMAIN b = DOMAIN z.board /\ b = [c \in DOMAIN z.board |-> b[c]]
      /\ \A c \in DOMAIN z.board : b[c] = off(c)
  OBVIOUS
<1>. HIDE DEF b
<1>6. w \in Managers /\ w.board = b /\ \A d \in Ids : Moved(z, w, d)
  <2>1. \A c \in DOMAIN z.board : /\ b[c] \in Permanents /\ b[c].owner = z.board[c].owner
                                  /\ b[c].token = z.board[c].token
    BY <1>3, <1>5
  <2>. QED
    BY <1>5, <2>1, Remade
<1>. HIDE DEF w
<1>7. /\ y \in Managers /\ \A d \in Ids : Moved(w, y, d)
      /\ DOMAIN y.board = DOMAIN w.board \ (Orphans(z) \ loose)
  BY <1>4, <1>5, <1>6, PutAwayMoves
<1>. HIDE DEF y
<1>8. \A d \in Ids : Moved(z, y, d)
  BY <1>6, <1>7, MovedTwice
<1>. QED
  BY <1>1, <1>5, <1>6, <1>7, <1>8

(* Counters annihilate. *)
LEMMA AnnihilateMoves ==
  ASSUME NEW z \in Managers
  PROVE  /\ Annihilate(z) \in Managers /\ \A d \in Ids : Moved(z, Annihilate(z), d)
         /\ DOMAIN Annihilate(z).board = DOMAIN z.board
<1>. DEFINE less(c) == IF z.board[c].plus < z.board[c].minus THEN z.board[c].plus
                       ELSE z.board[c].minus
            made(c) == IF c \in Cancelling(z)
                       THEN [z.board[c] EXCEPT !.plus = z.board[c].plus - less(c),
                                               !.minus = z.board[c].minus - less(c)]
                       ELSE z.board[c]
            b == [c \in DOMAIN z.board |-> made(c)]
<1>1. Annihilate(z) = [z EXCEPT !.board = b]
  BY DEF Annihilate
<1>2. ASSUME NEW c \in DOMAIN z.board
      PROVE  /\ made(c) \in Permanents /\ made(c).owner = z.board[c].owner
             /\ made(c).token = z.board[c].token
  <2>1. z.board[c] \in Permanents
    BY Fields, BoardFields
  <2>2. z.board[c].plus - less(c) \in 0 .. 1 /\ z.board[c].minus - less(c) \in 0 .. 1
    BY <2>1 DEF Permanents
  <2>. HIDE DEF less
  <2>. QED
    BY <2>1, <2>2 DEF Permanents
<1>. HIDE DEF made
<1>3. DOMAIN b = DOMAIN z.board /\ b = [c \in DOMAIN z.board |-> b[c]]
      /\ \A c \in DOMAIN z.board : b[c] = made(c)
  OBVIOUS
<1>. HIDE DEF b
<1>4. \A c \in DOMAIN z.board : /\ b[c] \in Permanents /\ b[c].owner = z.board[c].owner
                                /\ b[c].token = z.board[c].token
  BY <1>2, <1>3
<1>. DEFINE y == [z EXCEPT !.board = b]
<1>5. y \in Managers /\ y.board = b /\ \A d \in Ids : Moved(z, y, d)
  BY <1>3, <1>4, Remade
<1>. HIDE DEF y
<1>. QED
  BY <1>1, <1>3, <1>5 DEF y

(* Damage wears off. *)
LEMMA HealedMoves ==
  ASSUME NEW z \in Managers
  PROVE  /\ Healed(z) \in Managers /\ \A d \in Ids : Same(z, Healed(z), d) /\ Moved(z, Healed(z), d)
         /\ DOMAIN Healed(z).board = DOMAIN z.board
<1>. DEFINE b == [c \in DOMAIN z.board |-> [z.board[c] EXCEPT !.damage = 0]]
<1>1. Healed(z) = [z EXCEPT !.board = b]
  BY DEF Healed, Managers
<1>2. \A c \in DOMAIN z.board : z.board[c] \in Permanents
  BY Fields, BoardFields
<1>3. DOMAIN b = DOMAIN z.board /\ b = [c \in DOMAIN z.board |-> b[c]]
      /\ \A c \in DOMAIN z.board : /\ b[c] \in Permanents /\ b[c].owner = z.board[c].owner
                                   /\ b[c].token = z.board[c].token
  BY <1>2 DEF Permanents
<1>. HIDE DEF b
<1>. QED
  BY <1>1, <1>3, Remade

(* The calls of a pass keep the cards in their places. *)
LEMMA PassNext ==
  ASSUME Typed, Located, NEW applied \in BOOLEAN, FinishPass(applied)
  PROVE  Typed' /\ Located'
<1>1. zm \in Managers
  BY DEF Typed
<1>2. PICK out \in LegendChoices(zm) :
        /\ zm' = Annihilate(PutOrphansAway(PutAway(zm, out)))
        /\ \E again \in BOOLEAN : agenda' = (IF again THEN Check ELSE <<>>) \o Tail(agenda)
  BY DEF FinishPass
<1>3. out \subseteq DOMAIN zm.board
  BY DEF LegendChoices, Legends, OnBattlefield
<1>4. PICK one : one = PutAway(zm, out)
  OBVIOUS
<1>5. one \in Managers /\ \A d \in Ids : Moved(zm, one, d)
  BY <1>1, <1>3, <1>4, PutAwayMoves
<1>6. PICK two : two = PutOrphansAway(one)
  OBVIOUS
<1>7. two \in Managers /\ \A d \in Ids : Moved(one, two, d)
  BY <1>5, <1>6, OrphansMoves
<1>8. zm' = Annihilate(two)
  BY <1>2, <1>4, <1>6
<1>9. zm' \in Managers /\ \A d \in Ids : Moved(two, zm', d)
  BY <1>7, <1>8, AnnihilateMoves
<1>10. \A d \in Ids : Moved(zm, zm', d)
  BY <1>5, <1>7, <1>9, MovedTwice
<1>11. SameAgenda
  <2>1. PICK task \in {"check", "deaths"} : Running(task)
    BY DEF FinishPass
  <2>. QED
    BY <1>2, <2>1, PlainInstead, PlainCalls
<1>12. SameStack
  BY StackStays DEF FinishPass
<1>. QED
  BY <1>9, <1>10, <1>11, <1>12, MovesKeepInv

(* The creatures that must die are told of in some order. *)
LEMMA StartPassAgenda ==
  ASSUME Typed, StartPass
  PROVE  \E dead \in Seq(Ids) : agenda' = Deaths(dead) \o Tail(agenda)
<1>1. zm \in Managers /\ Dying(zm) \subseteq DOMAIN zm.board
  BY DEF Typed, Dying, OnBattlefield
<1>2. PICK P, Q : \E first \in SetToSeqs({c \in Dying(zm) : zm.board[c].owner \in P}),
                     second \in SetToSeqs({c \in Dying(zm) : zm.board[c].owner \in Q}) :
                    agenda' = Deaths(first \o second) \o Tail(agenda)
  BY DEF StartPass
<1>3. Dying(zm) \subseteq Ids
  BY <1>1, Fields, BoardFields
<1>4. PICK S \in SUBSET Ids, T \in SUBSET Ids :
        \E first \in SetToSeqs(S), second \in SetToSeqs(T) :
          agenda' = Deaths(first \o second) \o Tail(agenda)
  <2>1. /\ {c \in Dying(zm) : zm.board[c].owner \in P} \in SUBSET Ids
        /\ {c \in Dying(zm) : zm.board[c].owner \in Q} \in SUBSET Ids
    BY <1>3
  <2>. QED
    BY <1>2, <2>1
<1>5. PICK first \in SetToSeqs(S), second \in SetToSeqs(T) :
        agenda' = Deaths(first \o second) \o Tail(agenda)
  BY <1>4
<1>6. first \in Seq(Ids) /\ second \in Seq(Ids)
  BY <1>5, OrdersAreSeqs
<1>7. first \o second \in Seq(Ids)
  BY <1>6, ConcatProperties
<1>. QED
  BY <1>5, <1>7

(* The creatures that must die leave together. *)
LEMMA StartPassNext ==
  ASSUME Typed, Located, StartPass
  PROVE  Typed' /\ Located'
<1>1. zm \in Managers
  BY DEF Typed
<1>2. Dying(zm) \subseteq DOMAIN zm.board /\ zm' = PutAway(zm, Dying(zm)) /\ Running("check")
  BY DEF Dying, OnBattlefield, StartPass
<1>3. zm' \in Managers /\ \A d \in Ids : Moved(zm, zm', d)
  BY <1>1, <1>2, PutAwayMoves
<1>5. PICK dead \in Seq(Ids) : agenda' = Deaths(dead) \o Tail(agenda)
  BY StartPassAgenda
<1>6. SameAgenda
  BY <1>2, <1>5, PlainInstead, PlainCalls
<1>7. SameStack
  BY StackStays DEF StartPass
<1>. QED
  BY <1>3, <1>6, <1>7, MovesKeepInv

(* The script of one death and the news of it come before the other deaths. *)
LEMMA NextDeathAgenda ==
  ASSUME Typed, Located, NextDeath
  PROVE  \E s, dead : /\ Plain(s) /\ Plain(Deaths(dead))
                      /\ agenda' = (s \o Deaths(dead)) \o Tail(agenda)
<1>1. /\ Running("deaths") /\ Now.dead # <<>>
      /\ agenda' = (IF Has(Head(Now.dead), "dies") THEN Script(FALSE) ELSE <<>>)
                     \o News(Head(Now.dead)) \o Deaths(Tail(Now.dead)) \o Tail(agenda)
  BY DEF NextDeath
<1>2. Now \in FitTasks /\ Now.task = "deaths"
  BY <1>1, NowRunning
<1>3. Now.dead \in Seq(Ids)
  BY <1>2 DEF FitTasks, Tasks
<1>4. Head(Now.dead) \in Ids /\ Tail(Now.dead) \in Seq(Ids)
  BY <1>1, <1>3, HeadTailProperties
<1>. DEFINE a == IF Has(Head(Now.dead), "dies") THEN Script(FALSE) ELSE <<>>
            b == News(Head(Now.dead))
            c == Deaths(Tail(Now.dead))
<1>5. Plain(a) /\ Plain(b) /\ Plain(c)
  BY <1>4, PlainCalls
<1>. HIDE DEF a, b
<1>6. Plain(a \o b)
  BY <1>5, PlainConcat
<1>7. agenda' = ((a \o b) \o c) \o Tail(agenda)
  BY <1>1 DEF a, b
<1>. QED
  BY <1>5, <1>6, <1>7

(* So the cards stay where they are. *)
LEMMA NextDeathNext ==
  ASSUME Typed, Located, NextDeath
  PROVE  Typed' /\ Located'
<1>1. Running("deaths") /\ UNCHANGED <<zm, stack>>
  BY DEF NextDeath
<1>2. PICK s, dead : /\ Plain(s) /\ Plain(Deaths(dead))
                     /\ agenda' = (s \o Deaths(dead)) \o Tail(agenda)
  BY NextDeathAgenda
<1>3. Plain(s \o Deaths(dead))
  BY <1>2, PlainConcat
<1>4. SameAgenda
  BY <1>1, <1>2, <1>3, PlainInstead
<1>. QED
  BY <1>1, <1>4, StackStays, StaysKeepInv

(* The other creatures' triggers and the delayed ones. *)
LEMMA TellNext ==
  ASSUME Typed, TurnTyped, Located, TellOfDeath
  PROVE  Typed' /\ Located'
<1>1. Running("news") /\ UNCHANGED zm
  BY DEF TellOfDeath
<1>2. PICK batch \in Batches(zm, "another_dies") : stack' = stack \o batch
  BY DEF TellOfDeath
<1>3. /\ batch \in Seq(FitEntries) /\ Held(batch, Spells) = {} /\ Once(batch, Spells)
  BY <1>2, BatchesAreAbilities DEF Typed
<1>4. SameStack
  <2>1. stack \in Seq(FitEntries) /\ Once(stack, Spells)
    BY DEF Typed, Located
  <2>. QED
    BY <1>2, <1>3, <2>1, AbilitiesOnTop DEF SameStack, OnStack
<1>5. SameAgenda
  <2>1. Plain(Callbacks("on_death", Now.card))
    BY CallbacksPlain DEF TurnTyped
  <2>. QED
    BY <1>1, <2>1, PlainInstead DEF TellOfDeath
<1>. QED
  BY <1>1, <1>4, <1>5, StaysKeepInv

(* A sorcery is put away after its script. *)
LEMMA SettleNext ==
  ASSUME Typed, Located, SettleSpell
  PROVE  Typed' /\ Located'
<1>1. /\ Running("settle") /\ zm' = Add(zm, Now.place, Now.owner, Now.card)
      /\ agenda' = Tail(agenda) /\ UNCHANGED stack
  BY DEF SettleSpell
<1>2. /\ Now \in FitTasks /\ Now.task = "settle" /\ Tail(agenda) \in Seq(FitTasks)
      /\ Once(Tail(agenda), Settles)
      /\ Held(Tail(agenda), Settles) = Resolving \ {Now.card} /\ Now.card \in Resolving
  BY <1>1, NowRunning
<1>3. /\ Now.card \in Cards /\ Now.owner \in Players /\ Now.place \in {"Graveyard", "Exile"}
      /\ Own(Now.card, Now.owner)
  BY <1>2 DEF FitTasks, Tasks
<1>4. PICK c \in Ids, p \in Players, x \in {"Graveyard", "Exile"} :
        c = Now.card /\ p = Now.owner /\ x = Now.place
  BY <1>3 DEF Ids
<1>5. zm \in Managers /\ LocatedIn(zm, OnStack \cup Resolving)
  BY DEF Typed, Located
<1>6. Absent(zm, c)
  BY <1>2, <1>4, <1>5 DEF LocatedIn, Nowhere
<1>7. zm' \in Managers /\ Others(zm, zm', c) /\ Sits(zm', c, x, p)
  BY <1>1, <1>4, <1>5, <1>6, AddMoves DEF Places
<1>8. Placed(zm', c)
  BY <1>3, <1>4, <1>7 DEF Placed, Spots, Places
<1>9. LocatedIn(zm', (OnStack \cup Resolving) \ {c})
  BY <1>5, <1>7, <1>8, HeldIsPut
<1>10. SameStack
  BY <1>1, StackStays
<1>11. agenda' \in Seq(FitTasks) /\ Once(agenda, Settles)' /\ Resolving' = Resolving \ {c}
  BY <1>1, <1>2, <1>4 DEF Resolving
<1>12. (OnStack \cup Resolving) \ {c} = OnStack \cup Resolving'
  BY <1>2, <1>4, <1>11 DEF Located
<1>13. LocatedIn(zm', OnStack' \cup Resolving')
  BY <1>9, <1>10, <1>12 DEF SameStack
<1>. QED
  BY <1>7, <1>10, <1>11, <1>13 DEF Typed, Located, SameStack

(* Everything the thread does by itself keeps the cards in their places. *)
LEMMA ThreadNext ==
  ASSUME Typed, TurnTyped, Located, Thread
  PROVE  Typed' /\ Located'
<1>1. CASE ScriptCall
  BY <1>1, ScriptCallNext DEF TurnTyped
<1>2. CASE ScriptEnds
  BY <1>2, CallEnds, StackStays, StaysKeepInv DEF ScriptEnds
<1>3. CASE \E applied \in BOOLEAN : FinishPass(applied)
  BY <1>3, PassNext
<1>. QED
  BY <1>1, <1>2, <1>3, SettleNext, StartPassNext, NextDeathNext, TellNext DEF Thread

-----------------------------------------------------------------------------
(* What the players do. *)

(* Every action of a player is followed by the state-based actions. *)
LEMMA ActedKeepsAgenda ==
  ASSUME Idle, agenda' = Check
  PROVE  SameAgenda /\ Resolving = {} /\ Resolving' = {}
<1>1. SameAgenda
  BY PlainWhenIdle, PlainCalls
<1>2. Resolving = {}
  BY IdleHoldsNothing
<1>. QED
  BY <1>1, <1>2 DEF SameAgenda

(* A player may name any permanent as a target. *)
LEMMA TargetsAreIds ==
  ASSUME Typed
  PROVE  Targets \subseteq Ids \cup {None}
BY Fields, BoardFields DEF Typed, Targets, OnBattlefield

(* A card leaves a list for the stack, and others may move. *)
LEMMA CastFrom ==
  ASSUME Typed, Located, Idle, NEW x \in Places, NEW p \in Players,
         NEW c \in zm.zones[x][p], NEW w, w = RemoveFrom(zm, x, p, c),
         zm' \in Managers, \A d \in Ids : Moved(w, zm', d),
         NEW t \in Targets, NEW exiled \in BOOLEAN,
         stack' = Append(stack, Spell(c, p, t, exiled)), agenda' = Check
  PROVE  Typed' /\ Located'
<1>1. zm \in Managers /\ LocatedIn(zm, OnStack \cup Resolving) /\ c \in Ids
  BY Fields DEF Typed, Located
<1>2. Sits(zm, c, x, p) /\ Own(c, p) /\ c \notin OnStack \cup Resolving
  BY <1>1, ListedInPlace
<1>3. Others(zm, w, c) /\ Nowhere(w, c)
  BY <1>1, <1>2, RemoveFromMoves
<1>4. Nowhere(zm', c)
  BY <1>1, <1>3 DEF Moved
<1>5. \A d \in Ids \ {c} : Moved(zm, zm', d)
  BY <1>3, SameIsMoved, MovedTwice DEF Others
<1>6. LocatedIn(zm', (OnStack \cup Resolving) \cup {c})
  BY <1>1, <1>4, <1>5, TakenIsHeld
<1>7. t \in Ids \cup {None}
  BY TargetsAreIds
<1>8. PICK e \in FitEntries : e = Spell(c, p, t, exiled) /\ e.spell /\ e.card = c
  BY <1>1, <1>2, <1>7, SpellFits
<1>9. stack' \in Seq(FitEntries) /\ Once(stack, Spells)' /\ OnStack' = OnStack \cup {c}
  BY <1>2, <1>8, SpellOnStack
<1>10. SameAgenda /\ Resolving = {} /\ Resolving' = {}
  BY ActedKeepsAgenda
<1>11. LocatedIn(zm', OnStack' \cup Resolving')
  BY <1>6, <1>9, <1>10
<1>. QED
  BY <1>9, <1>10, <1>11 DEF Typed, Located, SameAgenda

(* From the hand, where Delve may move cards of the graveyard. *)
LEMMA PlayCardNext ==
  ASSUME Typed, Located, NEW p \in Players, NEW c \in Ids, PlayCard(p, c)
  PROVE  Typed' /\ Located'
<1>1. zm \in Managers /\ "Hand" \in Places /\ c \in zm.zones["Hand"][p]
  BY DEF Typed, Places, PlayCard
<1>2. PICK w : w = RemoveFrom(zm, "Hand", p, c)
  OBVIOUS
<1>3. w \in Managers
  BY <1>1, <1>2, RemoveFromMoves
<1>4. zm' \in Managers /\ \A d \in Ids : Moved(w, zm', d)
  BY <1>2, <1>3, DelvedMoves DEF PlayCard
<1>5. PICK t \in Targets : stack' = Append(stack, Spell(c, p, t, FALSE))
  BY DEF PlayCard
<1>. QED
  BY <1>1, <1>2, <1>4, <1>5, CastFrom DEF PlayCard, Acted

(* From the graveyard. *)
LEMMA PlayFlashbackNext ==
  ASSUME Typed, Located, NEW p \in Players, NEW c \in Ids, PlayFlashback(p, c)
  PROVE  Typed' /\ Located'
<1>1. zm \in Managers /\ "Graveyard" \in Places /\ c \in zm.zones["Graveyard"][p]
  BY DEF Typed, Places, PlayFlashback
<1>2. zm' = RemoveFrom(zm, "Graveyard", p, c)
  BY DEF PlayFlashback
<1>3. zm' \in Managers
  BY <1>1, <1>2, RemoveFromMoves
<1>4. \A d \in Ids : Moved(zm', zm', d)
  BY DEF Moved
<1>5. PICK t \in Targets : stack' = Append(stack, Spell(c, p, t, TRUE))
  BY DEF PlayFlashback
<1>. QED
  BY <1>1, <1>2, <1>3, <1>4, <1>5, CastFrom DEF PlayFlashback, Acted

(* A card that cannot be cast goes back into the hand. *)
LEMMA PlayCardFailsNext ==
  ASSUME Typed, Located, NEW p \in Players, NEW c \in Ids, PlayCardFails(p, c)
  PROVE  Typed' /\ Located'
<1>1. /\ zm \in Managers /\ LocatedIn(zm, OnStack \cup Resolving)
      /\ "Hand" \in Places /\ c \in zm.zones["Hand"][p]
  BY DEF Typed, Located, Places, PlayCardFails
<1>2. Sits(zm, c, "Hand", p) /\ Own(c, p) /\ Placed(zm, c)
  BY <1>1, ListedInPlace
<1>3. PICK w : w = RemoveFrom(zm, "Hand", p, c)
  OBVIOUS
<1>4. w \in Managers /\ Others(zm, w, c) /\ Nowhere(w, c)
  BY <1>1, <1>2, <1>3, RemoveFromMoves
<1>5. PICK z \in Delved(w, p, c) : zm' = PushBack(z, "Hand", p, c)
  BY <1>3 DEF PlayCardFails
<1>6. z \in Managers /\ \A d \in Ids : Moved(w, z, d)
  BY <1>4, DelvedMoves
<1>7. Nowhere(z, c)
  BY <1>4, <1>6 DEF Moved
<1>8. zm' \in Managers /\ Others(z, zm', c) /\ Sits(zm', c, "Hand", p)
  BY <1>5, <1>6, <1>7, PushBackMoves
<1>9. Placed(zm', c)
  BY <1>2, <1>8 DEF Placed, Spots, Places
<1>10. ASSUME NEW d \in Ids
       PROVE  Moved(zm, zm', d)
  <2>1. CASE d = c
    BY <1>2, <1>9, <2>1, PlacedIsNotNowhere DEF Moved
  <2>2. CASE d # c
    <3>1. Moved(zm, w, d) /\ Moved(w, z, d) /\ Moved(z, zm', d)
      BY <1>4, <1>6, <1>8, <2>2, SameIsMoved DEF Others
    <3>. QED
      BY <3>1, MovedTwice
  <2>. QED
    BY <2>1, <2>2
<1>11. SameAgenda /\ SameStack
  BY ActedKeepsAgenda, StackStays DEF PlayCardFails, Acted
<1>. QED
  BY <1>8, <1>10, <1>11, MovesKeepInv

(* A card of the hand for one of the sideboard. *)
LEMMA SwapNext ==
  ASSUME Typed, Located, NEW p \in Players, NEW out \in Ids, NEW in \in Ids,
         SideboardSwap(p, out, in)
  PROVE  Typed' /\ Located'
<1>1. /\ zm \in Managers /\ LocatedIn(zm, OnStack \cup Resolving)
      /\ "Hand" \in Places /\ "Sideboard" \in Places /\ "Hand" \in Spots /\ "Sideboard" \in Spots
      /\ out \in zm.zones["Hand"][p] /\ in \in zm.zones["Sideboard"][p]
  BY DEF Typed, Located, Places, Spots, SideboardSwap
<1>2. /\ Sits(zm, out, "Hand", p) /\ Own(out, p) /\ Placed(zm, out)
      /\ Sits(zm, in, "Sideboard", p) /\ Own(in, p) /\ Placed(zm, in)
  BY <1>1, ListedInPlace
<1>3. out # in
  BY <1>1, <1>2 DEF Sits
<1>4. PICK w : w = RemoveFrom(zm, "Hand", p, out)
  OBVIOUS
<1>5. w \in Managers /\ Others(zm, w, out) /\ Nowhere(w, out)
  BY <1>1, <1>2, <1>4, RemoveFromMoves
<1>6. Sits(w, in, "Sideboard", p)
  BY <1>1, <1>2, <1>3, <1>5, SameKeeps DEF Others
<1>7. PICK v : v = Pop(w, "Sideboard", p, in)
  OBVIOUS
<1>8. v \in Managers /\ Others(w, v, in) /\ v.index = w.index /\ Absent(v, in)
  BY <1>1, <1>5, <1>6, <1>7, PopMoves
<1>9. Nowhere(v, in)
  BY <1>6, <1>8 DEF Sits, Marked, Nowhere
<1>10. Nowhere(v, out)
  BY <1>3, <1>5, <1>8, SameKeeps DEF Others
<1>11. PICK u : u = PushBack(v, "Sideboard", p, out)
  OBVIOUS
<1>12. u \in Managers /\ Others(v, u, out) /\ Sits(u, out, "Sideboard", p)
  BY <1>8, <1>10, <1>11, PushBackMoves
<1>13. Nowhere(u, in)
  BY <1>3, <1>9, <1>12, SameKeeps DEF Others
<1>14. zm' = PushBack(u, "Hand", p, in)
  BY <1>4, <1>7, <1>11 DEF SideboardSwap
<1>15. zm' \in Managers /\ Others(u, zm', in) /\ Sits(zm', in, "Hand", p)
  BY <1>12, <1>13, <1>14, PushBackMoves
<1>16. Sits(zm', out, "Sideboard", p)
  BY <1>1, <1>3, <1>12, <1>15, SameKeeps DEF Others
<1>17. Placed(zm', in) /\ Placed(zm', out)
  BY <1>1, <1>2, <1>15, <1>16 DEF Placed
<1>18. ASSUME NEW d \in Ids
       PROVE  Moved(zm, zm', d)
  <2>1. CASE d \in {in, out}
    BY <1>2, <1>17, <2>1, PlacedIsNotNowhere DEF Moved
  <2>2. CASE d \notin {in, out}
    <3>1. Moved(zm, w, d) /\ Moved(w, v, d) /\ Moved(v, u, d) /\ Moved(u, zm', d)
      BY <1>5, <1>8, <1>12, <1>15, <2>2, SameIsMoved DEF Others
    <3>2. Moved(zm, v, d) /\ Moved(v, zm', d)
      BY <3>1, MovedTwice
    <3>. QED
      BY <3>2, MovedTwice
  <2>. QED
    BY <2>1, <2>2
<1>19. SameAgenda /\ SameStack
  BY ActedKeepsAgenda, StackStays DEF SideboardSwap, Acted
<1>. QED
  BY <1>15, <1>18, <1>19, MovesKeepInv

(* An ability goes on the stack. *)
LEMMA ActivateNext ==
  ASSUME Typed, Located, NEW p \in Players, NEW c \in Ids, ActivateAbility(p, c)
  PROVE  Typed' /\ Located'
<1>1. stack \in Seq(FitEntries) /\ Once(stack, Spells)
  BY DEF Typed, Located
<1>2. PICK e \in FitEntries : e = Ability(c, p) /\ ~e.spell
  BY AbilityFits
<1>3. stack' = stack \o <<e>>
  BY <1>1, <1>2, AppendIsConcat DEF ActivateAbility
<1>4. <<e>> \in Seq(FitEntries) /\ Once(<<e>>, Spells) /\ Held(<<e>>, Spells) = {}
  BY <1>2, OneEntry
<1>5. PICK s : s = <<e>>
  OBVIOUS
<1>6. SameStack
  BY <1>1, <1>3, <1>4, <1>5, AbilitiesOnTop DEF SameStack, OnStack
<1>. QED
  BY <1>6, ActedKeepsAgenda, StaysKeepInv DEF ActivateAbility, Acted

(* A spell whose target is gone goes to the graveyard. *)
LEMMA FizzleNext ==
  ASSUME Typed, Located, Fizzle
  PROVE  Typed' /\ Located'
<1>1. /\ Top \in FitEntries /\ Rest \in Seq(FitEntries) /\ Once(Rest, Spells)
      /\ Top.spell => Held(Rest, Spells) = OnStack \ {Top.card} /\ Top.card \in OnStack
  BY TopAndRest DEF Fizzle
<1>2. Top.spell
  BY <1>1 DEF FitEntries, Fizzle, TargetGone
<1>3. zm' \in Managers /\ Placed(zm', Top.card) /\ Others(zm, zm', Top.card)
  BY <1>1, <1>2, SpellToGraveyard DEF Fizzle
<1>4. stack' \in Seq(FitEntries) /\ Once(stack, Spells)' /\ OnStack' = OnStack \ {Top.card}
  BY <1>1, <1>2 DEF Fizzle, OnStack
<1>5. SameAgenda
  BY ActedKeepsAgenda DEF Fizzle, Acted
<1>6. PICK e \in FitEntries : e = Top
  BY <1>1
<1>. QED
  BY <1>1, <1>2, <1>3, <1>4, <1>5, <1>6, SpellIsPut

(* A spell that becomes a permanent is on the battlefield only. *)
LEMMA EnteredMoves ==
  ASSUME Typed, Located, NEW e \in FitEntries, e.spell, e.card \in OnStack, ~TargetGone(e)
  PROVE  /\ Entered(e) \in Managers /\ Placed(Entered(e), e.card)
         /\ Others(zm, Entered(e), e.card)
<1>1. /\ zm \in Managers /\ LocatedIn(zm, OnStack \cup Resolving)
      /\ e.card \in Ids /\ e.owner \in Players /\ Own(e.card, e.owner)
      /\ e.target \in Ids \cup {None}
  BY DEF Typed, Located, FitEntries, Entries
<1>2. PICK c \in Ids, p \in Players :
        c = e.card /\ p = OwnerOr(e.card, e.owner) /\ Own(c, p)
  BY <1>1, OwnerOrOwns
<1>3. Absent(zm, c)
  BY <1>1, <1>2 DEF LocatedIn, Nowhere
<1>4. PICK z : z = add_to_battlefield(zm, c, p, FALSE)
  OBVIOUS
<1>5. /\ z \in Managers /\ Others(zm, z, c) /\ Sits(z, c, "Battlefield", p)
      /\ DOMAIN z.board = DOMAIN zm.board \cup {c}
  <2>1. PICK token \in BOOLEAN : token = FALSE
    OBVIOUS
  <2>2. zm \in Managers /\ (token => c \in Tokens)
    BY <1>1, <2>1
  <2>3. z = add_to_battlefield(zm, c, p, token)
    BY <1>4, <2>1
  <2>4. LET y == add_to_battlefield(zm, c, p, token) IN
        /\ y \in Managers /\ Others(zm, y, c) /\ Sits(y, c, "Battlefield", p)
        /\ DOMAIN y.board = DOMAIN zm.board \cup {c}
    BY <1>3, <2>2, EnterMoves
  <2>. QED
    BY <2>3, <2>4
<1>6. Placed(z, c)
  BY <1>2, <1>5 DEF Placed, Spots
<1>7. CASE ~(IsEnchantment(c) /\ e.target # None)
  <2>1. Entered(e) = z
    BY <1>2, <1>4, <1>7 DEF Entered
  <2>. QED
    BY <1>2, <1>5, <1>6, <2>1
<1>8. CASE IsEnchantment(c) /\ e.target # None
  <2>1. PICK t \in Ids : t = e.target /\ t \in DOMAIN z.board
    BY <1>1, <1>5, <1>8 DEF TargetGone, OnBattlefield
  <2>2. c \in DOMAIN z.board /\ z.board \in Boards
    BY <1>5, Fields
  <2>3. PICK b : b = AttachedTo(z.board, c, t)
    OBVIOUS
  <2>4. PICK y : y = [z EXCEPT !.board = b]
    OBVIOUS
  <2>5. Entered(e) = y
    BY <1>2, <1>4, <1>8, <2>1, <2>3, <2>4 DEF Entered
  <2>6. /\ b \in Boards /\ DOMAIN b = DOMAIN z.board
        /\ \A d \in DOMAIN b : b[d].owner = z.board[d].owner
    <3>1. PICK board \in Boards : board = z.board
      BY <2>2
    <3>2. c \in DOMAIN board /\ t \in DOMAIN board /\ b = AttachedTo(board, c, t)
      BY <2>1, <2>2, <2>3, <3>1
    <3>3. b \in Boards /\ DOMAIN b = DOMAIN board /\ \A d \in DOMAIN b : b[d].owner = board[d].owner
      <4>1. PICK a \in DOMAIN board, d \in DOMAIN board : a = c /\ d = t
        BY <3>2
      <4>2. LET new == AttachedTo(board, a, d) IN
            /\ new \in Boards /\ DOMAIN new = DOMAIN board
            /\ \A x \in DOMAIN new : new[x].owner = board[x].owner
        BY AttachedToFits
      <4>. QED
        BY <3>2, <4>1, <4>2
    <3>. QED
      BY <3>1, <3>3
  <2>7. y \in Managers /\ \A d \in Ids : Same(z, y, d)
    BY <1>5, <2>4, <2>6, BoardChange
  <2>8. Placed(y, c)
    BY <1>6, <2>7, SameKeeps
  <2>9. Others(zm, y, c)
    BY <1>5, <2>7 DEF Others, Same
  <2>. QED
    BY <1>2, <2>5, <2>7, <2>8, <2>9
<1>. QED
  BY <1>7, <1>8

(* A permanent spell resolves and its triggers go on the stack. *)
LEMMA ResolvePermanentNext ==
  ASSUME Typed, Located, ResolvePermanent
  PROVE  Typed' /\ Located'
<1>1. /\ Top \in FitEntries /\ Rest \in Seq(FitEntries) /\ Once(Rest, Spells)
      /\ Top.spell /\ Held(Rest, Spells) = OnStack \ {Top.card} /\ Top.card \in OnStack
  BY TopAndRest DEF ResolvePermanent
<1>2. zm' \in Managers /\ Placed(zm', Top.card) /\ Others(zm, zm', Top.card)
  BY <1>1, EnteredMoves DEF ResolvePermanent
<1>3. PICK own, batch :
        /\ own = IF Has(Top.card, "enters") THEN <<Ability(Top.card, Top.owner)>> ELSE <<>>
        /\ batch \in IF IsCreature(Top.card) THEN Batches(zm', "another_enters") ELSE {<<>>}
        /\ stack' = Rest \o own \o batch
  BY DEF ResolvePermanent
<1>4. <<>> \in Seq(FitEntries) /\ Held(<<>>, Spells) = {} /\ Once(<<>>, Spells)
  BY DEF Held, Once
<1>5. own \in Seq(FitEntries) /\ Held(own, Spells) = {} /\ Once(own, Spells)
  <2>1. Top.card \in Ids /\ Top.owner \in Players
    BY <1>1 DEF FitEntries, Entries
  <2>2. PICK a \in FitEntries : a = Ability(Top.card, Top.owner) /\ ~a.spell
    BY <2>1, AbilityFits
  <2>3. <<a>> \in Seq(FitEntries) /\ Once(<<a>>, Spells) /\ Held(<<a>>, Spells) = {}
    BY <2>2, OneEntry
  <2>. QED
    BY <1>3, <1>4, <2>2, <2>3
<1>6. batch \in Seq(FitEntries) /\ Held(batch, Spells) = {} /\ Once(batch, Spells)
  BY <1>2, <1>3, <1>4, BatchesAreAbilities
<1>7. /\ Rest \o own \in Seq(FitEntries) /\ Once(Rest \o own, Spells)
      /\ Held(Rest \o own, Spells) = Held(Rest, Spells)
  BY <1>1, <1>5, AbilitiesOnTop
<1>8. stack' \in Seq(FitEntries) /\ Once(stack, Spells)' /\ OnStack' = OnStack \ {Top.card}
  BY <1>1, <1>3, <1>6, <1>7, AbilitiesOnTop DEF OnStack
<1>9. SameAgenda
  BY ActedKeepsAgenda DEF ResolvePermanent, Acted
<1>10. PICK e \in FitEntries : e = Top
  BY <1>1
<1>. QED
  BY <1>1, <1>2, <1>8, <1>9, <1>10, SpellIsPut

(* A sorcery leaves the stack and is put away later. *)
LEMMA ResolveSorceryNext ==
  ASSUME Typed, Located, ResolveSorcery
  PROVE  Typed' /\ Located'
<1>1. /\ Top \in FitEntries /\ Rest \in Seq(FitEntries) /\ Once(Rest, Spells)
      /\ Top.spell /\ Held(Rest, Spells) = OnStack \ {Top.card} /\ Top.card \in OnStack
  BY TopAndRest DEF ResolveSorcery
<1>2. stack' \in Seq(FitEntries) /\ Once(stack, Spells)' /\ OnStack' = OnStack \ {Top.card}
  BY <1>1 DEF ResolveSorcery, OnStack
<1>3. /\ Top.card \in Cards /\ Top.owner \in Players /\ Own(Top.card, Top.owner)
  BY <1>1 DEF ResolveSorcery, FitEntries, Entries
<1>4. PICK place \in {"Graveyard", "Exile"} :
        agenda' = Script(FALSE) \o Settle(Top.card, Top.owner, place) \o Check
  BY DEF ResolveSorcery
<1>. DEFINE t == [task |-> "settle", card |-> Top.card, owner |-> Top.owner, place |-> place]
            s == <<t>>
<1>5. t \in FitTasks /\ t \in Settles /\ t.card = Top.card
  BY <1>3 DEF Settles, FitTasks, Tasks
<1>. HIDE DEF t
<1>6. s \in Seq(FitTasks) /\ Held(s, Settles) = {Top.card} /\ Once(s, Settles)
  <2>1. s \in Seq(FitTasks) /\ DOMAIN s = {1} /\ s[1] = t
    BY <1>5
  <2>. HIDE DEF s
  <2>. QED
    BY <1>5, <2>1 DEF Held, Once
<1>. HIDE DEF s
<1>7. agenda' = (Script(FALSE) \o s) \o Check
  BY <1>4 DEF Settle, s, t
<1>8. PICK a : a = Script(FALSE) /\ Plain(a)
  BY PlainCalls
<1>9. PICK b : b = Check /\ Plain(b)
  BY PlainCalls
<1>10. /\ a \o s \in Seq(FitTasks) /\ Held(a \o s, Settles) = {Top.card} /\ Once(a \o s, Settles)
  BY <1>6, <1>8, PlainOnTop
<1>11. b \in Seq(FitTasks) /\ Held(b, Settles) = {} /\ Once(b, Settles)
  BY <1>9, PlainHoldsNothing
<1>12. PICK u : u = a \o s
  OBVIOUS
<1>13. u \o b \in Seq(FitTasks) /\ Held(u \o b, Settles) = {Top.card} /\ Once(u \o b, Settles)
  <2>0. u \in Seq(FitTasks) /\ b \in Seq(FitTasks)
    BY <1>10, <1>11, <1>12
  <2>1. /\ Held(u \o b, Settles) = Held(u, Settles) \cup Held(b, Settles)
        /\ Once(u, Settles) /\ Once(b, Settles) /\ Held(u, Settles) \cap Held(b, Settles) = {}
             => Once(u \o b, Settles)
    BY <2>0, HeldConcat
  <2>2. u \o b \in Seq(FitTasks)
    BY <1>10, <1>11, <1>12, ConcatProperties
  <2>. QED
    BY <1>10, <1>11, <1>12, <2>1, <2>2
<1>14. agenda' \in Seq(FitTasks) /\ Once(agenda, Settles)' /\ Resolving' = {Top.card}
  BY <1>7, <1>8, <1>9, <1>12, <1>13 DEF Resolving
<1>15. Resolving = {} /\ LocatedIn(zm, OnStack \cup Resolving) /\ UNCHANGED zm
  BY IdleHoldsNothing DEF ResolveSorcery, Located
<1>16. OnStack' \cup Resolving' = OnStack \cup Resolving /\ OnStack' \cap Resolving' = {}
  BY <1>1, <1>2, <1>14, <1>15
<1>17. LocatedIn(zm', OnStack' \cup Resolving')
  BY <1>15, <1>16
<1>. QED
  BY <1>2, <1>14, <1>15, <1>16, <1>17 DEF Typed, Located

(* An ability leaves the stack. *)
LEMMA ResolveAbilityNext ==
  ASSUME Typed, Located, ResolveAbility
  PROVE  Typed' /\ Located'
<1>1. Rest \in Seq(FitEntries) /\ Once(Rest, Spells) /\ Held(Rest, Spells) = OnStack
  BY TopAndRest DEF ResolveAbility
<1>2. SameStack
  BY <1>1 DEF SameStack, OnStack, ResolveAbility
<1>3. Plain(agenda')
  <2>1. Plain(Script(FALSE)) /\ Plain(Check)
    BY PlainCalls
  <2>. QED
    BY <2>1, PlainConcat DEF ResolveAbility
<1>. QED
  BY <1>2, <1>3, PlainWhenIdle, StaysKeepInv DEF ResolveAbility

(* Damage wears off and the next player draws. *)
LEMMA CleanupNext ==
  ASSUME Typed, Located, CleanupStep
  PROVE  Typed' /\ Located'
<1>1. zm \in Managers /\ active' \in Players /\ zm' \in Drawn(Healed(zm), active')
  BY DEF Typed, CleanupStep
<1>2. PICK z : z = Healed(zm)
  OBVIOUS
<1>3. z \in Managers /\ \A d \in Ids : Moved(zm, z, d)
  BY <1>1, <1>2, HealedMoves
<1>4. LocatedIn(z, OnStack \cup Resolving)
  BY <1>3, MovesKeepLocated DEF Located
<1>5. zm' \in Managers /\ \A d \in Ids : Moved(z, zm', d)
  <2>1. CASE z.zones["Library"][active'] = {}
    <3>1. zm' = z
      BY <1>1, <1>2, <2>1 DEF Drawn
    <3>. QED
      BY <1>3, <3>1 DEF Moved
  <2>2. CASE z.zones["Library"][active'] # {}
    <3>1. PICK c \in z.zones["Library"][active'] :
            zm' = Add(Pop(z, "Library", active', c), "Hand", active', c)
      BY <1>1, <1>2, <2>2 DEF Drawn
    <3>2. "Library" \in Places /\ "Hand" \in Places \ {"Sideboard"}
      BY DEF Places
    <3>3. Own(c, active')
      BY <1>1, <1>3, <1>4, <3>1, <3>2, ListedInPlace, Fields
    <3>. QED
      BY <1>1, <1>3, <1>4, <3>1, <3>2, <3>3, ListToList
  <2>. QED
    BY <2>1, <2>2
<1>6. \A d \in Ids : Moved(zm, zm', d)
  BY <1>3, <1>5, MovedTwice
<1>7. SameAgenda /\ SameStack
  BY ActedKeepsAgenda, StackStays DEF CleanupStep
<1>. QED
  BY <1>5, <1>6, <1>7, MovesKeepInv

(* Everything that happens when nothing runs keeps the cards in their places. *)
LEMMA ActNext ==
  ASSUME Typed, TurnTyped, Located, Act
  PROVE  Typed' /\ Located'
<1>1. CASE EndStep
  <2>1. Plain(agenda')
    BY <1>1, CallbacksPlain DEF EndStep, TurnTyped
  <2>. QED
    BY <1>1, <2>1, PlainWhenIdle, StackStays, StaysKeepInv DEF EndStep
<1>2. CASE FirstPass
  BY <1>2, ActedKeepsAgenda, StackStays, StaysKeepInv DEF FirstPass, Acted
<1>3. ASSUME NEW p \in Players, NEW c \in Ids,
             \/ PlayCard(p, c) \/ PlayCardFails(p, c) \/ PlayFlashback(p, c)
             \/ ActivateAbility(p, c) \/ \E in \in Ids : SideboardSwap(p, c, in)
      PROVE  Typed' /\ Located'
  BY <1>3, PlayCardNext, PlayCardFailsNext, PlayFlashbackNext, ActivateNext, SwapNext
<1>. QED
  BY <1>1, <1>2, <1>3, FizzleNext, ResolvePermanentNext, ResolveSorceryNext,
     ResolveAbilityNext, CleanupNext DEF Act

-----------------------------------------------------------------------------
(* The turn. *)

\* A step that leaves the turn and the delayed triggers alone.
SameTurn ==
  UNCHANGED <<delayed, active, phase>> /\ asked' \in BOOLEAN /\ calls' \in 0 .. MaxCalls

(* Such a step keeps the types. *)
LEMMA SameTurnKeeps ==
  ASSUME TurnTyped, SameTurn
  PROVE  TurnTyped'
BY DEF TurnTyped, SameTurn

(* A call of a script is counted, up to the bound. *)
LEMMA CallsCounted ==
  ASSUME TurnTyped, NEW inner, Calls(inner)
  PROVE  calls' \in 0 .. MaxCalls /\ asked' \in BOOLEAN /\ UNCHANGED <<active, phase>>
<1>1. calls \in 0 .. MaxCalls /\ MaxCalls \in Nat
  BY BoardAssumption DEF TurnTyped
<1>. QED
  BY <1>1 DEF TurnTyped, Calls

(* So it is by the calls that only move cards. *)
LEMMA OnlyMovesSameTurn ==
  ASSUME TurnTyped, OnlyMoves
  PROVE  SameTurn
BY CallsCounted DEF OnlyMoves, SameTurn

(* What a player does begins the turn's questions again. *)
LEMMA ActedSameTurn ==
  ASSUME TurnTyped, Acted, UNCHANGED <<delayed, active, phase>>
  PROVE  SameTurn
BY DEF Acted, SameTurn, TurnTyped

(* Delayed triggers stay within their limit. *)
LEMMA RegisterTyped ==
  ASSUME TurnTyped, NEW source \in Ids \cup {None},
         NEW event \in {"on_death", "on_end_of_turn"},
         register_delayed_trigger(source, event)
  PROVE  TurnTyped'
<1>1. /\ delayed \in Seq(DelayedTriggers) /\ Len(delayed) \in Nat /\ MaxDelayed \in Nat
      /\ Len(delayed) <= MaxDelayed
  BY BoardAssumption, LenProperties DEF TurnTyped
<1>2. PICK d \in DelayedTriggers : d = [event |-> event, source |-> source]
  BY DEF DelayedTriggers
<1>3. Append(delayed, d) \in Seq(DelayedTriggers) /\ Len(Append(delayed, d)) = Len(delayed) + 1
  BY <1>1, AppendProperties
<1>4. delayed' = IF Len(delayed) < MaxDelayed THEN Append(delayed, d) ELSE delayed
  BY <1>2 DEF register_delayed_trigger
<1>5. delayed' \in Seq(DelayedTriggers) /\ Len(delayed') <= MaxDelayed
  BY <1>1, <1>3, <1>4
<1>6. calls' \in 0 .. MaxCalls /\ asked' \in BOOLEAN /\ UNCHANGED <<active, phase>>
  BY CallsCounted DEF register_delayed_trigger
<1>. QED
  BY <1>5, <1>6 DEF TurnTyped

(* And when some of them fire. *)
LEMMA FiringTyped ==
  ASSUME TurnTyped, NEW event, NEW source, delayed' = Remaining(event, source),
         active' \in Players, phase' \in {"main", "end"}, asked' \in BOOLEAN, UNCHANGED calls
  PROVE  TurnTyped'
<1>1. delayed \in Seq(DelayedTriggers) /\ MaxDelayed \in Nat /\ Len(delayed) <= MaxDelayed
  BY BoardAssumption DEF TurnTyped
<1>2. PICK left : left = Remaining(event, source)
  OBVIOUS
<1>3. left \in Seq(DelayedTriggers) /\ Len(left) <= Len(delayed)
  BY <1>1, <1>2, RemainingFacts
<1>4. Len(left) \in Nat /\ Len(delayed) \in Nat
  BY <1>1, <1>3, LenProperties
<1>. QED
  BY <1>1, <1>2, <1>3, <1>4 DEF TurnTyped

(* The calls of scripts. *)
LEMMA ScriptCallTyped ==
  ASSUME Typed, TurnTyped, ScriptCall
  PROVE  TurnTyped'
<1>1. ASSUME NEW p \in Players,
             \/ draw_cards(p) \/ discard_cards(p) \/ mill(p)
             \/ search_library_to_battlefield(p) \/ return_from_graveyard(p)
      PROVE  TurnTyped'
  <2>1. OnlyMoves
    BY <1>1 DEF draw_cards, discard_cards, mill, search_library_to_battlefield,
                return_from_graveyard
  <2>. QED
    BY <2>1, OnlyMovesSameTurn, SameTurnKeeps
<1>2. ASSUME NEW c \in Ids,
             \/ return_to_hand(c) \/ exile_card(c) \/ deal_damage(c) \/ add_counter(c)
             \/ \E t \in Ids : attach(c, t)
      PROVE  TurnTyped'
  <2>1. OnlyMoves
    BY <1>2 DEF return_to_hand, exile_card, deal_damage, add_counter, attach
  <2>. QED
    BY <2>1, OnlyMovesSameTurn, SameTurnKeeps
<1>3. ASSUME NEW c \in Ids, destroy_permanent(c) \/ sacrifice(c)
      PROVE  TurnTyped'
  <2>1. (\E inner : Calls(inner)) /\ UNCHANGED delayed
    BY <1>3 DEF destroy_permanent, sacrifice
  <2>. QED
    BY <2>1, CallsCounted, SameTurnKeeps DEF SameTurn
<1>4. ASSUME NEW t \in Tokens, create_token(t)
      PROVE  TurnTyped'
  BY <1>4, OnlyMovesSameTurn, SameTurnKeeps DEF create_token
<1>5. ASSUME NEW i \in DOMAIN stack, counter_spell(i)
      PROVE  TurnTyped'
  <2>1. (\E inner : Calls(inner)) /\ UNCHANGED delayed
    BY <1>5 DEF counter_spell
  <2>. QED
    BY <2>1, CallsCounted, SameTurnKeeps DEF SameTurn
<1>6. {c \in OnBattlefield(zm) : IsCreature(c)} \subseteq Ids
  BY Fields, BoardFields DEF Typed, OnBattlefield
<1>. QED
  BY <1>1, <1>2, <1>3, <1>4, <1>5, <1>6, RegisterTyped DEF ScriptCall

(* Every step keeps the types of the turn. *)
LEMMA TurnTypedNext ==
  ASSUME Typed, TurnTyped, Next
  PROVE  TurnTyped'
<1>1. ASSUME NEW p \in Players, NEW c \in Ids,
             \/ PlayCard(p, c) \/ PlayCardFails(p, c) \/ PlayFlashback(p, c)
             \/ ActivateAbility(p, c) \/ \E in \in Ids : SideboardSwap(p, c, in)
      PROVE  TurnTyped'
  <2>1. Acted /\ UNCHANGED <<delayed, active, phase>>
    BY <1>1 DEF PlayCard, PlayCardFails, PlayFlashback, ActivateAbility, SideboardSwap
  <2>. QED
    BY <2>1, ActedSameTurn, SameTurnKeeps
<1>2. CASE Fizzle \/ ResolvePermanent \/ FirstPass
  <2>1. Acted /\ UNCHANGED <<delayed, active, phase>>
    BY <1>2 DEF Fizzle, ResolvePermanent, FirstPass
  <2>. QED
    BY <2>1, ActedSameTurn, SameTurnKeeps
<1>3. CASE ResolveSorcery \/ ResolveAbility
  <2>1. asked' = TRUE /\ UNCHANGED <<delayed, active, phase, calls>>
    BY <1>3 DEF ResolveSorcery, ResolveAbility
  <2>. QED
    BY <2>1 DEF TurnTyped
<1>4. CASE EndStep
  BY <1>4, FiringTyped DEF EndStep, TurnTyped
<1>5. CASE CleanupStep
  <2>1. active' \in Players /\ phase' = "main" /\ UNCHANGED <<delayed, calls, asked>>
    BY <1>5 DEF CleanupStep
  <2>. QED
    BY <2>1 DEF TurnTyped
<1>6. CASE ScriptCall
  BY <1>6, ScriptCallTyped
<1>7. CASE ScriptEnds \/ SettleSpell \/ StartPass \/ NextDeath
           \/ \E applied \in BOOLEAN : FinishPass(applied)
  <2>1. UNCHANGED <<delayed, active, phase, calls, asked>>
    BY <1>7 DEF ScriptEnds, SettleSpell, StartPass, NextDeath, FinishPass
  <2>. QED
    BY <2>1 DEF TurnTyped
<1>8. CASE TellOfDeath
  BY <1>8, FiringTyped DEF TellOfDeath, TurnTyped
<1>. QED
  BY <1>1, <1>2, <1>3, <1>4, <1>5, <1>6, <1>7, <1>8 DEF Next, Act, Thread

-----------------------------------------------------------------------------
(* The invariant holds. *)

(* At the beginning every card is in its player's sideboard, hand or library,
   and there is no token. *)
LEMMA BoardInit ==
  ASSUME Init
  PROVE  BoardInv
<1>. DEFINE in(c) == CASE c \in InSideboard -> "Sideboard"
                       [] c \in OpeningHand -> "Hand"
                       [] OTHER -> "Library"
<1>1. /\ \A x \in Places, p \in Players, c \in Ids :
           c \in zm.zones[x][p] <=> c \in Cards /\ OwnerOf[c] = p /\ x = in(c)
      /\ \A x \in Places, p \in Players : zm.zones[x][p] \subseteq Ids
      /\ zm.zones \in [Places -> [Players -> SUBSET Ids]]
  BY DEF Init, Ids
<1>2. /\ zm.index \in [Ids -> Marks]
      /\ \A c \in Ids : zm.index[c] = CASE c \in OpeningHand -> "Hand"
                                        [] c \in InSideboard \cup Tokens -> "Unknown"
                                        [] OTHER -> "Library"
  BY DEF Init, Marks, Places
<1>3. zm.board \in Boards /\ DOMAIN zm.board = {}
  <2>1. zm.board = <<>> /\ DOMAIN zm.board = {}
    BY DEF Init
  <2>2. zm.board \in [{} -> Permanents]
    BY <2>1
  <2>. QED
    BY <2>1, <2>2, IsBoard
<1>4. zm \in Managers
  <2>1. zm = [zones |-> zm.zones, index |-> zm.index, board |-> zm.board]
    BY DEF Init
  <2>. QED
    BY <1>1, <1>2, <1>3, <2>1 DEF Managers
<1>5. Typed /\ TurnTyped
  <2>1. <<>> \in Seq(FitEntries) /\ <<>> \in Seq(FitTasks) /\ <<>> \in Seq(DelayedTriggers)
        /\ Len(<<>>) = 0
    BY EmptySeq
  <2>. QED
    BY <1>4, <2>1, BoardAssumption DEF Init, Typed, TurnTyped
<1>6. ASSUME NEW c \in Cards
      PROVE  Placed(zm, c)
  <2>1. c \in Ids /\ c \notin Tokens /\ OwnerOf[c] \in Players
        /\ (c \in OpeningHand => c \notin InSideboard)
    BY BoardAssumption DEF Ids
  <2>2. in(c) \in Spots /\ in(c) \in Places
    BY DEF Spots, Places
  <2>3. Marked(zm.index[c], in(c))
    BY <1>2, <2>1 DEF Marked
  <2>4. \A y \in Spots, q \in Players : At(zm, c, y, q) <=> y = in(c) /\ q = OwnerOf[c]
    BY <1>1, <1>3, <2>1, <2>2 DEF At, Spots, Places
  <2>. HIDE DEF in
  <2>5. PICK x \in Spots, p \in Players : x = in(c) /\ p = OwnerOf[c]
    BY <2>1, <2>2
  <2>6. Sits(zm, c, x, p) /\ Own(c, p)
    BY <2>3, <2>4, <2>5 DEF Sits, Own
  <2>. QED
    BY <2>6 DEF Placed
<1>7. ASSUME NEW t \in Tokens
      PROVE  Nowhere(zm, t)
  <2>1. t \in Ids /\ t \notin Cards /\ t \notin OpeningHand
    BY BoardAssumption DEF Ids
  <2>2. zm.index[t] = "Unknown"
    BY <1>2, <2>1
  <2>3. Absent(zm, t)
    BY <1>1, <1>3, <2>1 DEF Absent, At, Spots
  <2>. QED
    BY <2>2, <2>3 DEF Nowhere
<1>8. /\ OnStack = {} /\ Resolving = {} /\ Once(stack, Spells) /\ Once(agenda, Settles)
  <2>1. \A M : Held(<<>>, M) = {} /\ Once(<<>>, M)
    BY DEF Held, Once
  <2>. QED
    BY <2>1 DEF Init, OnStack, Resolving
<1>9. LocatedIn(zm, OnStack \cup Resolving)
  BY <1>6, <1>7, <1>8 DEF LocatedIn, Ids
<1>. QED
  BY <1>5, <1>8, <1>9 DEF BoardInv, Located

(* Every step keeps it. *)
LEMMA BoardNext ==
  ASSUME BoardInv, [Next]_vars
  PROVE  BoardInv'
<1>1. CASE Next
  BY <1>1, ActNext, ThreadNext, TurnTypedNext DEF BoardInv, Next
<1>2. CASE UNCHANGED vars
  BY <1>2 DEF vars, BoardInv, Typed, TurnTyped, Located, OnStack, Resolving
<1>. QED
  BY <1>1, <1>2

(* In every state of every execution each card of the game is in one place, *)
(* where the index has it, on the stack, or in the hands of the sorcery that *)
(* is resolving; what is in the lists, on the stack and on the call stack is *)
(* of the right kind and the card of the right player. *)
THEOREM BoardInvariant == Spec => []BoardInv
<1>. QED
  BY BoardInit, BoardNext, PTL DEF Spec

(* The entries and the calls that fit are entries and calls. *)
LEMMA InvTypes ==
  ASSUME BoardInv
  PROVE  TypeOK
<1>1. /\ zm.zones \in [Places -> [Players -> SUBSET Ids]]
      /\ zm.index \in [Ids -> Marks]
      /\ OnBattlefield(zm) \subseteq Ids
      /\ \A c \in OnBattlefield(zm) : zm.board[c] \in Permanents
  BY Fields, BoardFields DEF BoardInv, Typed, OnBattlefield
<1>2. Seq(FitEntries) \subseteq Seq(Entries) /\ Seq(FitTasks) \subseteq Seq(Tasks)
  <2>1. FitEntries \subseteq Entries /\ FitTasks \subseteq Tasks
    BY DEF FitEntries, FitTasks
  <2>. QED
    BY <2>1
<1>3. stack \in Seq(Entries) /\ agenda \in Seq(Tasks)
  BY <1>2 DEF BoardInv, Typed
<1>. QED
  BY <1>1, <1>3 DEF BoardInv, TurnTyped, TypeOK, Marks

(* The types of Board: damage and counters of a permanent, delayed_triggers_ *)
(* within its limit and the calls the game's thread can be in. *)
THEOREM BoardTypeOK == Spec => []TypeOK
<1>. QED
  BY BoardInvariant, InvTypes, PTL

(* The places CardsKept counts, told apart. *)
LEMMA WhereaboutsAre ==
  ASSUME BoardInv, NEW c \in Ids
  PROVE  \A w : w \in Whereabouts(c) <=>
           \/ \E x \in Spots, p \in Players : w = <<x, p>> /\ At(zm, c, x, p)
           \/ \E i \in DOMAIN stack : w = <<"Stack", i>> /\ stack[i] \in Spells /\ stack[i].card = c
           \/ \E i \in DOMAIN agenda :
                w = <<"Resolving", i>> /\ agenda[i] \in Settles /\ agenda[i].card = c
<1>. DEFINE Lists == {w \in Places \X Players : c \in zm.zones[w[1]][w[2]]}
            Fields4 == {<<"Battlefield", p>> :
                          p \in {zm.board[d].owner : d \in OnBattlefield(zm) \cap {c}}}
            Casts == {<<"Stack", i>> : i \in {j \in DOMAIN stack :
                          stack[j].spell /\ stack[j].card = c}}
            Later == {<<"Resolving", i>> : i \in {j \in DOMAIN agenda :
                          IF agenda[j].task = "settle" THEN agenda[j].card = c ELSE FALSE}}
<1>1. \A w : w \in Lists <=>
        \E x \in Places, p \in Players : w = <<x, p>> /\ At(zm, c, x, p)
  BY DEF At, Places
<1>2. \A w : w \in Fields4 <=>
        \E p \in Players : w = <<"Battlefield", p>> /\ At(zm, c, "Battlefield", p)
  <2>1. c \in DOMAIN zm.board => zm.board[c].owner \in Players
    BY PermanentIsThere DEF BoardInv, Typed
  <2>. QED
    BY <2>1 DEF At, OnBattlefield
<1>3. \A w : w \in Casts <=>
        \E i \in DOMAIN stack : w = <<"Stack", i>> /\ stack[i] \in Spells /\ stack[i].card = c
  <2>1. \A i \in DOMAIN stack : stack[i] \in FitEntries
    BY ElementOfSeq, LenProperties DEF BoardInv, Typed
  <2>. QED
    BY <2>1 DEF Spells
<1>4. \A w : w \in Later <=>
        \E i \in DOMAIN agenda :
          w = <<"Resolving", i>> /\ agenda[i] \in Settles /\ agenda[i].card = c
  <2>1. \A i \in DOMAIN agenda : agenda[i] \in FitTasks
    BY ElementOfSeq, LenProperties DEF BoardInv, Typed
  <2>. QED
    BY <2>1 DEF Settles
<1>5. Whereabouts(c) = Lists \cup Fields4 \cup Casts \cup Later
  BY DEF Whereabouts
<1>. HIDE DEF Lists, Fields4, Casts, Later
<1>. QED
  BY <1>1, <1>2, <1>3, <1>4, <1>5 DEF Spots

(* A card is in one place or, if it is a token, perhaps in none. *)
LEMMA OnePlace ==
  ASSUME BoardInv, NEW c \in Ids
  PROVE  \/ Whereabouts(c) = {} /\ c \in Tokens
         \/ \E w : /\ Whereabouts(c) = {w}
                   /\ c \in Cards /\ w[1] \in Spots => w[2] = OwnerOf[c]
<1>1. c \in OnStack <=> \E i \in DOMAIN stack : stack[i] \in Spells /\ stack[i].card = c
  BY DEF OnStack, Held
<1>2. c \in Resolving <=> \E i \in DOMAIN agenda : agenda[i] \in Settles /\ agenda[i].card = c
  BY DEF Resolving, Held
<1>3. /\ Once(stack, Spells) /\ Once(agenda, Settles)
      /\ ~(c \in OnStack /\ c \in Resolving)
      /\ LocatedIn(zm, OnStack \cup Resolving)
  BY DEF BoardInv, Located
<1>4. CASE c \in OnStack
  <2>1. PICK i \in DOMAIN stack : stack[i] \in Spells /\ stack[i].card = c
    BY <1>1, <1>4
  <2>2. \A j \in DOMAIN stack : stack[j] \in Spells /\ stack[j].card = c => j = i
    BY <1>3, <2>1 DEF Once
  <2>3. Nowhere(zm, c) /\ c \notin Resolving
    BY <1>3, <1>4 DEF LocatedIn
  <2>4. \A x \in Spots, p \in Players : ~At(zm, c, x, p)
    BY <2>3 DEF Nowhere, Absent
  <2>5. \A w : w \in Whereabouts(c) <=> w = <<"Stack", i>>
    BY <1>2, <2>1, <2>2, <2>3, <2>4, WhereaboutsAre
  <2>6. PICK w : w = <<"Stack", i>>
    OBVIOUS
  <2>7. Whereabouts(c) = {w} /\ w[1] = "Stack"
    BY <2>5, <2>6
  <2>. QED
    BY <2>7 DEF Spots, Places
<1>5. CASE c \in Resolving
  <2>1. PICK i \in DOMAIN agenda : agenda[i] \in Settles /\ agenda[i].card = c
    BY <1>2, <1>5
  <2>2. \A j \in DOMAIN agenda : agenda[j] \in Settles /\ agenda[j].card = c => j = i
    BY <1>3, <2>1 DEF Once
  <2>3. Nowhere(zm, c) /\ c \notin OnStack
    BY <1>3, <1>5 DEF LocatedIn
  <2>4. \A x \in Spots, p \in Players : ~At(zm, c, x, p)
    BY <2>3 DEF Nowhere, Absent
  <2>5. \A w : w \in Whereabouts(c) <=> w = <<"Resolving", i>>
    BY <1>1, <2>1, <2>2, <2>3, <2>4, WhereaboutsAre
  <2>6. PICK w : w = <<"Resolving", i>>
    OBVIOUS
  <2>7. Whereabouts(c) = {w} /\ w[1] = "Resolving"
    BY <2>5, <2>6
  <2>. QED
    BY <2>7 DEF Spots, Places
<1>6. CASE c \notin OnStack \cup Resolving /\ Placed(zm, c)
  <2>1. PICK x \in Spots, p \in Players : Sits(zm, c, x, p) /\ Own(c, p)
    BY <1>6 DEF Placed
  <2>2. \A y \in Spots, q \in Players : At(zm, c, y, q) <=> y = x /\ q = p
    BY <2>1 DEF Sits
  <2>3. \A w : w \in Whereabouts(c) <=> w = <<x, p>>
    BY <1>1, <1>2, <1>6, <2>2, WhereaboutsAre
  <2>4. Whereabouts(c) = {<<x, p>>}
    BY <2>3
  <2>5. PICK w : w = <<x, p>>
    OBVIOUS
  <2>6. Whereabouts(c) = {w} /\ (c \in Cards => w[2] = OwnerOf[c])
    BY <2>1, <2>4, <2>5 DEF Own
  <2>. QED
    BY <2>6
<1>7. CASE c \notin OnStack \cup Resolving /\ c \in Tokens /\ Nowhere(zm, c)
  <2>1. \A x \in Spots, p \in Players : ~At(zm, c, x, p)
    BY <1>7 DEF Nowhere, Absent
  <2>2. \A w : w \notin Whereabouts(c)
    BY <1>1, <1>2, <1>7, <2>1, WhereaboutsAre
  <2>. QED
    BY <1>7, <2>2
<1>. QED
  BY <1>3, <1>4, <1>5, <1>6, <1>7 DEF LocatedIn

(* So none is lost, duplicated or somebody else's. *)
LEMMA InvKept ==
  ASSUME BoardInv
  PROVE  CardsKept
<1>1. ASSUME NEW c \in Ids
      PROVE  Cardinality(Whereabouts(c)) <= 1
  <2>1. PICK W : W = Whereabouts(c)
    OBVIOUS
  <2>2. W = {} \/ \E w : W = {w}
    BY <2>1, OnePlace
  <2>3. Cardinality(W) = 0 \/ Cardinality(W) = 1
    BY <2>2, FS_EmptySet, FS_Singleton
  <2>. QED
    BY <2>1, <2>3
<1>2. ASSUME NEW c \in Cards
      PROVE  /\ Whereabouts(c) # {}
             /\ \A w \in Whereabouts(c) :
                  w[1] \in Places \cup {"Battlefield"} => w[2] = OwnerOf[c]
  BY OnePlace, BoardAssumption DEF Ids, Spots
<1>. QED
  BY <1>1, <1>2 DEF CardsKept

(* And the index is right. *)
LEMMA InvIndex ==
  ASSUME BoardInv
  PROVE  IndexSound
<1>1. SUFFICES ASSUME NEW c \in Ids
      PROVE  /\ zm.index[c] = "Battlefield" <=> c \in OnBattlefield(zm)
             /\ \A place \in {"Library", "Graveyard", "Exile"} :
                  zm.index[c] = place <=> \E p \in Players : c \in zm.zones[place][p]
             /\ zm.index[c] = "Hand" => \E p \in Players : c \in zm.zones["Hand"][p]
  BY DEF IndexSound
<1>2. c \in OnBattlefield(zm) <=> \E p \in Players : At(zm, c, "Battlefield", p)
  <2>1. c \in DOMAIN zm.board => zm.board[c].owner \in Players
    BY PermanentIsThere DEF BoardInv, Typed
  <2>. QED
    BY <2>1 DEF At, OnBattlefield
<1>3. \A x \in Places, p \in Players : c \in zm.zones[x][p] <=> At(zm, c, x, p)
  BY DEF At, Places
<1>4. Placed(zm, c) \/ Nowhere(zm, c)
  BY DEF BoardInv, Located, LocatedIn
<1>5. CASE Nowhere(zm, c)
  <2>1. zm.index[c] = "Unknown" /\ \A x \in Spots, p \in Players : ~At(zm, c, x, p)
    BY <1>5 DEF Nowhere, Absent
  <2>. QED
    BY <1>2, <1>3, <2>1 DEF Spots, Places
<1>6. CASE Placed(zm, c)
  <2>1. PICK x \in Spots, p \in Players : Sits(zm, c, x, p)
    BY <1>6 DEF Placed
  <2>2. /\ \A y \in Spots, q \in Players : At(zm, c, y, q) <=> y = x /\ q = p
        /\ Marked(zm.index[c], x)
    BY <2>1 DEF Sits
  <2>3. \A y \in Spots : (\E q \in Players : At(zm, c, y, q)) <=> y = x
    BY <2>2
  <2>4. c \in OnBattlefield(zm) <=> x = "Battlefield"
    BY <1>2, <2>3 DEF Spots
  <2>5. \A y \in Places : (\E q \in Players : c \in zm.zones[y][q]) <=> y = x
    BY <1>3, <2>3 DEF Spots
  <2>. QED
    BY <2>2, <2>4, <2>5 DEF Marked, Spots, Places
<1>. QED
  BY <1>4, <1>5, <1>6

(* No card is ever lost or duplicated or in another player's zones, and *)
(* find_card_zone is never wrong, whatever the players cast, the scripts call *)
(* and the state-based actions do, with any cards and any number of calls. *)
THEOREM BoardZonesSound == Spec => []ZonesSound
<1>1. BoardInv => ZonesSound
  BY InvKept, InvIndex DEF ZonesSound
<1>. QED
  BY <1>1, BoardInvariant, PTL

-----------------------------------------------------------------------------
(* What is attached to what. *)

\* A permanent that is attached to another is in the list of the other.  When
\* the other is gone, it is not where a script could bring it back from.
Attachments(z) ==
  \A c \in DOMAIN z.board :
    /\ z.board[c].attached \in DOMAIN z.board =>
         c \in z.board[z.board[c].attached].attachments
    /\ z.board[c].attached \notin DOMAIN z.board =>
         \A p \in Players : z.board[c].attached \notin z.zones["Library"][p]

\* Permanents and cards of libraries may leave, and permanents come off.
Fewer(z, y) ==
  /\ DOMAIN y.board \subseteq DOMAIN z.board
  /\ \A c \in DOMAIN y.board : /\ y.board[c].attached \in {z.board[c].attached, None}
                               /\ y.board[c].attachments = z.board[c].attachments
  /\ \A p \in Players : y.zones["Library"][p] \subseteq z.zones["Library"][p]

(* Leaving breaks no attachment. *)
LEMMA FewerKeeps ==
  ASSUME NEW z \in Managers, NEW h, LocatedIn(z, h), Attachments(z), NEW y, Fewer(z, y)
  PROVE  Attachments(y)
<1>1. /\ DOMAIN z.board \subseteq Ids /\ \A p \in Players : z.zones["Library"][p] \subseteq Ids
      /\ None \notin Ids
  BY Fields, BoardFields, BoardAssumption DEF Places
<1>2. ASSUME NEW c \in DOMAIN z.board
      PROVE  \A p \in Players : c \notin z.zones["Library"][p]
  <2>1. Sits(z, c, "Battlefield", z.board[c].owner)
    BY PermanentInPlace
  <2>. QED
    BY <2>1 DEF Sits, At, Spots, Places
<1>3. SUFFICES ASSUME NEW c \in DOMAIN y.board, NEW t, t = y.board[c].attached
               PROVE  /\ t \in DOMAIN y.board => c \in y.board[t].attachments
                      /\ t \notin DOMAIN y.board =>
                           \A p \in Players : t \notin y.zones["Library"][p]
  BY DEF Attachments
<1>4. /\ t \in {z.board[c].attached, None} /\ c \in DOMAIN z.board
      /\ DOMAIN y.board \subseteq DOMAIN z.board
      /\ \A d \in DOMAIN y.board : y.board[d].attachments = z.board[d].attachments
      /\ \A p \in Players : y.zones["Library"][p] \subseteq z.zones["Library"][p]
  BY <1>3 DEF Fewer
<1>5. CASE t = None
  BY <1>1, <1>4, <1>5
<1>6. CASE t = z.board[c].attached
  <2>1. /\ t \in DOMAIN z.board => c \in z.board[t].attachments
        /\ t \notin DOMAIN z.board => \A p \in Players : t \notin z.zones["Library"][p]
    BY <1>4, <1>6 DEF Attachments
  <2>. QED
    BY <1>2, <1>4, <2>1
<1>. QED
  BY <1>4, <1>5, <1>6

(* One departure after another. *)
LEMMA FewerTwice ==
  ASSUME NEW z, NEW y, NEW w, Fewer(z, y), Fewer(y, w)
  PROVE  Fewer(z, w)
<1>1. /\ DOMAIN w.board \subseteq DOMAIN y.board /\ DOMAIN y.board \subseteq DOMAIN z.board
      /\ \A p \in Players : w.zones["Library"][p] \subseteq z.zones["Library"][p]
  BY DEF Fewer
<1>2. ASSUME NEW c \in DOMAIN w.board
      PROVE  /\ w.board[c].attached \in {z.board[c].attached, None}
             /\ w.board[c].attachments = z.board[c].attachments
  <2>1. /\ w.board[c].attached \in {y.board[c].attached, None}
        /\ w.board[c].attachments = y.board[c].attachments
    BY DEF Fewer
  <2>2. /\ y.board[c].attached \in {z.board[c].attached, None}
        /\ y.board[c].attachments = z.board[c].attachments
    BY <1>1 DEF Fewer
  <2>. QED
    BY <2>1, <2>2
<1>. QED
  BY <1>1, <1>2 DEF Fewer

(* The same permanents, and no more in the libraries. *)
LEMMA SameBoardFewer ==
  ASSUME NEW z, NEW y, y.board = z.board,
         \A p \in Players : y.zones["Library"][p] \subseteq z.zones["Library"][p]
  PROVE  Fewer(z, y)
BY DEF Fewer

(* What takes from lists. *)
LEMMA TakingFewer ==
  ASSUME NEW z \in Managers, NEW place \in Places, NEW p \in Players, NEW c
  PROVE  Fewer(z, Pop(z, place, p, c)) /\ Fewer(z, RemoveFrom(z, place, p, c))
<1>1. ASSUME NEW y, y = Pop(z, place, p, c)
      PROVE  Fewer(z, y)
  <2>1. y.board = z.board
    BY <1>1 DEF Pop, Managers
  <2>2. \A x \in Places, q \in Players :
          y.zones[x][q] = IF x = place /\ q = p THEN z.zones[x][q] \ {c} ELSE z.zones[x][q]
    BY <1>1, Fields DEF Pop, Managers
  <2>3. \A q \in Players : y.zones["Library"][q] \subseteq z.zones["Library"][q]
    BY <2>2 DEF Places
  <2>. QED
    BY <2>1, <2>3, SameBoardFewer
<1>2. ASSUME NEW y, y = RemoveFrom(z, place, p, c)
      PROVE  Fewer(z, y)
  <2>1. y.board = z.board
    BY <1>2 DEF RemoveFrom, Managers
  <2>2. \A x \in Places, q \in Players :
          y.zones[x][q] = IF x = place /\ q = p THEN z.zones[x][q] \ {c} ELSE z.zones[x][q]
    BY <1>2, Fields DEF RemoveFrom, Managers
  <2>3. \A q \in Players : y.zones["Library"][q] \subseteq z.zones["Library"][q]
    BY <2>2 DEF Places
  <2>. QED
    BY <2>1, <2>3, SameBoardFewer
<1>. QED
  BY <1>1, <1>2

(* What puts into lists other than the libraries. *)
LEMMA PuttingFewer ==
  ASSUME NEW z \in Managers, NEW place \in Places \ {"Library"}, NEW p \in Players, NEW c
  PROVE  Fewer(z, Add(z, place, p, c)) /\ Fewer(z, PushBack(z, place, p, c))
<1>1. ASSUME NEW y, y = Add(z, place, p, c)
      PROVE  Fewer(z, y)
  <2>1. y.board = z.board
    BY <1>1 DEF Add, Managers
  <2>2. \A x \in Places, q \in Players :
          y.zones[x][q] = IF x = place /\ q = p THEN z.zones[x][q] \cup {c} ELSE z.zones[x][q]
    BY <1>1, Fields DEF Add, Managers
  <2>3. \A q \in Players : y.zones["Library"][q] \subseteq z.zones["Library"][q]
    BY <2>2 DEF Places
  <2>. QED
    BY <2>1, <2>3, SameBoardFewer
<1>2. ASSUME NEW y, y = PushBack(z, place, p, c)
      PROVE  Fewer(z, y)
  <2>1. y.board = z.board
    BY <1>2 DEF PushBack, Managers
  <2>2. \A x \in Places, q \in Players :
          y.zones[x][q] = IF x = place /\ q = p THEN z.zones[x][q] \cup {c} ELSE z.zones[x][q]
    BY <1>2, Fields DEF PushBack, Managers
  <2>3. \A q \in Players : y.zones["Library"][q] \subseteq z.zones["Library"][q]
    BY <2>2 DEF Places
  <2>. QED
    BY <2>1, <2>3, SameBoardFewer
<1>. QED
  BY <1>1, <1>2

(* What Delve takes comes from a graveyard. *)
LEMMA DelvedFewer ==
  ASSUME NEW z \in Managers, NEW p \in Players, NEW c, NEW y \in Delved(z, p, c)
  PROVE  Fewer(z, y)
<1>1. y.board = z.board
  BY DelvedMoves
<1>2. \E S : y.zones = [z.zones EXCEPT !["Graveyard"][p] = @ \ S, !["Exile"][p] = @ \cup S]
  BY DEF Delved, Managers
<1>3. \A q \in Players : y.zones["Library"][q] \subseteq z.zones["Library"][q]
  BY <1>2, Fields DEF Places
<1>. QED
  BY <1>1, <1>3, SameBoardFewer

(* A permanent leaves. *)
LEMMA LeaveFewer ==
  ASSUME NEW z \in Managers, NEW c \in DOMAIN z.board
  PROVE  Fewer(z, remove_from_battlefield(z, c))
<1>1. PICK y : y = remove_from_battlefield(z, c)
  OBVIOUS
<1>2. /\ DOMAIN y.board = DOMAIN z.board \ {c}
      /\ \A d \in DOMAIN z.board \ {c} : y.board[d] = z.board[d]
  BY <1>1, LeaveMoves
<1>3. y.zones = z.zones
  BY <1>1 DEF remove_from_battlefield, Managers
<1>. QED
  BY <1>1, <1>2, <1>3 DEF Fewer

(* Several leave. *)
LEMMA PutAwayFewer ==
  ASSUME NEW z \in Managers, NEW S \in SUBSET DOMAIN z.board
  PROVE  Fewer(z, PutAway(z, S))
<1>1. PICK y : y = PutAway(z, S)
  OBVIOUS
<1>2. /\ DOMAIN y.board = DOMAIN z.board \ S
      /\ \A d \in DOMAIN z.board \ S : y.board[d] = z.board[d]
  BY <1>1, PutAwayMoves
<1>3. y.zones["Library"] = z.zones["Library"]
  BY <1>1, Fields DEF PutAway, Places
<1>. QED
  BY <1>1, <1>2, <1>3 DEF Fewer

(* Permanents change, but not what is attached to what, unless they come off. *)
LEMMA RemadeFewer ==
  ASSUME NEW z \in Managers, NEW b, DOMAIN b = DOMAIN z.board,
         \A c \in DOMAIN b : /\ b[c].attached \in {z.board[c].attached, None}
                             /\ b[c].attachments = z.board[c].attachments
  PROVE  Fewer(z, [z EXCEPT !.board = b])
<1>1. PICK y : y = [z EXCEPT !.board = b]
  OBVIOUS
<1>2. y.board = b /\ y.zones = z.zones
  BY <1>1 DEF Managers
<1>. QED
  BY <1>1, <1>2 DEF Fewer

(* Orphans come off or leave. *)
LEMMA OrphansFewer ==
  ASSUME NEW z \in Managers
  PROVE  Fewer(z, PutOrphansAway(z))
<1>. DEFINE loose == {c \in Orphans(z) : ~IsEnchantment(c)}
            off(c) == IF c \in loose THEN [z.board[c] EXCEPT !.attached = None] ELSE z.board[c]
            b == [c \in DOMAIN z.board |-> off(c)]
            w == [z EXCEPT !.board = b]
<1>1. PutOrphansAway(z) = PutAway(w, Orphans(z) \ loose)
  BY DEF PutOrphansAway
<1>2. \A c \in DOMAIN z.board : z.board[c] \in Permanents
  BY Fields, BoardFields
<1>3. \A c \in DOMAIN z.board : /\ off(c) \in Permanents /\ off(c).owner = z.board[c].owner
                                /\ off(c).token = z.board[c].token
                                /\ off(c).attached \in {z.board[c].attached, None}
                                /\ off(c).attachments = z.board[c].attachments
  BY <1>2 DEF Permanents
<1>4. Orphans(z) \ loose \subseteq DOMAIN z.board
  BY DEF Orphans, OnBattlefield
<1>. HIDE DEF loose, off
<1>5. DOMAIN b = DOMAIN z.board /\ b = [c \in DOMAIN z.board |-> b[c]]
      /\ \A c \in DOMAIN z.board : b[c] = off(c)
  OBVIOUS
<1>. HIDE DEF b
<1>6. w \in Managers /\ w.board = b /\ Fewer(z, w)
  <2>1. \A c \in DOMAIN z.board : /\ b[c] \in Permanents /\ b[c].owner = z.board[c].owner
                                  /\ b[c].token = z.board[c].token
    BY <1>3, <1>5
  <2>2. \A c \in DOMAIN b : /\ b[c].attached \in {z.board[c].attached, None}
                            /\ b[c].attachments = z.board[c].attachments
    BY <1>3, <1>5
  <2>. QED
    BY <1>5, <2>1, <2>2, Remade, RemadeFewer
<1>. HIDE DEF w
<1>7. Fewer(w, PutAway(w, Orphans(z) \ loose))
  BY <1>4, <1>5, <1>6, PutAwayFewer
<1>8. PICK y : y = PutAway(w, Orphans(z) \ loose)
  OBVIOUS
<1>. QED
  BY <1>1, <1>6, <1>7, <1>8, FewerTwice

(* Counters annihilate. *)
LEMMA AnnihilateFewer ==
  ASSUME NEW z \in Managers
  PROVE  Fewer(z, Annihilate(z))
<1>. DEFINE less(c) == IF z.board[c].plus < z.board[c].minus THEN z.board[c].plus
                       ELSE z.board[c].minus
            made(c) == IF c \in Cancelling(z)
                       THEN [z.board[c] EXCEPT !.plus = z.board[c].plus - less(c),
                                               !.minus = z.board[c].minus - less(c)]
                       ELSE z.board[c]
            b == [c \in DOMAIN z.board |-> made(c)]
<1>1. Annihilate(z) = [z EXCEPT !.board = b]
  BY DEF Annihilate
<1>2. ASSUME NEW c \in DOMAIN z.board
      PROVE  /\ made(c).attached = z.board[c].attached
             /\ made(c).attachments = z.board[c].attachments
  <2>1. z.board[c] \in Permanents
    BY Fields, BoardFields
  <2>. HIDE DEF less
  <2>. QED
    BY <2>1 DEF Permanents
<1>. HIDE DEF made
<1>3. DOMAIN b = DOMAIN z.board /\ \A c \in DOMAIN z.board : b[c] = made(c)
  OBVIOUS
<1>. HIDE DEF b
<1>. QED
  BY <1>1, <1>2, <1>3, RemadeFewer

(* Damage wears off. *)
LEMMA HealedFewer ==
  ASSUME NEW z \in Managers
  PROVE  Fewer(z, Healed(z))
<1>. DEFINE b == [c \in DOMAIN z.board |-> [z.board[c] EXCEPT !.damage = 0]]
<1>1. Healed(z) = [z EXCEPT !.board = b]
  BY DEF Healed, Managers
<1>2. \A c \in DOMAIN z.board : z.board[c] \in Permanents
  BY Fields, BoardFields
<1>3. DOMAIN b = DOMAIN z.board
      /\ \A c \in DOMAIN b : /\ b[c].attached = z.board[c].attached
                             /\ b[c].attachments = z.board[c].attachments
  BY <1>2 DEF Permanents
<1>. HIDE DEF b
<1>. QED
  BY <1>1, <1>3, RemadeFewer

(* A permanent enters that nothing was attached to. *)
LEMMA EnterAttached ==
  ASSUME NEW z \in Managers, NEW p \in Players, NEW c \in Ids, NEW token \in BOOLEAN,
         Absent(z, c), token => c \in Tokens, Attachments(z),
         \A d \in DOMAIN z.board : z.board[d].attached # c
  PROVE  Attachments(add_to_battlefield(z, c, p, token))
<1>1. PICK y : y = add_to_battlefield(z, c, p, token)
  OBVIOUS
<1>2. /\ DOMAIN y.board = DOMAIN z.board \cup {c} /\ c \notin DOMAIN z.board
      /\ y.board[c] = Fresh(p, token)
      /\ \A d \in DOMAIN z.board : y.board[d] = z.board[d]
      /\ y.zones = z.zones
  <2>1. y.zones = z.zones
    BY <1>1 DEF add_to_battlefield, Managers
  <2>. QED
    BY <1>1, <2>1, EnterMoves
<1>3. /\ DOMAIN y.board \subseteq Ids /\ None \notin Ids
      /\ \A q \in Players : z.zones["Library"][q] \subseteq Ids
  BY <1>2, Fields, BoardFields, BoardAssumption DEF Places
<1>4. y.board[c].attached = None
  BY <1>2 DEF Fresh
<1>5. ASSUME NEW d \in DOMAIN z.board, NEW t, t = z.board[d].attached
      PROVE  /\ y.board[d].attached = t
             /\ t \in DOMAIN y.board => d \in y.board[t].attachments
             /\ t \notin DOMAIN y.board => \A q \in Players : t \notin y.zones["Library"][q]
  <2>1. /\ t \in DOMAIN z.board => d \in z.board[t].attachments
        /\ t \notin DOMAIN z.board => \A q \in Players : t \notin z.zones["Library"][q]
    BY <1>5 DEF Attachments
  <2>2. t # c /\ y.board[d] = z.board[d]
    BY <1>2, <1>5
  <2>. QED
    BY <1>2, <1>5, <2>1, <2>2
<1>6. Attachments(y)
  BY <1>2, <1>3, <1>4, <1>5 DEF Attachments
<1>. QED
  BY <1>1, <1>6

(* A permanent moves from one to another. *)
LEMMA AttachAttached ==
  ASSUME NEW z \in Managers, NEW e \in DOMAIN z.board, NEW t \in DOMAIN z.board, Attachments(z)
  PROVE  Attachments([z EXCEPT !.board = AttachedTo(z.board, e, t)])
<1>1. PICK y : y = [z EXCEPT !.board = AttachedTo(z.board, e, t)]
  OBVIOUS
<1>2. y.board = AttachedTo(z.board, e, t) /\ y.zones = z.zones
  BY <1>1 DEF Managers
<1>3. \A c \in DOMAIN z.board : z.board[c] \in Permanents
  BY Fields, BoardFields
<1>4. DOMAIN y.board = DOMAIN z.board
  BY <1>2 DEF AttachedTo
<1>5. ASSUME NEW c \in DOMAIN z.board
      PROVE  /\ y.board[c].attached = IF c = e THEN t ELSE z.board[c].attached
             /\ c = t => y.board[c].attachments = z.board[c].attachments \cup {e}
             /\ c # t => y.board[c].attachments \in
                           {z.board[c].attachments, z.board[c].attachments \ {e}}
  <2>1. PICK old \in Permanents : old = z.board[c]
    BY <1>3
  <2>. DEFINE a == IF c = e THEN t ELSE old.attached
              s == CASE c = t -> old.attachments \cup {e}
                     [] c # t /\ c = z.board[e].attached -> old.attachments \ {e}
                     [] OTHER -> old.attachments
  <2>2. y.board[c] = [old EXCEPT !.attached = a, !.attachments = s]
    BY <1>2, <2>1 DEF AttachedTo
  <2>3. /\ c = t => s = old.attachments \cup {e}
        /\ c # t => s \in {old.attachments, old.attachments \ {e}}
    OBVIOUS
  <2>4. a = IF c = e THEN t ELSE z.board[c].attached
    BY <2>1
  <2>. HIDE DEF a, s
  <2>5. y.board[c].attached = a /\ y.board[c].attachments = s
    BY <2>1, <2>2 DEF Permanents
  <2>. QED
    BY <2>1, <2>3, <2>4, <2>5
<1>6. ASSUME NEW c \in DOMAIN z.board, NEW u, u = y.board[c].attached
      PROVE  /\ u \in DOMAIN y.board => c \in y.board[u].attachments
             /\ u \notin DOMAIN y.board => \A q \in Players : u \notin y.zones["Library"][q]
  <2>1. CASE c = e
    <3>1. u = t
      BY <1>5, <1>6, <2>1
    <3>. QED
      BY <1>4, <1>5, <2>1, <3>1
  <2>2. CASE c # e
    <3>1. u = z.board[c].attached
      BY <1>5, <1>6, <2>2
    <3>2. /\ u \in DOMAIN z.board => c \in z.board[u].attachments
          /\ u \notin DOMAIN z.board => \A q \in Players : u \notin z.zones["Library"][q]
      BY <3>1 DEF Attachments
    <3>3. u \in DOMAIN z.board => c \in y.board[u].attachments
      BY <1>5, <2>2, <3>2
    <3>. QED
      BY <1>2, <1>4, <3>2, <3>3
  <2>. QED
    BY <2>1, <2>2
<1>7. Attachments(y)
  BY <1>4, <1>6 DEF Attachments
<1>. QED
  BY <1>1, <1>7

(* A card goes from list to list. *)
LEMMA ListToListFewer ==
  ASSUME NEW z \in Managers, NEW x \in Places, NEW p \in Players, NEW c \in Ids,
         NEW y \in Places \ {"Library"}, NEW q \in Players
  PROVE  /\ Fewer(z, Add(Pop(z, x, p, c), y, q, c))
         /\ Fewer(z, Add(RemoveFrom(z, x, p, c), y, q, c))
         /\ Fewer(z, PushBack(RemoveFrom(z, x, p, c), y, q, c))
<1>1. PICK v, w : v = Pop(z, x, p, c) /\ w = RemoveFrom(z, x, p, c)
  OBVIOUS
<1>2. v \in Managers /\ w \in Managers
  BY <1>1, PopMoves, RemoveFromMoves
<1>3. Fewer(z, v) /\ Fewer(z, w)
  BY <1>1, TakingFewer
<1>4. Fewer(v, Add(v, y, q, c)) /\ Fewer(w, Add(w, y, q, c)) /\ Fewer(w, PushBack(w, y, q, c))
  BY <1>2, PuttingFewer
<1>5. /\ Fewer(z, Add(v, y, q, c)) /\ Fewer(z, Add(w, y, q, c))
      /\ Fewer(z, PushBack(w, y, q, c))
  BY <1>3, <1>4, FewerTwice
<1>. QED
  BY <1>1, <1>5

(* A permanent goes to a list. *)
LEMMA BoardToListFewer ==
  ASSUME NEW z \in Managers, NEW c \in DOMAIN z.board, NEW y \in Places \ {"Library"}
  PROVE  LET gone == remove_from_battlefield(z, c)
             p == z.board[c].owner
         IN  /\ Fewer(z, gone) /\ Fewer(z, Add(gone, y, p, c))
             /\ Fewer(z, PushBack(gone, y, p, c))
<1>1. PICK w : w = remove_from_battlefield(z, c)
  OBVIOUS
<1>2. PICK p \in Players : p = z.board[c].owner
  BY PermanentIsThere
<1>3. w \in Managers /\ Fewer(z, w)
  BY <1>1, LeaveMoves, LeaveFewer
<1>4. Fewer(w, Add(w, y, p, c)) /\ Fewer(w, PushBack(w, y, p, c))
  BY <1>3, PuttingFewer
<1>5. Fewer(z, Add(w, y, p, c)) /\ Fewer(z, PushBack(w, y, p, c))
  BY <1>3, <1>4, FewerTwice
<1>. QED
  BY <1>1, <1>2, <1>3, <1>5

(* Nothing has changed. *)
LEMMA NoneFewer ==
  ASSUME zm' = zm
  PROVE  Fewer(zm, zm')
BY DEF Fewer

(* Casting, failing to cast and swapping. *)
LEMMA CastFewer ==
  ASSUME Typed, NEW p \in Players, NEW c \in Ids,
         PlayCard(p, c) \/ PlayCardFails(p, c) \/ PlayFlashback(p, c)
  PROVE  Fewer(zm, zm')
<1>1. zm \in Managers /\ "Hand" \in Places \ {"Library"} /\ "Graveyard" \in Places
  BY DEF Typed, Places
<1>2. PICK w : w = RemoveFrom(zm, "Hand", p, c)
  OBVIOUS
<1>3. w \in Managers /\ Fewer(zm, w)
  BY <1>1, <1>2, RemoveFromMoves, TakingFewer
<1>4. CASE PlayCard(p, c)
  <2>1. zm' \in Delved(w, p, c)
    BY <1>2, <1>4 DEF PlayCard
  <2>2. Fewer(w, zm')
    BY <1>3, <2>1, DelvedFewer
  <2>. QED
    BY <1>3, <2>2, FewerTwice
<1>5. CASE PlayCardFails(p, c)
  <2>1. PICK v \in Delved(w, p, c) : zm' = PushBack(v, "Hand", p, c)
    BY <1>2, <1>5 DEF PlayCardFails
  <2>2. v \in Managers /\ Fewer(w, v)
    BY <1>3, DelvedMoves, DelvedFewer
  <2>3. Fewer(v, zm')
    BY <1>1, <2>1, <2>2, PuttingFewer
  <2>. QED
    BY <1>3, <2>2, <2>3, FewerTwice
<1>6. CASE PlayFlashback(p, c)
  BY <1>1, <1>6, TakingFewer DEF PlayFlashback
<1>. QED
  BY <1>4, <1>5, <1>6

(* A swap with the sideboard. *)
LEMMA SwapFewer ==
  ASSUME Typed, NEW p \in Players, NEW out \in Ids, NEW in \in Ids, SideboardSwap(p, out, in)
  PROVE  Fewer(zm, zm')
<1>1. zm \in Managers /\ {"Hand", "Sideboard"} \subseteq Places \ {"Library"}
  BY DEF Typed, Places
<1>2. PICK w : w = RemoveFrom(zm, "Hand", p, out)
  OBVIOUS
<1>3. w \in Managers /\ Fewer(zm, w)
  BY <1>1, <1>2, RemoveFromMoves, TakingFewer
<1>4. PICK v : v = Pop(w, "Sideboard", p, in)
  OBVIOUS
<1>5. v \in Managers /\ Fewer(w, v)
  BY <1>1, <1>3, <1>4, PopMoves, TakingFewer
<1>6. PICK u : u = PushBack(v, "Sideboard", p, out)
  OBVIOUS
<1>7. u \in Managers /\ Fewer(v, u)
  BY <1>1, <1>5, <1>6, PushBackMoves, PuttingFewer
<1>8. zm' = PushBack(u, "Hand", p, in)
  BY <1>2, <1>4, <1>6 DEF SideboardSwap
<1>9. Fewer(u, zm')
  BY <1>1, <1>7, <1>8, PuttingFewer
<1>10. Fewer(zm, v) /\ Fewer(v, zm')
  BY <1>3, <1>5, <1>7, <1>9, FewerTwice
<1>. QED
  BY <1>10, FewerTwice

(* A spell whose target is gone. *)
LEMMA FizzleFewer ==
  ASSUME Typed, Fizzle
  PROVE  Fewer(zm, zm')
<1>1. zm \in Managers /\ "Graveyard" \in Places \ {"Library"} /\ stack \in Seq(FitEntries)
  BY DEF Typed, Places
<1>2. Top \in FitEntries
  BY <1>1, ElementOfSeq, EmptySeq DEF Fizzle, Top
<1>3. Top.owner \in Players
  BY <1>2 DEF FitEntries, Entries
<1>. QED
  BY <1>1, <1>3, PuttingFewer DEF Fizzle

(* The end of a turn. *)
LEMMA CleanupFewer ==
  ASSUME Typed, CleanupStep
  PROVE  Fewer(zm, zm')
<1>1. /\ zm \in Managers /\ active' \in Players /\ zm' \in Drawn(Healed(zm), active')
      /\ "Library" \in Places /\ "Hand" \in Places \ {"Library"}
  BY DEF Typed, CleanupStep, Places
<1>2. PICK z : z = Healed(zm)
  OBVIOUS
<1>3. z \in Managers /\ Fewer(zm, z)
  BY <1>1, <1>2, HealedMoves, HealedFewer
<1>4. CASE z.zones["Library"][active'] = {}
  BY <1>1, <1>2, <1>3, <1>4 DEF Drawn
<1>5. CASE z.zones["Library"][active'] # {}
  <2>1. PICK c \in z.zones["Library"][active'] :
          zm' = Add(Pop(z, "Library", active', c), "Hand", active', c)
    BY <1>1, <1>2, <1>5 DEF Drawn
  <2>2. PICK p \in Players : p = active'
    BY <1>1
  <2>3. c \in Ids
    BY <1>1, <1>3, <2>1, <2>2, Fields
  <2>4. zm' = Add(Pop(z, "Library", p, c), "Hand", p, c)
    BY <2>1, <2>2
  <2>5. Fewer(z, zm')
    BY <1>1, <1>3, <2>3, <2>4, ListToListFewer
  <2>. QED
    BY <1>3, <2>5, FewerTwice
<1>. QED
  BY <1>4, <1>5

(* The calls of a script that move a card. *)
LEMMA MovingFewer ==
  ASSUME Typed, NEW p \in Players,
         \/ draw_cards(p) \/ discard_cards(p) \/ mill(p) \/ return_from_graveyard(p)
  PROVE  Fewer(zm, zm')
<1>1. zm \in Managers /\ {"Hand", "Graveyard"} \subseteq Places \ {"Library"}
      /\ "Library" \in Places
  BY DEF Typed, Places
<1>2. \A x \in Places : zm.zones[x][p] \subseteq Ids
  BY <1>1, Fields
<1>3. CASE draw_cards(p)
  <2>1. PICK c \in Ids : zm' = Add(Pop(zm, "Library", p, c), "Hand", p, c)
    BY <1>1, <1>2, <1>3 DEF draw_cards
  <2>. QED
    BY <1>1, <2>1, ListToListFewer
<1>4. CASE discard_cards(p)
  <2>1. PICK c \in Ids : zm' = Add(Pop(zm, "Hand", p, c), "Graveyard", p, c)
    BY <1>1, <1>2, <1>4 DEF discard_cards
  <2>. QED
    BY <1>1, <2>1, ListToListFewer
<1>5. CASE mill(p)
  <2>1. PICK c \in Ids : zm' = Add(RemoveFrom(zm, "Library", p, c), "Graveyard", p, c)
    BY <1>1, <1>2, <1>5 DEF mill
  <2>. QED
    BY <1>1, <2>1, ListToListFewer
<1>6. CASE return_from_graveyard(p)
  <2>1. PICK c \in Ids : zm' = PushBack(RemoveFrom(zm, "Graveyard", p, c), "Hand", p, c)
    BY <1>1, <1>2, <1>6 DEF return_from_graveyard
  <2>. QED
    BY <1>1, <2>1, ListToListFewer
<1>. QED
  BY <1>3, <1>4, <1>5, <1>6

(* Returning and exiling. *)
LEMMA ReturnFewer ==
  ASSUME Typed, NEW c \in Ids, return_to_hand(c) \/ exile_card(c)
  PROVE  Fewer(zm, zm')
<1>1. zm \in Managers /\ {"Hand", "Graveyard", "Exile"} \subseteq Places \ {"Library"}
  BY DEF Typed, Places
<1>2. ASSUME NEW p \in Players
      PROVE  OwnerOr(c, p) \in Players
  BY BoardAssumption DEF OwnerOr
<1>3. CASE return_to_hand(c)
  <2>1. CASE c \in OnBattlefield(zm)
             /\ zm' = PushBack(remove_from_battlefield(zm, c), "Hand", zm.board[c].owner, c)
    BY <1>1, <2>1, BoardToListFewer DEF OnBattlefield
  <2>2. ASSUME NEW p \in Players, NEW place \in {"Graveyard", "Exile"},
               zm' = PushBack(RemoveFrom(zm, place, p, c), "Hand",
                              IF place = "Exile" THEN p ELSE OwnerOr(c, p), c)
        PROVE  Fewer(zm, zm')
    <3>1. PICK q \in Players : q = IF place = "Exile" THEN p ELSE OwnerOr(c, p)
      BY <1>2
    <3>2. zm' = PushBack(RemoveFrom(zm, place, p, c), "Hand", q, c)
      BY <2>2, <3>1
    <3>. QED
      BY <1>1, <3>2, ListToListFewer
  <2>. QED
    BY <1>3, <2>1, <2>2 DEF return_to_hand
<1>4. CASE exile_card(c)
  <2>. DEFINE gone == remove_from_battlefield(zm, c)
  <2>1. CASE c \in OnBattlefield(zm)
             /\ zm' = IF zm.board[c].token THEN gone ELSE Add(gone, "Exile", zm.board[c].owner, c)
    BY <1>1, <2>1, BoardToListFewer DEF OnBattlefield
  <2>2. ASSUME NEW p \in Players, NEW place \in {"Graveyard", "Hand"},
               zm' = Add(RemoveFrom(zm, place, p, c), "Exile", OwnerOr(c, p), c)
        PROVE  Fewer(zm, zm')
    <3>1. PICK q \in Players : q = OwnerOr(c, p)
      BY <1>2
    <3>2. zm' = Add(RemoveFrom(zm, place, p, c), "Exile", q, c)
      BY <2>2, <3>1
    <3>. QED
      BY <1>1, <3>2, ListToListFewer
  <2>3. \/ c \in OnBattlefield(zm)
             /\ zm' = IF zm.board[c].token THEN gone ELSE Add(gone, "Exile", zm.board[c].owner, c)
        \/ \E p \in Players, place \in {"Graveyard", "Hand"} :
             zm' = Add(RemoveFrom(zm, place, p, c), "Exile", OwnerOr(c, p), c)
    BY <1>4 DEF exile_card
  <2>. HIDE DEF gone
  <2>. QED
    BY <2>1, <2>2, <2>3
<1>. QED
  BY <1>3, <1>4

(* Killing, damage and counters. *)
LEMMA MarkingFewer ==
  ASSUME Typed, NEW c \in Ids,
         \/ destroy_permanent(c) \/ sacrifice(c) \/ deal_damage(c) \/ add_counter(c)
  PROVE  Fewer(zm, zm')
<1>1. zm \in Managers /\ "Graveyard" \in Places \ {"Library"}
  BY DEF Typed, Places
<1>2. CASE destroy_permanent(c) \/ sacrifice(c)
  <2>1. c \in DOMAIN zm.board
        /\ zm' = Add(remove_from_battlefield(zm, c), "Graveyard", zm.board[c].owner, c)
    BY <1>2 DEF destroy_permanent, sacrifice, Kill, Bury, OnBattlefield
  <2>. QED
    BY <1>1, <2>1, BoardToListFewer
<1>3. CASE deal_damage(c) \/ add_counter(c)
  <2>1. zm.board \in Boards /\ c \in DOMAIN zm.board
    BY <1>1, <1>3, Fields DEF deal_damage, add_counter, OnBattlefield
  <2>2. zm.board[c] \in Permanents
    BY <2>1, BoardFields
  <2>. DEFINE hurt == [zm.board[c] EXCEPT !.damage = 1]
              more == [zm.board[c] EXCEPT !.plus = 1]
              less == [zm.board[c] EXCEPT !.minus = 1]
  <2>3. \A perm \in {hurt, more, less} :
          perm.attached = zm.board[c].attached /\ perm.attachments = zm.board[c].attachments
    BY <2>2 DEF Permanents
  <2>4. PICK perm \in {hurt, more, less} : zm' = [zm EXCEPT !.board[c] = perm]
    <3>1. \/ zm' = [zm EXCEPT !.board[c].damage = 1] \/ zm' = [zm EXCEPT !.board[c].plus = 1]
          \/ zm' = [zm EXCEPT !.board[c].minus = 1]
      BY <1>3 DEF deal_damage, add_counter
    <3>. QED
      BY <3>1
  <2>. HIDE DEF hurt, more, less
  <2>. DEFINE b == [zm.board EXCEPT ![c] = perm]
  <2>5. zm' = [zm EXCEPT !.board = b]
    BY <2>4
  <2>6. DOMAIN b = DOMAIN zm.board
        /\ \A d \in DOMAIN b : /\ b[d].attached \in {zm.board[d].attached, None}
                               /\ b[d].attachments = zm.board[d].attachments
    BY <2>1, <2>3
  <2>. HIDE DEF b
  <2>. QED
    BY <1>1, <2>5, <2>6, RemadeFewer
<1>. QED
  BY <1>2, <1>3

(* A spell is countered. *)
LEMMA CounterFewer ==
  ASSUME Typed, NEW i \in DOMAIN stack, counter_spell(i)
  PROVE  Fewer(zm, zm')
<1>1. zm \in Managers /\ "Graveyard" \in Places \ {"Library"} /\ stack \in Seq(FitEntries)
  BY DEF Typed, Places
<1>2. stack[i] \in FitEntries
  BY <1>1, ElementOfSeq, LenProperties
<1>3. stack[i].owner \in Players
  BY <1>2 DEF FitEntries, Entries
<1>4. zm' = zm \/ zm' = Add(zm, "Graveyard", stack[i].owner, stack[i].card)
  BY DEF counter_spell
<1>. QED
  BY <1>1, <1>3, <1>4, PuttingFewer, NoneFewer

(* A pass of the state-based actions. *)
LEMMA PassFewer ==
  ASSUME Typed, StartPass \/ \E applied \in BOOLEAN : FinishPass(applied)
  PROVE  Fewer(zm, zm')
<1>1. zm \in Managers
  BY DEF Typed
<1>2. CASE StartPass
  <2>1. Dying(zm) \subseteq DOMAIN zm.board
    BY DEF Dying, OnBattlefield
  <2>. QED
    BY <1>1, <1>2, <2>1, PutAwayFewer DEF StartPass
<1>3. CASE \E applied \in BOOLEAN : FinishPass(applied)
  <2>1. PICK out \in LegendChoices(zm) : zm' = Annihilate(PutOrphansAway(PutAway(zm, out)))
    BY <1>3 DEF FinishPass
  <2>2. out \subseteq DOMAIN zm.board
    BY DEF LegendChoices, Legends, OnBattlefield
  <2>3. PICK one : one = PutAway(zm, out)
    OBVIOUS
  <2>4. one \in Managers /\ Fewer(zm, one)
    BY <1>1, <2>2, <2>3, PutAwayMoves, PutAwayFewer
  <2>5. PICK two : two = PutOrphansAway(one)
    OBVIOUS
  <2>6. two \in Managers /\ Fewer(one, two)
    BY <2>4, <2>5, OrphansMoves, OrphansFewer
  <2>7. Fewer(two, zm')
    BY <2>1, <2>3, <2>5, <2>6, AnnihilateFewer
  <2>. QED
    BY <2>4, <2>6, <2>7, FewerTwice
<1>. QED
  BY <1>2, <1>3

(* A sorcery is put away. *)
LEMMA SettleFewer ==
  ASSUME Typed, SettleSpell
  PROVE  Fewer(zm, zm')
<1>1. /\ zm \in Managers /\ {"Graveyard", "Exile"} \subseteq Places \ {"Library"}
      /\ agenda \in Seq(FitTasks)
  BY DEF Typed, Places
<1>2. agenda # <<>> /\ Now.task = "settle"
  BY DEF SettleSpell, Running, Idle
<1>3. Now \in FitTasks
  BY <1>1, <1>2, HeadTailProperties DEF Now
<1>4. Now.owner \in Players /\ Now.place \in {"Graveyard", "Exile"}
  BY <1>2, <1>3 DEF FitTasks, Tasks
<1>. QED
  BY <1>1, <1>4, PuttingFewer DEF SettleSpell

(* A card of the library enters. *)
LEMMA SearchAttachments ==
  ASSUME Typed, Located, Attachments(zm), NEW p \in Players, search_library_to_battlefield(p)
  PROVE  Attachments(zm')
<1>1. zm \in Managers /\ LocatedIn(zm, OnStack \cup Resolving)
  BY DEF Typed, Located
<1>2. PICK c \in zm.zones["Library"][p] :
        zm' = add_to_battlefield(RemoveFrom(zm, "Library", p, c), c, p, FALSE)
  BY DEF search_library_to_battlefield
<1>3. c \in Ids /\ "Library" \in Places
  BY <1>1, Fields DEF Places
<1>4. Sits(zm, c, "Library", p) /\ Placed(zm, c)
  BY <1>1, <1>3, ListedInPlace
<1>5. PICK w : w = RemoveFrom(zm, "Library", p, c)
  OBVIOUS
<1>6. w \in Managers /\ Nowhere(w, c)
  BY <1>1, <1>3, <1>4, <1>5, RemoveFromMoves
<1>7. w.board = zm.board
  BY <1>1, <1>5 DEF RemoveFrom, Managers
<1>8. Fewer(zm, w)
  BY <1>1, <1>3, <1>5, TakingFewer
<1>9. Attachments(w)
  BY <1>1, <1>8, FewerKeeps
<1>10. c \notin DOMAIN zm.board
  <2>1. zm.board[c].owner \in Players => ~At(zm, c, "Battlefield", zm.board[c].owner)
    BY <1>4 DEF Sits, Spots, Places
  <2>2. c \in DOMAIN zm.board => zm.board[c].owner \in Players
    BY <1>1, PermanentIsThere
  <2>. QED
    BY <2>1, <2>2 DEF At
<1>11. \A d \in DOMAIN w.board : w.board[d].attached # c
  BY <1>2, <1>7, <1>10 DEF Attachments
<1>12. PICK token \in BOOLEAN : token = FALSE
  OBVIOUS
<1>13. Absent(w, c) /\ (token => c \in Tokens)
  BY <1>6, <1>12 DEF Nowhere
<1>14. zm' = add_to_battlefield(w, c, p, token)
  BY <1>2, <1>5, <1>12
<1>. QED
  BY <1>3, <1>6, <1>9, <1>11, <1>13, <1>14, EnterAttached

(* A new token is attached to nothing, and nothing to it. *)
LEMMA TokenAttachments ==
  ASSUME Typed, Attachments(zm), active \in Players, NEW t \in Tokens, create_token(t)
  PROVE  Attachments(zm')
<1>1. zm \in Managers /\ t \in Ids
  BY DEF Typed, Ids
<1>2. ~Mentioned(t) /\ zm' = add_to_battlefield(zm, t, active, TRUE)
  BY DEF create_token
<1>3. Absent(zm, t)
  BY <1>2 DEF Mentioned, Absent, At, Spots, OnBattlefield
<1>4. \A d \in DOMAIN zm.board : zm.board[d].attached # t
  BY <1>2 DEF Mentioned, OnBattlefield
<1>5. PICK token \in BOOLEAN : token = TRUE
  OBVIOUS
<1>6. token => t \in Tokens
  OBVIOUS
<1>7. zm' = add_to_battlefield(zm, t, active, token)
  BY <1>2, <1>5
<1>. QED
  BY <1>1, <1>3, <1>4, <1>6, <1>7, EnterAttached

(* Equipment is moved. *)
LEMMA AttachAttachments ==
  ASSUME Typed, Attachments(zm), NEW e \in Ids, NEW t \in Ids, attach(e, t)
  PROVE  Attachments(zm')
<1>1. /\ zm \in Managers /\ e \in DOMAIN zm.board /\ t \in DOMAIN zm.board
      /\ zm' = [zm EXCEPT !.board = AttachedTo(zm.board, e, t)]
  BY DEF Typed, attach, OnBattlefield
<1>. QED
  BY <1>1, AttachAttached

(* A permanent spell enters when nothing is attached to what is gone. *)
LEMMA EnteredAttachments ==
  ASSUME Typed, Located, Attachments(zm), Orphans(zm) = {},
         NEW e \in FitEntries, e.spell, e.card \in OnStack, ~TargetGone(e)
  PROVE  Attachments(Entered(e))
<1>1. /\ zm \in Managers /\ LocatedIn(zm, OnStack \cup Resolving)
      /\ e.card \in Ids /\ e.owner \in Players /\ Own(e.card, e.owner)
      /\ e.target \in Ids \cup {None}
  BY DEF Typed, Located, FitEntries, Entries
<1>2. PICK c \in Ids, p \in Players :
        c = e.card /\ p = OwnerOr(e.card, e.owner) /\ Own(c, p)
  BY <1>1, OwnerOrOwns
<1>3. Absent(zm, c)
  BY <1>1, <1>2 DEF LocatedIn, Nowhere
<1>4. c \notin DOMAIN zm.board
  <2>1. c \in DOMAIN zm.board =>
          zm.board[c].owner \in Players /\ At(zm, c, "Battlefield", zm.board[c].owner)
    BY <1>1, PermanentIsThere
  <2>. QED
    BY <1>3, <2>1 DEF Absent, Spots
<1>5. \A d \in DOMAIN zm.board : zm.board[d].attached # c
  <2>1. \A d \in DOMAIN zm.board : zm.board[d].attached \in DOMAIN zm.board \cup {None}
    BY DEF Orphans, OnBattlefield
  <2>2. None \notin Ids
    BY BoardAssumption
  <2>. QED
    BY <1>2, <1>4, <2>1, <2>2
<1>6. PICK token \in BOOLEAN : token = FALSE
  OBVIOUS
<1>7. PICK z : z = add_to_battlefield(zm, c, p, token)
  OBVIOUS
<1>8. token => c \in Tokens
  BY <1>6
<1>9. z \in Managers /\ DOMAIN z.board = DOMAIN zm.board \cup {c}
  BY <1>1, <1>3, <1>7, <1>8, EnterMoves
<1>10. Attachments(z)
  BY <1>1, <1>3, <1>5, <1>7, <1>8, EnterAttached
<1>11. CASE ~(IsEnchantment(c) /\ e.target # None)
  <2>1. Entered(e) = z
    BY <1>2, <1>6, <1>7, <1>11 DEF Entered
  <2>. QED
    BY <1>10, <2>1
<1>12. CASE IsEnchantment(c) /\ e.target # None
  <2>1. PICK t \in DOMAIN z.board : t = e.target
    BY <1>9, <1>12 DEF TargetGone, OnBattlefield
  <2>2. PICK d \in DOMAIN z.board : d = c
    BY <1>9
  <2>3. Entered(e) = [z EXCEPT !.board = AttachedTo(z.board, d, t)]
    BY <1>2, <1>6, <1>7, <1>12, <2>1, <2>2 DEF Entered
  <2>. QED
    BY <1>9, <1>10, <2>3, AttachAttached
<1>. QED
  BY <1>11, <1>12

(* What a script calls. *)
LEMMA ScriptCallAttachments ==
  ASSUME Typed, Located, active \in Players, Attachments(zm), ScriptCall
  PROVE  Attachments(zm')
<1>1. zm \in Managers /\ LocatedIn(zm, OnStack \cup Resolving)
  BY DEF Typed, Located
<1>2. Fewer(zm, zm') => Attachments(zm')
  BY <1>1, FewerKeeps
<1>3. ASSUME NEW p \in Players,
             \/ draw_cards(p) \/ discard_cards(p) \/ mill(p)
             \/ search_library_to_battlefield(p) \/ return_from_graveyard(p)
      PROVE  Attachments(zm')
  BY <1>2, <1>3, MovingFewer, SearchAttachments
<1>4. ASSUME NEW c \in Ids,
             \/ return_to_hand(c) \/ exile_card(c) \/ destroy_permanent(c) \/ sacrifice(c)
             \/ deal_damage(c) \/ add_counter(c)
             \/ \E t \in Ids : attach(c, t)
      PROVE  Attachments(zm')
  BY <1>2, <1>4, ReturnFewer, MarkingFewer, AttachAttachments
<1>5. ASSUME NEW t \in Tokens, create_token(t)
      PROVE  Attachments(zm')
  BY <1>5, TokenAttachments
<1>6. ASSUME NEW i \in DOMAIN stack, counter_spell(i)
      PROVE  Attachments(zm')
  BY <1>2, <1>6, CounterFewer
<1>7. ASSUME NEW source, NEW event, register_delayed_trigger(source, event)
      PROVE  Attachments(zm')
  BY <1>2, <1>7, NoneFewer DEF register_delayed_trigger
<1>. QED
  BY <1>3, <1>4, <1>5, <1>6, <1>7 DEF ScriptCall

(* What the thread does by itself. *)
LEMMA ThreadAttachments ==
  ASSUME Typed, Located, active \in Players, Attachments(zm), Thread
  PROVE  Attachments(zm')
<1>1. zm \in Managers /\ LocatedIn(zm, OnStack \cup Resolving)
  BY DEF Typed, Located
<1>2. Fewer(zm, zm') => Attachments(zm')
  BY <1>1, FewerKeeps
<1>3. CASE ScriptEnds \/ NextDeath \/ TellOfDeath
  BY <1>2, <1>3, NoneFewer DEF ScriptEnds, NextDeath, TellOfDeath
<1>4. CASE SettleSpell
  BY <1>2, <1>4, SettleFewer
<1>5. CASE StartPass \/ \E applied \in BOOLEAN : FinishPass(applied)
  BY <1>2, <1>5, PassFewer
<1>. QED
  BY <1>3, <1>4, <1>5, ScriptCallAttachments DEF Thread

(* What the players do. *)
LEMMA ActAttachments ==
  ASSUME Typed, Located, Attachments(zm), Idle /\ stack # <<>> => Orphans(zm) = {}, Act
  PROVE  Attachments(zm')
<1>1. zm \in Managers /\ LocatedIn(zm, OnStack \cup Resolving)
  BY DEF Typed, Located
<1>2. Fewer(zm, zm') => Attachments(zm')
  BY <1>1, FewerKeeps
<1>3. ASSUME NEW p \in Players, NEW c \in Ids,
             PlayCard(p, c) \/ PlayCardFails(p, c) \/ PlayFlashback(p, c)
      PROVE  Attachments(zm')
  BY <1>2, <1>3, CastFewer
<1>4. ASSUME NEW p \in Players, NEW c \in Ids, ActivateAbility(p, c)
      PROVE  Attachments(zm')
  BY <1>2, <1>4, NoneFewer DEF ActivateAbility
<1>5. ASSUME NEW p \in Players, NEW c \in Ids, NEW in \in Ids, SideboardSwap(p, c, in)
      PROVE  Attachments(zm')
  BY <1>2, <1>5, SwapFewer
<1>6. CASE ResolvePermanent
  <2>1. /\ Top \in FitEntries /\ Top.spell /\ Top.card \in OnStack /\ ~TargetGone(Top)
        /\ zm' = Entered(Top) /\ Orphans(zm) = {}
    BY <1>6, TopAndRest DEF ResolvePermanent
  <2>2. PICK e \in FitEntries : e = Top
    BY <2>1
  <2>. QED
    BY <2>1, <2>2, EnteredAttachments
<1>7. CASE ResolveSorcery \/ ResolveAbility \/ EndStep \/ FirstPass
  BY <1>2, <1>7, NoneFewer DEF ResolveSorcery, ResolveAbility, EndStep, FirstPass
<1>8. CASE Fizzle
  BY <1>2, <1>8, FizzleFewer
<1>9. CASE CleanupStep
  BY <1>2, <1>9, CleanupFewer
<1>. QED
  BY <1>3, <1>4, <1>5, <1>6, <1>7, <1>8, <1>9 DEF Act

-----------------------------------------------------------------------------
(* When a player is asked. *)

\* The state-based actions have nothing to do.
Quiet(z) ==
  /\ Dying(z) = {} /\ Orphans(z) = {} /\ Cancelling(z) = {}
  /\ \A c \in Legends(z) : Namesakes(z, c) = {c}

\* The last call in progress is the state-based actions.
Ends(a) == a # <<>> /\ a[Len(a)].task \in {"check", "deaths"}

\* Only callbacks of delayed triggers are in progress.
OnlyCallbacks(a) == \A i \in DOMAIN a : a[i].task = "script" /\ a[i].callback

\* Whoever has acted is asked again only after the state-based actions, and
\* found nothing for them to do.  From the delayed triggers of the end step
\* until somebody acts, nothing is on the stack and only callbacks run.
Waiting ==
  /\ asked /\ Idle => Quiet(zm)
  /\ asked /\ ~Idle => Ends(agenda)
  /\ ~asked => stack = <<>> /\ OnlyCallbacks(agenda)

SettledInv == BoardInv /\ Attachments(zm) /\ Waiting

(* What ends with the state-based actions still does with more on top. *)
LEMMA EndsOnTop ==
  ASSUME NEW S, NEW s \in Seq(S), NEW t \in Seq(S), Ends(t)
  PROVE  Ends(s \o t)
<1>1. /\ s \o t \in Seq(S) /\ Len(s \o t) = Len(s) + Len(t) /\ Len(s) \in Nat /\ Len(t) \in Nat
      /\ \A i \in 1 .. Len(s) + Len(t) : (s \o t)[i] = IF i <= Len(s) THEN s[i] ELSE t[i - Len(s)]
  BY ConcatProperties, LenProperties
<1>2. Len(t) # 0
  BY EmptySeq DEF Ends
<1>3. PICK n \in 1 .. Len(s) + Len(t) : n = Len(s) + Len(t) /\ ~(n <= Len(s)) /\ n - Len(s) = Len(t)
  BY <1>1, <1>2
<1>4. (s \o t)[n] = t[Len(t)] /\ Len(s \o t) = n
  BY <1>1, <1>3
<1>5. s \o t # <<>>
  BY <1>1, <1>3, EmptySeq
<1>. QED
  BY <1>4, <1>5 DEF Ends

(* And so it does with nothing below. *)
LEMMA EndsAlone ==
  ASSUME NEW S, NEW s \in Seq(S), Ends(s), NEW t, t = <<>>
  PROVE  Ends(s \o t)
<1>1. s \o t = s
  BY ConcatEmptySeq
<1>. QED
  BY <1>1

(* When the innermost call ends, the state-based actions are still the last, *)
(* or it was they that ended. *)
LEMMA EndsTail ==
  ASSUME NEW S, NEW a \in Seq(S), Ends(a)
  PROVE  \/ Ends(Tail(a))
         \/ Tail(a) = <<>> /\ Head(a).task \in {"check", "deaths"}
<1>1. PICK t : t = Tail(a)
  OBVIOUS
<1>2. a # <<>> /\ t \in Seq(S) /\ Len(t) = Len(a) - 1 /\ Head(a) = a[1]
      /\ \A i \in 1 .. Len(t) : t[i] = a[i + 1]
  BY <1>1, HeadTailProperties DEF Ends
<1>3. Len(a) \in Nat /\ Len(t) \in Nat /\ Len(a) # 0
  BY <1>2, EmptySeq, LenProperties
<1>4. CASE Len(t) = 0
  <2>1. t = <<>>
    BY <1>2, <1>4, EmptySeq
  <2>2. Len(a) = 1
    BY <1>2, <1>3, <1>4
  <2>3. Head(a) = a[Len(a)]
    BY <1>2, <2>2
  <2>. QED
    BY <1>1, <2>1, <2>3 DEF Ends
<1>5. CASE Len(t) # 0
  <2>1. Len(t) \in 1 .. Len(t) /\ Len(t) + 1 = Len(a)
    BY <1>2, <1>3, <1>5
  <2>2. t[Len(t)] = a[Len(a)]
    BY <1>2, <2>1
  <2>3. t # <<>>
    BY <1>5, EmptySeq
  <2>. QED
    BY <1>1, <2>2, <2>3 DEF Ends
<1>. QED
  BY <1>4, <1>5

(* The calls that are the state-based actions end with them. *)
LEMMA CheckEnds == Ends(Check) /\ \A dead : Ends(Deaths(dead))
BY DEF Ends, Check, Deaths

(* The callbacks of delayed triggers are nothing else. *)
LEMMA CallbacksOnly ==
  ASSUME NEW event, NEW source
  PROVE  OnlyCallbacks(Callbacks(event, source))
BY DEF OnlyCallbacks, Callbacks

(* Less of them is no more than callbacks either. *)
LEMMA OnlyCallbacksTail ==
  ASSUME NEW S, NEW a \in Seq(S), a # <<>>, OnlyCallbacks(a)
  PROVE  OnlyCallbacks(Tail(a)) /\ Head(a).task = "script" /\ Head(a).callback
<1>1. /\ Tail(a) \in Seq(S) /\ Len(Tail(a)) = Len(a) - 1 /\ Len(a) \in Nat \ {0}
      /\ \A i \in 1 .. Len(Tail(a)) : Tail(a)[i] = a[i + 1]
      /\ Head(a) = a[1]
  BY HeadTailProperties, EmptySeq, LenProperties
<1>2. DOMAIN Tail(a) = 1 .. Len(Tail(a)) /\ DOMAIN a = 1 .. Len(a)
  BY <1>1, LenProperties
<1>3. \A i \in DOMAIN Tail(a) : i + 1 \in DOMAIN a /\ Tail(a)[i] = a[i + 1]
  BY <1>1, <1>2
<1>4. 1 \in DOMAIN a
  BY <1>1, <1>2
<1>. QED
  BY <1>1, <1>3, <1>4 DEF OnlyCallbacks

(* Two battlefields with the same permanents are the same. *)
LEMMA SameBoards ==
  ASSUME NEW b \in Boards, NEW d \in Boards, DOMAIN d = DOMAIN b,
         \A c \in DOMAIN b : d[c] = b[c]
  PROVE  d = b
<1>1. PICK S, T : b \in [S -> Permanents] /\ d \in [T -> Permanents]
  BY DEF Boards
<1>. QED
  BY <1>1

(* Putting nothing away changes no permanent. *)
LEMMA PutNothingAway ==
  ASSUME NEW z \in Managers
  PROVE  PutAway(z, {}) \in Managers /\ PutAway(z, {}).board = z.board
<1>1. PICK S \in SUBSET DOMAIN z.board : S = {}
  OBVIOUS
<1>2. PICK y : y = PutAway(z, S)
  OBVIOUS
<1>3. /\ y \in Managers /\ DOMAIN y.board = DOMAIN z.board \ S
      /\ \A c \in DOMAIN z.board \ S : y.board[c] = z.board[c]
  BY <1>2, PutAwayMoves
<1>4. y.board \in Boards /\ z.board \in Boards
  BY <1>3, Fields
<1>5. y.board = z.board
  BY <1>1, <1>3, <1>4, SameBoards
<1>. QED
  BY <1>1, <1>2, <1>3, <1>5

(* Nor do the orphans when there are none. *)
LEMMA NoOrphans ==
  ASSUME NEW z \in Managers, Orphans(z) = {}
  PROVE  PutOrphansAway(z) \in Managers /\ PutOrphansAway(z).board = z.board
<1>. DEFINE b == [c \in DOMAIN z.board |-> IF c \in {} THEN [z.board[c] EXCEPT !.attached = None]
                                           ELSE z.board[c]]
<1>1. PutOrphansAway(z) = PutAway([z EXCEPT !.board = b], {})
  <2>1. {c \in Orphans(z) : ~IsEnchantment(c)} = {} /\ Orphans(z) \ {} = {}
    OBVIOUS
  <2>. QED
    BY <2>1 DEF PutOrphansAway
<1>2. b = z.board
  BY Fields DEF Boards
<1>. HIDE DEF b
<1>3. PICK w : w = [z EXCEPT !.board = b]
  OBVIOUS
<1>4. w \in Managers /\ w.board = z.board
  BY <1>2, <1>3, Fields DEF Managers
<1>5. PutAway(w, {}) \in Managers /\ PutAway(w, {}).board = w.board
  BY <1>4, PutNothingAway
<1>. QED
  BY <1>1, <1>3, <1>4, <1>5

(* Nor do counters that are of one kind. *)
LEMMA NoneAnnihilate ==
  ASSUME NEW z \in Managers, Cancelling(z) = {}
  PROVE  Annihilate(z).board = z.board
<1>. DEFINE pairs(c) == IF z.board[c].plus < z.board[c].minus THEN z.board[c].plus
                        ELSE z.board[c].minus
            b == [c \in DOMAIN z.board |->
                   IF c \in Cancelling(z)
                   THEN [z.board[c] EXCEPT !.plus = @ - pairs(c), !.minus = @ - pairs(c)]
                   ELSE z.board[c]]
<1>1. Annihilate(z) = [z EXCEPT !.board = b]
  BY DEF Annihilate
<1>2. b = [c \in DOMAIN z.board |-> z.board[c]]
  OBVIOUS
<1>. HIDE DEF b
<1>3. b = z.board
  BY <1>2, Fields DEF Boards
<1>. QED
  BY <1>1, <1>3 DEF Managers

(* Whether the state-based actions have something to do shows on the *)
(* battlefield. *)
LEMMA QuietShows ==
  ASSUME NEW z, NEW y, y.board = z.board
  PROVE  /\ Dying(y) = Dying(z) /\ Orphans(y) = Orphans(z) /\ Cancelling(y) = Cancelling(z)
         /\ Legends(y) = Legends(z) /\ \A c : Namesakes(y, c) = Namesakes(z, c)
BY DEF Dying, Orphans, Cancelling, Legends, Namesakes, OnBattlefield

(* When the legend rule removes nothing, nobody has two of a name. *)
LEMMA OfOneName ==
  ASSUME NEW z \in Managers, {} \in LegendChoices(z), NEW c \in Legends(z)
  PROVE  Namesakes(z, c) = {c}
<1>1. Cardinality(Namesakes(z, c) \ {}) = 1
  BY DEF LegendChoices
<1>2. c \in Namesakes(z, c)
  BY DEF Legends, Namesakes
<1>3. Namesakes(z, c) \subseteq Ids
  BY Fields, BoardFields DEF Namesakes, OnBattlefield
<1>4. PICK S \in SUBSET Ids : S = Namesakes(z, c)
  BY <1>3
<1>5. IsFiniteSet(S) /\ Cardinality(S) = 1
  <2>1. IsFiniteSet(S)
    BY BoardAssumption, FS_Subset
  <2>2. Namesakes(z, c) \ {} = Namesakes(z, c)
    OBVIOUS
  <2>. QED
    BY <1>1, <1>4, <2>1, <2>2
<1>6. PICK x : S = {x}
  BY <1>5, FS_Singleton
<1>. QED
  BY <1>2, <1>4, <1>6

(* A pass that finds nothing to do leaves nothing to do. *)
LEMMA PassFindsNothing ==
  ASSUME Typed, Dying(zm) = {}, NEW out \in LegendChoices(zm), out = {},
         Orphans(PutAway(zm, out)) = {},
         Cancelling(PutOrphansAway(PutAway(zm, out))) = {},
         zm' = Annihilate(PutOrphansAway(PutAway(zm, out)))
  PROVE  Quiet(zm')
<1>1. zm \in Managers
  BY DEF Typed
<1>2. PICK one : one = PutAway(zm, out)
  OBVIOUS
<1>3. one \in Managers /\ one.board = zm.board
  BY <1>1, <1>2, PutNothingAway
<1>4. PICK two : two = PutOrphansAway(one)
  OBVIOUS
<1>5. two \in Managers /\ two.board = zm.board
  BY <1>2, <1>3, <1>4, NoOrphans
<1>6. zm'.board = zm.board
  BY <1>2, <1>4, <1>5, NoneAnnihilate
<1>7. Orphans(zm) = {} /\ Cancelling(zm) = {}
  BY <1>2, <1>3, <1>4, <1>5, QuietShows
<1>8. \A c \in Legends(zm) : Namesakes(zm, c) = {c}
  BY <1>1, OfOneName
<1>. QED
  BY <1>6, <1>7, <1>8, QuietShows DEF Quiet

(* Whoever waits for the state-based actions need not be told more. *)
LEMMA BusyWaits ==
  ASSUME asked', Ends(agenda')
  PROVE  Waiting'
BY DEF Waiting, Ends, Idle

(* Somebody has acted. *)
LEMMA ActedWaits ==
  ASSUME asked' = TRUE, agenda' = Check
  PROVE  Waiting'
BY BusyWaits, CheckEnds

(* A sorcery or an ability resolves. *)
LEMMA ResolvingWaits ==
  ASSUME Typed, Located, ResolveSorcery \/ ResolveAbility
  PROVE  Waiting'
<1>1. Plain(Check) /\ Plain(Script(FALSE)) /\ Ends(Check)
  BY PlainCalls, CheckEnds
<1>2. Check \in Seq(FitTasks) /\ Script(FALSE) \in Seq(FitTasks)
  BY <1>1 DEF Plain
<1>3. CASE ResolveAbility
  <2>1. agenda' = Script(FALSE) \o Check /\ asked' = TRUE
    BY <1>3 DEF ResolveAbility
  <2>. QED
    BY <1>1, <1>2, <2>1, EndsOnTop, BusyWaits
<1>4. CASE ResolveSorcery
  <2>1. Top \in FitEntries
    BY <1>4, TopAndRest DEF ResolveSorcery
  <2>2. PICK place \in {"Graveyard", "Exile"} :
          agenda' = Script(FALSE) \o Settle(Top.card, Top.owner, place) \o Check
    BY <1>4 DEF ResolveSorcery
  <2>3. Settle(Top.card, Top.owner, place) \in Seq(FitTasks)
    <3>1. [task |-> "settle", card |-> Top.card, owner |-> Top.owner, place |-> place] \in FitTasks
      BY <1>4, <2>1 DEF ResolveSorcery, FitEntries, Entries, FitTasks, Tasks
    <3>. QED
      BY <3>1 DEF Settle
  <2>4. PICK s : s = Script(FALSE) \o Settle(Top.card, Top.owner, place)
    OBVIOUS
  <2>5. s \in Seq(FitTasks)
    BY <1>2, <2>3, <2>4, ConcatProperties
  <2>6. agenda' = s \o Check /\ asked' = TRUE
    BY <1>4, <2>2, <2>4 DEF ResolveSorcery
  <2>. QED
    BY <1>1, <1>2, <2>5, <2>6, EndsOnTop, BusyWaits
<1>. QED
  BY <1>3, <1>4

(* The end step begins with callbacks. *)
LEMMA EndStepWaits ==
  ASSUME EndStep
  PROVE  Waiting'
<1>1. /\ asked' = FALSE /\ stack' = <<>> /\ agenda' = Callbacks("on_end_of_turn", None)
  BY DEF EndStep
<1>2. OnlyCallbacks(agenda')
  BY <1>1, CallbacksOnly
<1>. QED
  BY <1>1, <1>2 DEF Waiting

(* What the players do. *)
LEMMA ActWaits ==
  ASSUME Typed, Located, Act
  PROVE  Waiting'
<1>1. ASSUME NEW p \in Players, NEW c \in Ids,
             \/ PlayCard(p, c) \/ PlayCardFails(p, c) \/ PlayFlashback(p, c)
             \/ ActivateAbility(p, c) \/ \E in \in Ids : SideboardSwap(p, c, in)
      PROVE  Waiting'
  <2>1. Acted
    BY <1>1 DEF PlayCard, PlayCardFails, PlayFlashback, ActivateAbility, SideboardSwap
  <2>. QED
    BY <2>1, ActedWaits DEF Acted
<1>2. CASE Fizzle \/ ResolvePermanent \/ FirstPass
  <2>1. Acted
    BY <1>2 DEF Fizzle, ResolvePermanent, FirstPass
  <2>. QED
    BY <2>1, ActedWaits DEF Acted
<1>3. CASE CleanupStep
  <2>1. agenda' = Check /\ asked' = asked /\ asked
    BY <1>3 DEF CleanupStep
  <2>. QED
    BY <2>1, BusyWaits, CheckEnds
<1>4. CASE ResolveSorcery \/ ResolveAbility
  BY <1>4, ResolvingWaits
<1>5. CASE EndStep
  BY <1>5, EndStepWaits
<1>. QED
  BY <1>1, <1>2, <1>3, <1>4, <1>5 DEF Act

(* What runs in the end step before anybody acts is a callback. *)
LEMMA RunningUnasked ==
  ASSUME Typed, Waiting, ~asked, NEW task, Running(task)
  PROVE  /\ task = "script" /\ Now.callback /\ stack = <<>>
         /\ OnlyCallbacks(agenda) /\ OnlyCallbacks(Tail(agenda))
<1>1. agenda \in Seq(FitTasks) /\ agenda # <<>> /\ Now.task = task
  BY DEF Typed, Running, Idle
<1>2. OnlyCallbacks(agenda) /\ stack = <<>>
  BY DEF Waiting
<1>. QED
  BY <1>1, <1>2, OnlyCallbacksTail DEF Now

(* A script makes a call.  A callback makes none that leads to others. *)
LEMMA CallsWait ==
  ASSUME Typed, Waiting, NEW s, Plain(s), Calls(s), asked \/ (s = <<>> /\ UNCHANGED stack)
  PROVE  Waiting'
<1>1. /\ agenda \in Seq(FitTasks) /\ s \in Seq(FitTasks) /\ agenda' = s \o agenda
      /\ asked' = asked /\ Running("script") /\ ~Idle
  BY DEF Typed, Plain, Calls, Running
<1>2. CASE asked
  <2>1. Ends(agenda)
    BY <1>1, <1>2 DEF Waiting
  <2>2. Ends(agenda')
    BY <1>1, <2>1, EndsOnTop
  <2>. QED
    BY <1>1, <1>2, <2>2, BusyWaits
<1>3. CASE ~asked
  <2>1. agenda' = agenda
    BY <1>1, <1>3, ConcatEmptySeq
  <2>. QED
    BY <1>1, <1>3, <2>1 DEF Waiting
<1>. QED
  BY <1>2, <1>3

(* Every call of a script. *)
LEMMA ScriptCallWaits ==
  ASSUME Typed, Waiting, ScriptCall
  PROVE  Waiting'
<1>1. ASSUME OnlyMoves
      PROVE  Waiting'
  BY <1>1, CallsWait, PlainCalls DEF OnlyMoves
<1>2. ASSUME NEW p \in Players,
             \/ draw_cards(p) \/ discard_cards(p) \/ mill(p)
             \/ search_library_to_battlefield(p) \/ return_from_graveyard(p)
      PROVE  Waiting'
  BY <1>1, <1>2 DEF draw_cards, discard_cards, mill, search_library_to_battlefield,
                    return_from_graveyard
<1>3. ASSUME NEW c \in Ids,
             \/ return_to_hand(c) \/ exile_card(c) \/ deal_damage(c) \/ add_counter(c)
             \/ \E t \in Ids : attach(c, t)
      PROVE  Waiting'
  BY <1>1, <1>3 DEF return_to_hand, exile_card, deal_damage, add_counter, attach
<1>4. ASSUME NEW c \in Ids, destroy_permanent(c) \/ sacrifice(c)
      PROVE  Waiting'
  <2>1. PICK s : s = IF IsCreature(c) THEN News(c) ELSE <<>>
    OBVIOUS
  <2>2. Plain(s)
    BY <2>1, PlainCalls
  <2>3. Calls(s) /\ ~Now.callback
    BY <1>4, <2>1 DEF destroy_permanent, sacrifice, Kill
  <2>4. asked
    BY <2>3, RunningUnasked DEF Calls
  <2>. QED
    BY <2>2, <2>3, <2>4, CallsWait
<1>5. ASSUME NEW t \in Tokens, create_token(t)
      PROVE  Waiting'
  BY <1>1, <1>5 DEF create_token
<1>6. ASSUME NEW i \in DOMAIN stack, counter_spell(i)
      PROVE  Waiting'
  <2>1. Calls(<<>>) /\ stack # <<>>
    BY <1>6 DEF counter_spell
  <2>2. asked
    BY <2>1, RunningUnasked DEF Calls
  <2>. QED
    BY <2>1, <2>2, CallsWait, PlainCalls
<1>7. ASSUME NEW source, NEW event, register_delayed_trigger(source, event)
      PROVE  Waiting'
  <2>1. Calls(<<>>) /\ UNCHANGED stack
    BY <1>7 DEF register_delayed_trigger
  <2>. QED
    BY <2>1, CallsWait, PlainCalls
<1>. QED
  BY <1>2, <1>3, <1>4, <1>5, <1>6, <1>7 DEF ScriptCall

(* A call ends and others take its place. *)
LEMMA InsteadWaits ==
  ASSUME Typed, Waiting, NEW task, Running(task), asked' = asked, asked,
         NEW s \in Seq(FitTasks), agenda' = s \o Tail(agenda),
         task \notin {"check", "deaths"} \/ Ends(s)
  PROVE  Waiting'
<1>1. agenda \in Seq(FitTasks) /\ agenda # <<>> /\ Head(agenda).task = task
  BY DEF Typed, Running, Idle, Now
<1>2. Tail(agenda) \in Seq(FitTasks)
  BY <1>1, HeadTailProperties
<1>3. Ends(agenda)
  BY <1>1 DEF Waiting, Idle
<1>4. Ends(Tail(agenda)) \/ (Tail(agenda) = <<>> /\ task \in {"check", "deaths"})
  BY <1>1, <1>3, EndsTail
<1>5. CASE Ends(Tail(agenda))
  BY <1>2, <1>5, EndsOnTop, BusyWaits
<1>6. CASE Tail(agenda) = <<>> /\ Ends(s)
  BY <1>6, EndsAlone, BusyWaits
<1>. QED
  BY <1>4, <1>5, <1>6

(* The script of a sorcery or ability ends, and the callback of a trigger. *)
LEMMA EndingWaits ==
  ASSUME Typed, Waiting, ScriptEnds \/ SettleSpell
  PROVE  Waiting'
<1>1. PICK task \in {"script", "settle"} : Running(task)
  BY DEF ScriptEnds, SettleSpell
<1>2. agenda' = Tail(agenda) /\ asked' = asked /\ stack' = stack
  BY DEF ScriptEnds, SettleSpell
<1>3. CASE ~asked
  BY <1>1, <1>2, <1>3, RunningUnasked DEF Waiting
<1>4. CASE asked
  <2>1. agenda \in Seq(FitTasks) /\ agenda # <<>> /\ Head(agenda).task = task
    BY <1>1 DEF Typed, Running, Idle, Now
  <2>2. Ends(agenda)
    BY <1>4, <2>1 DEF Waiting, Idle
  <2>3. Ends(agenda')
    BY <1>1, <1>2, <2>1, <2>2, EndsTail
  <2>. QED
    BY <1>2, <1>4, <2>3, BusyWaits
<1>. QED
  BY <1>3, <1>4

(* Others are told of a death. *)
LEMMA TellWaits ==
  ASSUME Typed, TurnTyped, Waiting, TellOfDeath
  PROVE  Waiting'
<1>1. Running("news") /\ asked' = asked
      /\ agenda' = Callbacks("on_death", Now.card) \o Tail(agenda)
  BY DEF TellOfDeath
<1>2. asked
  BY <1>1, RunningUnasked
<1>3. PICK s \in Seq(FitTasks) : s = Callbacks("on_death", Now.card)
  BY CallbacksPlain DEF TurnTyped, Plain
<1>4. agenda' = s \o Tail(agenda)
  BY <1>1, <1>3
<1>5. PICK task : Running(task) /\ task \notin {"check", "deaths"}
  BY <1>1
<1>. QED
  BY <1>1, <1>2, <1>4, <1>5, InsteadWaits

(* Creatures die. *)
LEMMA DeathsWait ==
  ASSUME Typed, Located, Waiting, StartPass \/ NextDeath
  PROVE  Waiting'
<1>1. PICK task \in {"check", "deaths"} : Running(task)
  BY DEF StartPass, NextDeath
<1>2. asked' = asked /\ asked
  BY <1>1, RunningUnasked DEF StartPass, NextDeath
<1>3. PICK s \in Seq(FitTasks) : Ends(s) /\ agenda' = s \o Tail(agenda)
  <2>1. CASE StartPass
    <3>1. PICK dead \in Seq(Ids) : agenda' = Deaths(dead) \o Tail(agenda)
      BY <2>1, StartPassAgenda
    <3>2. Deaths(dead) \in Seq(FitTasks) /\ Ends(Deaths(dead))
      BY PlainCalls, CheckEnds DEF Plain
    <3>. QED
      BY <3>1, <3>2
  <2>2. CASE NextDeath
    <3>1. PICK s, dead : /\ Plain(s) /\ Plain(Deaths(dead))
                         /\ agenda' = (s \o Deaths(dead)) \o Tail(agenda)
      BY <2>2, NextDeathAgenda
    <3>2. s \o Deaths(dead) \in Seq(FitTasks)
      BY <3>1, PlainConcat DEF Plain
    <3>3. Ends(s \o Deaths(dead))
      BY <3>1, EndsOnTop, CheckEnds DEF Plain
    <3>. QED
      BY <3>1, <3>2, <3>3
  <2>. QED
    BY <2>1, <2>2
<1>. QED
  BY <1>1, <1>2, <1>3, InsteadWaits

(* A pass ends: either it found something and there is another, or there is *)
(* nothing to do. *)
LEMMA PassWaits ==
  ASSUME Typed, Waiting, NEW applied \in BOOLEAN, FinishPass(applied)
  PROVE  Waiting'
<1>1. PICK task \in {"check", "deaths"} : Running(task)
  BY DEF FinishPass
<1>2. asked' = asked /\ asked
  BY <1>1, RunningUnasked DEF FinishPass
<1>3. agenda \in Seq(FitTasks) /\ agenda # <<>> /\ Ends(agenda)
  BY <1>1, <1>2 DEF Typed, Running, Idle, Waiting
<1>4. PICK out \in LegendChoices(zm), again \in BOOLEAN :
        /\ zm' = Annihilate(PutOrphansAway(PutAway(zm, out)))
        /\ agenda' = (IF again THEN Check ELSE <<>>) \o Tail(agenda)
        /\ again = (\/ applied \/ out # {} \/ Orphans(PutAway(zm, out)) # {}
                    \/ Cancelling(PutOrphansAway(PutAway(zm, out))) # {})
  BY DEF FinishPass
<1>5. CASE again
  <2>1. Check \in Seq(FitTasks) /\ Ends(Check)
    BY PlainCalls, CheckEnds DEF Plain
  <2>2. agenda' = Check \o Tail(agenda)
    BY <1>4, <1>5
  <2>. QED
    BY <1>1, <1>2, <2>1, <2>2, InsteadWaits
<1>6. CASE ~again
  <2>1. Tail(agenda) \in Seq(FitTasks)
    BY <1>3, HeadTailProperties
  <2>2. agenda' = Tail(agenda)
    BY <1>4, <1>6, <2>1, ConcatEmptySeq
  <2>3. Dying(zm) = {}
    BY <1>4, <1>6 DEF FinishPass
  <2>4. Quiet(zm')
    BY <1>4, <1>6, <2>3, PassFindsNothing
  <2>5. Ends(agenda') \/ agenda' = <<>>
    BY <1>3, <2>2, EndsTail
  <2>. QED
    BY <1>2, <2>4, <2>5 DEF Waiting, Idle
<1>. QED
  BY <1>5, <1>6

(* What the thread does by itself. *)
LEMMA ThreadWaits ==
  ASSUME Typed, TurnTyped, Located, Waiting, Thread
  PROVE  Waiting'
<1>1. CASE ScriptCall
  BY <1>1, ScriptCallWaits
<1>2. CASE ScriptEnds \/ SettleSpell
  BY <1>2, EndingWaits
<1>3. CASE StartPass \/ NextDeath
  BY <1>3, DeathsWait
<1>4. CASE TellOfDeath
  BY <1>4, TellWaits
<1>5. CASE \E applied \in BOOLEAN : FinishPass(applied)
  BY <1>5, PassWaits
<1>. QED
  BY <1>1, <1>2, <1>3, <1>4, <1>5 DEF Thread

(* At the beginning there are no permanents. *)
LEMMA SettledInit ==
  ASSUME Init
  PROVE  SettledInv
<1>1. DOMAIN zm.board = {} /\ agenda = <<>> /\ asked = TRUE
  BY DEF Init
<1>2. Attachments(zm)
  BY <1>1 DEF Attachments
<1>3. Quiet(zm)
  BY <1>1 DEF Quiet, Dying, Orphans, Cancelling, Legends, OnBattlefield
<1>. QED
  BY <1>1, <1>2, <1>3, BoardInit DEF SettledInv, Waiting, Idle

(* Every step keeps what is attached and who waits as they must be. *)
LEMMA SettledNext ==
  ASSUME SettledInv, [Next]_vars
  PROVE  SettledInv'
<1>1. Typed /\ TurnTyped /\ Located /\ Attachments(zm) /\ Waiting /\ active \in Players
  BY DEF SettledInv, BoardInv, TurnTyped
<1>2. BoardInv'
  BY BoardNext DEF SettledInv
<1>3. Idle /\ stack # <<>> => Orphans(zm) = {}
  BY <1>1 DEF Waiting, Quiet
<1>4. CASE Act
  BY <1>1, <1>2, <1>3, <1>4, ActAttachments, ActWaits DEF SettledInv
<1>5. CASE Thread
  BY <1>1, <1>2, <1>5, ThreadAttachments, ThreadWaits DEF SettledInv
<1>6. CASE UNCHANGED vars
  <2>1. Attachments(zm')
    BY <1>1, <1>6 DEF vars
  <2>2. Waiting'
    BY <1>1, <1>6 DEF vars, Waiting, Idle
  <2>. QED
    BY <1>2, <2>1, <2>2 DEF SettledInv
<1>. QED
  BY <1>4, <1>5, <1>6 DEF Next

(* Then nothing is left to do or left half done when a player is asked. *)
LEMMA SettledMeans ==
  ASSUME SettledInv
  PROVE  SettledWhenAsked
<1>1. Attachments(zm) /\ Waiting
  BY DEF SettledInv
<1>2. StableWhenAsked
  BY <1>1 DEF StableWhenAsked, Waiting, Quiet
<1>3. AttachmentsAgree
  BY <1>1 DEF AttachmentsAgree, Attachments, OnBattlefield
<1>. QED
  BY <1>2, <1>3 DEF SettledWhenAsked

(* Whenever a player is asked for an action, but for the first question of *)
(* the end step, the state-based actions have nothing left to do and what is *)
(* attached is listed where it is attached, whatever the scripts of dying *)
(* creatures and the callbacks of delayed triggers did on the way. *)
THEOREM BoardSettled == Spec => []SettledWhenAsked
<1>1. Init => SettledInv
  BY SettledInit
<1>2. SettledInv /\ [Next]_vars => SettledInv'
  BY SettledNext
<1>3. SettledInv => SettledWhenAsked
  BY SettledMeans
<1>. QED
  BY <1>1, <1>2, <1>3, PTL DEF Spec
=============================================================================
