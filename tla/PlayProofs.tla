----------------------------- MODULE PlayProofs -----------------------------
(***************************************************************************)
(* Proofs about what a player decides and what comes of it: about Combat,  *)
(* about MatchInput, where the client turns clicks into answers, and about *)
(* Mana, where what she casts is paid for.  They share the lemmas on       *)
(* recursion and sequences at the beginning.                               *)
(*                                                                         *)
(* Combat, for any players, creatures, blockers, powers and effects        *)
(* between the steps: type correctness; the declarations stay consistent   *)
(* (DeclarationsFit), that is, the damage order of an attacker lists its   *)
(* blockers, and only a creature with vigilance is declared twice; and     *)
(* what resolve_combat_damage returns fits the declarations                *)
(* (DamageFitsCombat): an attacker deals its power and no more, one that   *)
(* is blocked reaches the player only with trample, and then only after    *)
(* its blockers have lethal damage, and a creature strikes once, or twice  *)
(* with double strike.                                                     *)
(*                                                                         *)
(* DamageFitsCombat is about the step that deals damage, but what it says  *)
(* was settled several prompts earlier.  The inductive invariant CombatInv *)
(* carries it there: who can be prompted in a step (Phased), what is still *)
(* empty before it (Early), that nobody who is still to declare blockers   *)
(* blocks already (BlocksOpen), that an accepted assignment of damage fits *)
(* the creatures that are on the battlefield until it is dealt             *)
(* (ChoicesHold), and who struck in the first strike step (FirstRound).    *)
(*                                                                         *)
(* MatchInput, for any permanents, cards and prompts and any number of     *)
(* them: no delivery of a prompt is answered twice (AnsweredOnce), every   *)
(* answer is one that its prompt asked for (AnswerFits), and type          *)
(* correctness.  AnswersInv counts what a prompt has left: the one that is *)
(* shown was answered at most as often as it was delivered again.          *)
(* InputInv says what ties a selection to a prompt, though the prompt it   *)
(* was made under need not be the one that is shown: it belongs to the     *)
(* prompt that was loaded (Selected, Picked), which is the shown one when  *)
(* a button is pressed (PanelLoaded); and whoever is flagged as attacking  *)
(* was named by a prompt, the loaded one unless one was delivered again    *)
(* (Flagged).                                                              *)
(*                                                                         *)
(* Mana, for any cards, costs, lands and colours: no mana and no card      *)
(* appears or vanishes (NothingVanishes), whatever comes to the stack is   *)
(* paid for (PaidInFull), and what is offered for a cost of at most one    *)
(* hybrid symbol can be paid (OfferedIsPayable).  A payment is followed    *)
(* symbol by symbol: after each, what is left and what is paid make up the *)
(* pool that it began with (PayingFrom), and the totals have changed by    *)
(* the symbols that are done.  SettlementOf says what paying with lands    *)
(* may come to, Booked what it does to the books.                          *)
(*                                                                         *)
(* AtPositions, Left, Without, SumFunctionOnSet, HybridsPaid, GenericPaid, *)
(* AutoTap and Convoked are defined by recursive functions.  What each     *)
(* computes is proved by exhibiting a function that satisfies its          *)
(* equations (FollowsExists, SumsExist), which is therefore the function   *)
(* that CHOOSE returns.                                                    *)
(***************************************************************************)
EXTENDS Combat, MatchInput, Mana, FiniteSetTheorems, SequenceTheorems,
        WellFoundedInduction, NaturalsInduction, TLAPS

-----------------------------------------------------------------------------
(* Recursive functions on numbers, and the elements of a sequence at some  *)
(* of its positions                                                        *)

(* What holds of 0, and of k + 1 if it does of k, holds of all numbers to n. *)
LEMMA UpTo ==
  ASSUME NEW n \in Nat, NEW good, 0 \in good,
         \A k \in 0 .. n : k \in good /\ k < n => k + 1 \in good
  PROVE  \A k \in 0 .. n : k \in good
<1>. DEFINE bad == {k \in 0 .. n : k \notin good}
<1>1. SUFFICES ASSUME bad # {}
               PROVE  FALSE
  OBVIOUS
<1>2. bad \subseteq Nat
  OBVIOUS
<1>3. PICK k \in bad : \A j \in bad : <<j, k>> \notin OpToRel(<, Nat)
  <2>. HIDE DEF bad
  <2>. QED
    BY <1>1, <1>2, WFMin, NatLessThanWellFounded
<1>4. \A j \in bad : ~(j < k)
  BY <1>2, <1>3 DEF OpToRel
<1>5. k \in 0 .. n /\ k \notin good /\ k # 0
  BY <1>3
<1>6. k - 1 \in 0 .. n /\ k - 1 < n /\ k - 1 < k /\ (k - 1) + 1 = k
  BY <1>5
<1>7. k - 1 \notin bad
  <2>. HIDE DEF bad
  <2>. QED
    BY <1>4, <1>6
<1>8. k - 1 \in good
  BY <1>6, <1>7
<1>. QED
  BY <1>5, <1>6, <1>8

(* A function on 0 .. n that each of its values determines the next of. *)
Follows(g, n, base, next) ==
  /\ g[0] = base
  /\ \A i \in 1 .. n : g[i] = next[<<i, g[i - 1]>>]

(* Such a function exists: it is built number by number. *)
LEMMA FollowsExists ==
  ASSUME NEW n \in Nat, NEW D, NEW base \in D, NEW next \in [(1 .. n) \X D -> D]
  PROVE  \E g \in [0 .. n -> D] : Follows(g, n, base, next)
<1>. DEFINE good == {k \in 0 .. n : \E g \in [0 .. k -> D] : Follows(g, k, base, next)}
<1>1. 0 \in good
  <2>. DEFINE g == [i \in 0 .. 0 |-> base]
  <2>1. g \in [0 .. 0 -> D] /\ Follows(g, 0, base, next)
    BY DEF Follows
  <2>. HIDE DEF g
  <2>. QED
    BY <2>1
<1>2. ASSUME NEW k \in 0 .. n, k \in good, k < n
      PROVE  k + 1 \in good
  <2>1. PICK g \in [0 .. k -> D] : Follows(g, k, base, next)
    BY <1>2
  <2>. DEFINE x == next[<<k + 1, g[k]>>]
              h == [i \in 0 .. k + 1 |-> IF i = k + 1 THEN x ELSE g[i]]
  <2>2. k \in Nat /\ k + 1 \in 1 .. n /\ k + 1 \in 0 .. n /\ (k + 1) - 1 = k /\ k + 1 # 0
        /\ k \in 0 .. k
    BY <1>2
  <2>3. g[k] \in D
    BY <2>2
  <2>4. x \in D
    BY <2>2, <2>3
  <2>. HIDE DEF x
  <2>5. /\ \A i \in 0 .. k : h[i] = g[i]
        /\ h[k + 1] = x
    <3>1. \A i \in 0 .. k : i \in 0 .. k + 1 /\ i # k + 1
      BY <2>2
    <3>2. k + 1 \in 0 .. k + 1
      BY <2>2
    <3>. QED
      BY <3>1, <3>2
  <2>6. h \in [0 .. k + 1 -> D]
    BY <2>2, <2>4
  <2>7. Follows(h, k + 1, base, next)
    <3>. HIDE DEF h
    <3>1. h[0] = base
      <4>1. 0 \in 0 .. k
        BY <2>2
      <4>. QED
        BY <2>1, <2>5, <4>1 DEF Follows
    <3>2. ASSUME NEW i \in 1 .. k + 1
          PROVE  h[i] = next[<<i, h[i - 1]>>]
      <4>1. CASE i = k + 1
        BY <2>2, <2>5, <4>1 DEF x
      <4>2. CASE i # k + 1
        <5>1. i \in 1 .. k /\ i \in 0 .. k /\ i - 1 \in 0 .. k
          BY <2>2, <4>2
        <5>. QED
          BY <2>1, <2>5, <5>1 DEF Follows
      <4>. QED
        BY <4>1, <4>2
    <3>. QED
      BY <3>1, <3>2 DEF Follows
  <2>. HIDE DEF h
  <2>. QED
    BY <2>2, <2>6, <2>7
<1>. HIDE DEF good
<1>3. n \in good
  BY <1>1, <1>2, UpTo
<1>. QED
  BY <1>3 DEF good

KeptNext(s, I, S) ==
  [p \in (1 .. Len(s)) \X Seq(S) |-> IF p[1] \in I THEN Append(p[2], s[p[1]]) ELSE p[2]]

(* AtPositions(s, I) goes through s and appends what is at the positions   *)
(* in I.                                                                   *)
LEMMA AtPositionsIs ==
  ASSUME NEW S, NEW s \in Seq(S), NEW I
  PROVE  \E g \in [0 .. Len(s) -> Seq(S)] :
            /\ AtPositions(s, I) = g[Len(s)]
            /\ g[0] = <<>>
            /\ \A i \in 1 .. Len(s) : g[i] = IF i \in I THEN Append(g[i - 1], s[i]) ELSE g[i - 1]
<1>. DEFINE n == Len(s)
            Kept == CHOOSE kept : kept = [i \in 0 .. Len(s) |->
                      IF i = 0 THEN <<>>
                      ELSE IF i \in I THEN Append(kept[i - 1], s[i]) ELSE kept[i - 1]]
<1>1. n \in Nat /\ \A i \in 1 .. n : s[i] \in S
  BY ElementOfSeq, LenProperties
<1>2. KeptNext(s, I, S) \in [(1 .. n) \X Seq(S) -> Seq(S)]
  <2>1. ASSUME NEW p \in (1 .. n) \X Seq(S)
        PROVE  (IF p[1] \in I THEN Append(p[2], s[p[1]]) ELSE p[2]) \in Seq(S)
    <3>1. p[1] \in 1 .. n /\ p[2] \in Seq(S)
      OBVIOUS
    <3>2. s[p[1]] \in S
      BY <1>1, <3>1
    <3>3. Append(p[2], s[p[1]]) \in Seq(S)
      BY <3>1, <3>2, AppendProperties
    <3>. QED
      BY <3>1, <3>3
  <2>. QED
    BY <2>1 DEF KeptNext
<1>3. <<>> \in Seq(S)
  BY EmptySeq
<1>4. PICK g \in [0 .. n -> Seq(S)] : Follows(g, n, <<>>, KeptNext(s, I, S))
  <2>. HIDE DEF n
  <2>. QED
    BY <1>1, <1>2, <1>3, FollowsExists
<1>5. \A i \in 1 .. n : /\ i - 1 \in 0 .. n /\ i # 0
                        /\ g[i] = IF i \in I THEN Append(g[i - 1], s[i]) ELSE g[i - 1]
  <2>1. SUFFICES ASSUME NEW i \in 1 .. n
                 PROVE  /\ i - 1 \in 0 .. n /\ i # 0
                        /\ g[i] = IF i \in I THEN Append(g[i - 1], s[i]) ELSE g[i - 1]
    OBVIOUS
  <2>2. i - 1 \in 0 .. n /\ i # 0
    BY <1>1
  <2>3. <<i, g[i - 1]>> \in (1 .. Len(s)) \X Seq(S)
    BY <2>2
  <2>4. g[i] = KeptNext(s, I, S)[<<i, g[i - 1]>>]
    BY <1>4 DEF Follows
  <2>. QED
    BY <2>2, <2>3, <2>4 DEF KeptNext
<1>6. g = [i \in 0 .. n |-> IF i = 0 THEN <<>>
                            ELSE IF i \in I THEN Append(g[i - 1], s[i]) ELSE g[i - 1]]
  <2>1. \A i \in 0 .. n : g[i] = IF i = 0 THEN <<>>
                            ELSE IF i \in I THEN Append(g[i - 1], s[i]) ELSE g[i - 1]
    <3>1. g[0] = <<>>
      BY <1>4 DEF Follows
    <3>2. \A i \in 0 .. n : i = 0 \/ i \in 1 .. n
      BY <1>1
    <3>. HIDE DEF n
    <3>. QED
      BY <1>5, <3>1, <3>2
  <2>2. g = [i \in 0 .. n |-> g[i]]
    OBVIOUS
  <2>. QED
    BY <2>1, <2>2, Zenon
<1>7. Kept = [i \in 0 .. n |-> IF i = 0 THEN <<>>
                               ELSE IF i \in I THEN Append(Kept[i - 1], s[i]) ELSE Kept[i - 1]]
  BY <1>6, Zenon
<1>8. AtPositions(s, I) = Kept[n]
  BY DEF AtPositions
<1>. HIDE DEF Kept
<1>9. \A i \in 0 .. n : Kept[i] = g[i]
  <2>. DEFINE good == {i \in 0 .. n : Kept[i] = g[i]}
  <2>1. 0 \in good
    <3>1. 0 \in 0 .. n
      BY <1>1
    <3>2. Kept[0] = <<>> /\ g[0] = <<>>
      BY <1>4, <1>7, <3>1 DEF Follows
    <3>. QED
      BY <3>1, <3>2
  <2>2. ASSUME NEW k \in 0 .. n, k \in good, k < n
        PROVE  k + 1 \in good
    <3>1. k + 1 \in 1 .. n /\ k + 1 \in 0 .. n /\ (k + 1) - 1 = k /\ k + 1 # 0
      BY <1>1, <2>2
    <3>2. Kept[k + 1] = IF k + 1 \in I THEN Append(Kept[k], s[k + 1]) ELSE Kept[k]
      BY <1>7, <3>1
    <3>3. g[k + 1] = IF k + 1 \in I THEN Append(g[k], s[k + 1]) ELSE g[k]
      BY <1>5, <3>1
    <3>. QED
      BY <2>2, <3>1, <3>2, <3>3
  <2>. HIDE DEF good
  <2>3. \A k \in 0 .. n : k \in good
    BY <1>1, <2>1, <2>2, UpTo
  <2>. QED
    BY <2>3 DEF good
<1>10. n \in 0 .. n
  BY <1>1
<1>. QED
  BY <1>4, <1>5, <1>8, <1>9, <1>10 DEF Follows

(* The positions in s of the elements of t, which are those in I, in order. *)
PicksOut(pos, t, s, I, k) ==
  /\ pos \in [1 .. Len(t) -> I \cap (1 .. k)]
  /\ \A j \in 1 .. Len(t) : t[j] = s[pos[j]]
  /\ \A i, j \in 1 .. Len(t) : i < j => pos[i] < pos[j]
  /\ \A i \in I \cap (1 .. k) : \E j \in 1 .. Len(t) : pos[j] = i

(* So it lists what is at those positions, each once and in order. *)
LEMMA AtPositionsPicks ==
  ASSUME NEW S, NEW s \in Seq(S), NEW I
  PROVE  /\ AtPositions(s, I) \in Seq(S)
         /\ \E pos : PicksOut(pos, AtPositions(s, I), s, I, Len(s))
<1>1. PICK g \in [0 .. Len(s) -> Seq(S)] :
            /\ AtPositions(s, I) = g[Len(s)]
            /\ g[0] = <<>>
            /\ \A i \in 1 .. Len(s) : g[i] = IF i \in I THEN Append(g[i - 1], s[i]) ELSE g[i - 1]
  BY AtPositionsIs
<1>. DEFINE n == Len(s)
            good == {k \in 0 .. n : \E pos : PicksOut(pos, g[k], s, I, k)}
<1>2. n \in Nat /\ n \in 0 .. n /\ 0 \in 0 .. n
  BY LenProperties
<1>3. 0 \in good
  <2>. DEFINE pos == [i \in 1 .. 0 |-> 0]
  <2>1. Len(g[0]) = 0
    BY <1>1
  <2>2. pos \in [1 .. 0 -> I \cap (1 .. 0)]
    OBVIOUS
  <2>3. PicksOut(pos, g[0], s, I, 0)
    BY <2>1, <2>2 DEF PicksOut
  <2>. HIDE DEF pos
  <2>. QED
    BY <1>2, <2>3
<1>4. ASSUME NEW k \in 0 .. n, k \in good, k < n
      PROVE  k + 1 \in good
  <2>. DEFINE t == g[k]
  <2>1. PICK pos : PicksOut(pos, t, s, I, k)
    BY <1>4
  <2>2. k \in Nat /\ k + 1 \in 1 .. n /\ k + 1 \in 0 .. n /\ (k + 1) - 1 = k
    BY <1>2, <1>4
  <2>3. t \in Seq(S) /\ Len(t) \in Nat
    BY <2>2, LenProperties
  <2>4. CASE k + 1 \in I
    <3>. DEFINE u == Append(t, s[k + 1])
                m == Len(t)
                p == [i \in 1 .. m + 1 |-> IF i = m + 1 THEN k + 1 ELSE pos[i]]
    <3>1. g[k + 1] = u
      BY <1>1, <2>2, <2>4
    <3>2. s[k + 1] \in S
      BY <2>2, ElementOfSeq
    <3>3. /\ Len(u) = m + 1 /\ u[m + 1] = s[k + 1]
          /\ \A i \in 1 .. m : u[i] = t[i]
      BY <2>3, <3>2, AppendProperties
    <3>4. /\ p[m + 1] = k + 1
          /\ \A i \in 1 .. m : p[i] = pos[i] /\ i \in 1 .. m + 1
      BY <2>3
    <3>5. \A i \in 1 .. m : pos[i] \in I /\ pos[i] \in 1 .. k /\ t[i] = s[pos[i]]
      BY <2>1 DEF PicksOut
    <3>6. \A i \in 1 .. m + 1 : i \in 1 .. m \/ i = m + 1
      BY <2>3
    <3>7. DOMAIN p = 1 .. m + 1
      OBVIOUS
    <3>a. p = [i \in 1 .. m + 1 |-> p[i]]
      OBVIOUS
    <3>. HIDE DEF p, u, m, t
    <3>8. p \in [1 .. m + 1 -> I \cap (1 .. k + 1)]
      <4>1. \A i \in 1 .. m + 1 : p[i] \in I \cap (1 .. k + 1)
        BY <2>2, <2>4, <3>4, <3>5, <3>6
      <4>. QED
        BY <3>a, <4>1
    <3>9. \A i \in 1 .. m + 1 : u[i] = s[p[i]]
      BY <3>3, <3>4, <3>5, <3>6
    <3>10. \A i, j \in 1 .. m + 1 : i < j => p[i] < p[j]
      <4>1. SUFFICES ASSUME NEW i \in 1 .. m + 1, NEW j \in 1 .. m + 1, i < j
                     PROVE  p[i] < p[j]
        OBVIOUS
      <4>2. i \in 1 .. m
        BY <2>3, <4>1 DEF m
      <4>3. CASE j = m + 1
        BY <2>2, <3>4, <3>5, <4>2, <4>3
      <4>4. CASE j \in 1 .. m
        BY <2>1, <3>4, <4>1, <4>2, <4>4 DEF PicksOut, m
      <4>. QED
        BY <3>6, <4>3, <4>4
    <3>11. \A i \in I \cap (1 .. k + 1) : \E j \in 1 .. m + 1 : p[j] = i
      <4>1. SUFFICES ASSUME NEW i \in I \cap (1 .. k + 1)
                     PROVE  \E j \in 1 .. m + 1 : p[j] = i
        OBVIOUS
      <4>2. CASE i = k + 1
        <5>1. m + 1 \in 1 .. m + 1
          BY <2>3 DEF m
        <5>. QED
          BY <3>4, <4>2, <5>1
      <4>3. CASE i # k + 1
        <5>1. i \in I \cap (1 .. k)
          BY <2>2, <4>3
        <5>2. PICK j \in 1 .. m : pos[j] = i
          BY <2>1, <5>1 DEF PicksOut, m
        <5>. QED
          BY <3>4, <5>2
      <4>. QED
        BY <4>2, <4>3
    <3>12. PicksOut(p, g[k + 1], s, I, k + 1)
      BY <3>1, <3>3, <3>8, <3>9, <3>10, <3>11 DEF PicksOut
    <3>. QED
      BY <2>2, <3>12
  <2>5. CASE k + 1 \notin I
    <3>1. g[k + 1] = t
      BY <1>1, <2>2, <2>5
    <3>2. I \cap (1 .. k + 1) = I \cap (1 .. k)
      BY <2>2, <2>5
    <3>3. PicksOut(pos, g[k + 1], s, I, k + 1)
      BY <2>1, <3>1, <3>2 DEF PicksOut
    <3>. QED
      BY <2>2, <3>3
  <2>. QED
    BY <2>4, <2>5
<1>5. n \in good
  <2>. HIDE DEF good
  <2>1. \A k \in 0 .. n : k \in good
    BY <1>2, <1>3, <1>4, UpTo
  <2>. QED
    BY <1>2, <2>1
<1>. QED
  BY <1>1, <1>2, <1>5

-----------------------------------------------------------------------------

(* Sums over a finite set.  SumFunctionOnSet takes the elements in the order *)
(* in which CHOOSE has them; no other order gives another sum.               *)

Pick(T) == CHOOSE x \in T : TRUE

SumStep(F, f, T) == IF T = {} THEN 0 ELSE f[Pick(T)] + F[T \ {Pick(T)}]

SumsUp(F, f, S) == F = [T \in SUBSET S |-> SumStep(F, f, T)]

(* CHOOSE picks an element of a set that has one. *)
LEMMA PickIn ==
  ASSUME NEW T, T # {}
  PROVE  Pick(T) \in T
BY DEF Pick

(* A set without one of its elements is smaller. *)
LEMMA SmallerSets ==
  ASSUME NEW S, IsFiniteSet(S), NEW T \in SUBSET S, NEW x \in T
  PROVE  /\ Cardinality(T) \in Nat \ {0} /\ Cardinality(T) <= Cardinality(S)
         /\ T \ {x} \in SUBSET S /\ Cardinality(T \ {x}) = Cardinality(T) - 1
<1>1. IsFiniteSet(T) /\ Cardinality(T) <= Cardinality(S)
  BY FS_Subset
<1>2. Cardinality(T) \in Nat /\ Cardinality(T) # 0
  BY <1>1, FS_CardinalityType, FS_EmptySet
<1>3. Cardinality(T \ {x}) = Cardinality(T) - 1
  BY <1>1, FS_RemoveElement
<1>. QED
  BY <1>1, <1>2, <1>3

(* There is a function that sums f over every subset of S. *)
LEMMA SumsExist ==
  ASSUME NEW S, IsFiniteSet(S), NEW f, \A x \in S : f[x] \in Int
  PROVE  \E F \in [SUBSET S -> Int] : SumsUp(F, f, S)
<1>. DEFINE n == Cardinality(S)
            Upto(k) == {T \in SUBSET S : Cardinality(T) <= k}
            good == {k \in 0 .. n : \E F \in [Upto(k) -> Int] :
                        \A T \in Upto(k) : F[T] = SumStep(F, f, T)}
<1>1. n \in Nat /\ n \in 0 .. n /\ 0 \in 0 .. n
  BY FS_CardinalityType
<1>2. 0 \in good
  <2>. DEFINE F == [T \in Upto(0) |-> 0]
  <2>1. ASSUME NEW T \in Upto(0)
        PROVE  T = {}
    <3>1. IsFiniteSet(T) /\ Cardinality(T) \in Nat /\ Cardinality(T) <= 0
      BY FS_Subset, FS_CardinalityType
    <3>. QED
      BY <3>1, FS_EmptySet
  <2>2. F \in [Upto(0) -> Int]
    OBVIOUS
  <2>3. \A T \in Upto(0) : F[T] = SumStep(F, f, T)
    BY <2>1 DEF SumStep
  <2>. HIDE DEF F
  <2>. QED
    BY <1>1, <2>2, <2>3
<1>3. ASSUME NEW k \in 0 .. n, k \in good, k < n
      PROVE  k + 1 \in good
  <2>1. PICK F \in [Upto(k) -> Int] : \A T \in Upto(k) : F[T] = SumStep(F, f, T)
    BY <1>3
  <2>2. k \in Nat /\ k + 1 \in 0 .. n
    BY <1>1, <1>3
  <2>. DEFINE G == [T \in Upto(k + 1) |-> IF T \in Upto(k) THEN F[T] ELSE SumStep(F, f, T)]
  <2>3. ASSUME NEW T \in Upto(k + 1), T # {}
        PROVE  T \ {Pick(T)} \in Upto(k) /\ f[Pick(T)] \in Int
    <3>1. Pick(T) \in T
      BY <2>3, PickIn
    <3>2. /\ Cardinality(T) \in Nat /\ T \ {Pick(T)} \in SUBSET S
          /\ Cardinality(T \ {Pick(T)}) = Cardinality(T) - 1
      BY <3>1, SmallerSets
    <3>3. Cardinality(T) <= k + 1
      BY <2>3
    <3>. QED
      BY <2>2, <3>1, <3>2, <3>3
  <2>4. ASSUME NEW T \in Upto(k + 1)
        PROVE  SumStep(F, f, T) \in Int
    BY <2>3 DEF SumStep
  <2>5. G \in [Upto(k + 1) -> Int]
    BY <2>4
  <2>6. \A T \in Upto(k) : T \in Upto(k + 1)
    <3>1. SUFFICES ASSUME NEW T \in Upto(k)
                   PROVE  Cardinality(T) <= k + 1
      OBVIOUS
    <3>2. Cardinality(T) \in Nat /\ Cardinality(T) <= k
      BY FS_Subset, FS_CardinalityType
    <3>. QED
      BY <2>2, <3>2
  <2>7. \A T \in Upto(k) : G[T] = F[T]
    BY <2>6
  <2>8. \A T \in Upto(k + 1) : G[T] = SumStep(F, f, T)
    BY <2>1
  <2>. HIDE DEF G, Upto
  <2>9. \A T \in Upto(k + 1) : G[T] = SumStep(G, f, T)
    BY <2>3, <2>7, <2>8 DEF SumStep
  <2>. QED
    BY <2>2, <2>5, <2>9
<1>4. n \in good
  <2>. HIDE DEF good
  <2>1. \A k \in 0 .. n : k \in good
    BY <1>1, <1>2, <1>3, UpTo
  <2>. QED
    BY <1>1, <2>1
<1>5. PICK F \in [Upto(n) -> Int] : \A T \in Upto(n) : F[T] = SumStep(F, f, T)
  BY <1>4
<1>6. Upto(n) = SUBSET S
  BY FS_Subset
<1>7. F \in [SUBSET S -> Int]
  BY <1>5, <1>6
<1>8. F = [T \in SUBSET S |-> F[T]]
  BY <1>7
<1>9. F = [T \in SUBSET S |-> SumStep(F, f, T)]
  BY <1>5, <1>6, <1>8
<1>. QED
  BY <1>7, <1>9 DEF SumsUp

(* It depends only on what f is on the subset. *)
LEMMA SumsAgree ==
  ASSUME NEW S, IsFiniteSet(S), NEW f, NEW F, SumsUp(F, f, S),
         NEW T \in SUBSET S, NEW g, NEW G, SumsUp(G, g, T),
         \A x \in T : f[x] = g[x]
  PROVE  \A U \in SUBSET T : F[U] = G[U]
<1>. DEFINE n == Cardinality(T)
            good == {k \in 0 .. n : \A U \in SUBSET T : Cardinality(U) <= k => F[U] = G[U]}
<1>1. IsFiniteSet(T) /\ n \in Nat /\ n \in 0 .. n /\ 0 \in 0 .. n
  BY FS_Subset, FS_CardinalityType
<1>2. ASSUME NEW U \in SUBSET T
      PROVE  F[U] = SumStep(F, f, U) /\ G[U] = SumStep(G, g, U)
  BY DEF SumsUp
<1>3. 0 \in good
  <2>1. SUFFICES ASSUME NEW U \in SUBSET T, Cardinality(U) <= 0
                 PROVE  F[U] = G[U]
    BY <1>1
  <2>2. U = {}
    BY <1>1, <2>1, FS_Subset, FS_CardinalityType, FS_EmptySet
  <2>. QED
    BY <1>2, <2>2 DEF SumStep
<1>4. ASSUME NEW k \in 0 .. n, k \in good, k < n
      PROVE  k + 1 \in good
  <2>1. SUFFICES ASSUME NEW U \in SUBSET T, Cardinality(U) <= k + 1
                 PROVE  F[U] = G[U]
    BY <1>1, <1>4
  <2>2. CASE U = {}
    BY <1>2, <2>2 DEF SumStep
  <2>3. CASE U # {}
    <3>1. Pick(U) \in U
      BY <2>3, PickIn
    <3>2. /\ Cardinality(U) \in Nat /\ U \ {Pick(U)} \in SUBSET T
          /\ Cardinality(U \ {Pick(U)}) = Cardinality(U) - 1
      BY <1>1, <3>1, SmallerSets
    <3>3. F[U \ {Pick(U)}] = G[U \ {Pick(U)}]
      BY <1>1, <1>4, <2>1, <3>2
    <3>. QED
      BY <1>2, <2>3, <3>1, <3>3 DEF SumStep
  <2>. QED
    BY <2>2, <2>3
<1>5. n \in good
  <2>. HIDE DEF good
  <2>1. \A k \in 0 .. n : k \in good
    BY <1>1, <1>3, <1>4, UpTo
  <2>. QED
    BY <1>1, <2>1
<1>. QED
  BY <1>1, <1>5, FS_Subset

\* What the library's sum over a set computes with.
Sums(f, T) ==
  CHOOSE iter : iter = [s \in SUBSET T |->
    IF s = {} THEN 0 ELSE f[CHOOSE x \in s : TRUE] + iter[s \ {CHOOSE x \in s : TRUE}]]

(* It is the one that SumFunctionOnSet computes with. *)
LEMMA SumIs ==
  ASSUME NEW S, IsFiniteSet(S), NEW f, \A x \in S : f[x] \in Int
  PROVE  /\ SumFunctionOnSet(f, S) = Sums(f, S)[S]
         /\ SumsUp(Sums(f, S), f, S)
         /\ Sums(f, S) \in [SUBSET S -> Int]
<1>1. SumFunctionOnSet(f, S) = Sums(f, S)[S]
  BY DEF SumFunctionOnSet, FoldFunctionOnSet, MapThenFoldSet, Sums
<1>2. PICK F \in [SUBSET S -> Int] : SumsUp(F, f, S)
  BY SumsExist
<1>3. F = [s \in SUBSET S |->
    IF s = {} THEN 0 ELSE f[CHOOSE x \in s : TRUE] + F[s \ {CHOOSE x \in s : TRUE}]]
  BY <1>2, Zenon DEF SumsUp, SumStep, Pick
<1>4. Sums(f, S) = [s \in SUBSET S |->
    IF s = {} THEN 0 ELSE f[CHOOSE x \in s : TRUE] + Sums(f, S)[s \ {CHOOSE x \in s : TRUE}]]
  BY <1>3, Zenon DEF Sums
<1>5. SumsUp(Sums(f, S), f, S)
  BY <1>4, Zenon DEF SumsUp, SumStep, Pick
<1>6. \A U \in SUBSET S : F[U] = Sums(f, S)[U]
  BY <1>2, <1>5, SumsAgree
<1>7. DOMAIN Sums(f, S) = SUBSET S /\ Sums(f, S) = [U \in SUBSET S |-> Sums(f, S)[U]]
  BY <1>5 DEF SumsUp
<1>8. Sums(f, S) \in [SUBSET S -> Int]
  BY <1>2, <1>6, <1>7
<1>. QED
  BY <1>1, <1>5, <1>8

(* The sum of integers is an integer. *)
LEMMA SumType ==
  ASSUME NEW S, IsFiniteSet(S), NEW f, \A x \in S : f[x] \in Int
  PROVE  SumFunctionOnSet(f, S) \in Int
<1>1. SumFunctionOnSet(f, S) = Sums(f, S)[S] /\ Sums(f, S) \in [SUBSET S -> Int]
  BY SumIs
<1>. QED
  BY <1>1

(* The sum over the empty set is 0. *)
LEMMA SumEmpty ==
  ASSUME NEW f
  PROVE  SumFunctionOnSet(f, {}) = 0
<1>1. IsFiniteSet({}) /\ \A x \in {} : f[x] \in Int
  BY FS_EmptySet
<1>2. SumFunctionOnSet(f, {}) = Sums(f, {})[{}] /\ SumsUp(Sums(f, {}), f, {})
  BY <1>1, SumIs
<1>. QED
  BY <1>2 DEF SumsUp, SumStep

(* Functions that agree on a set have the same sum over it. *)
LEMMA SumSame ==
  ASSUME NEW S, IsFiniteSet(S), NEW f, NEW g, \A x \in S : f[x] \in Int /\ f[x] = g[x]
  PROVE  SumFunctionOnSet(f, S) = SumFunctionOnSet(g, S)
<1>1. \A x \in S : g[x] \in Int /\ f[x] \in Int
  OBVIOUS
<1>2. /\ SumFunctionOnSet(f, S) = Sums(f, S)[S] /\ SumsUp(Sums(f, S), f, S)
      /\ SumFunctionOnSet(g, S) = Sums(g, S)[S] /\ SumsUp(Sums(g, S), g, S)
  BY <1>1, SumIs
<1>. QED
  BY <1>2, SumsAgree

(* The sum begins with the element that CHOOSE picks. *)
LEMMA SumPick ==
  ASSUME NEW S, IsFiniteSet(S), NEW f, \A x \in S : f[x] \in Int, S # {}
  PROVE  SumFunctionOnSet(f, S) = f[Pick(S)] + SumFunctionOnSet(f, S \ {Pick(S)})
<1>. DEFINE T == S \ {Pick(S)}
<1>1. IsFiniteSet(T) /\ T \in SUBSET S /\ \A x \in T : f[x] \in Int
  BY FS_RemoveElement
<1>2. /\ SumFunctionOnSet(f, S) = Sums(f, S)[S] /\ SumsUp(Sums(f, S), f, S)
      /\ SumFunctionOnSet(f, T) = Sums(f, T)[T] /\ SumsUp(Sums(f, T), f, T)
  BY <1>1, SumIs
<1>3. Sums(f, S)[T] = Sums(f, T)[T]
  BY <1>1, <1>2, SumsAgree
<1>4. Sums(f, S)[S] = SumStep(Sums(f, S), f, S)
  BY <1>2 DEF SumsUp
<1>. QED
  BY <1>2, <1>3, <1>4 DEF SumStep

(* Any element may be taken first. *)
LEMMA SumRemove ==
  ASSUME NEW S, IsFiniteSet(S), NEW f, \A x \in S : f[x] \in Int, NEW y \in S
  PROVE  SumFunctionOnSet(f, S) = f[y] + SumFunctionOnSet(f, S \ {y})
<1>. DEFINE n == Cardinality(S)
            good == {k \in 0 .. n : \A T \in SUBSET S : Cardinality(T) <= k =>
                       \A x \in T : SumFunctionOnSet(f, T) = f[x] + SumFunctionOnSet(f, T \ {x})}
<1>1. n \in Nat /\ n \in 0 .. n /\ 0 \in 0 .. n
  BY FS_CardinalityType
<1>2. 0 \in good
  BY <1>1, SmallerSets
<1>3. ASSUME NEW k \in 0 .. n, k \in good, k < n
      PROVE  k + 1 \in good
  <2>1. SUFFICES ASSUME NEW T \in SUBSET S, Cardinality(T) <= k + 1, NEW x \in T
                 PROVE  SumFunctionOnSet(f, T) = f[x] + SumFunctionOnSet(f, T \ {x})
    BY <1>1, <1>3
  <2>. DEFINE p == Pick(T)
  <2>2. p \in T /\ p \in S /\ x \in S
    BY PickIn
  <2>3. IsFiniteSet(T) /\ IsFiniteSet(T \ {p}) /\ IsFiniteSet(T \ {x}) /\ IsFiniteSet((T \ {p}) \ {x})
    BY FS_Subset
  <2>4. SumFunctionOnSet(f, T) = f[p] + SumFunctionOnSet(f, T \ {p})
    BY <2>3, SumPick
  <2>5. CASE x = p
    BY <2>4, <2>5
  <2>6. CASE x # p
    <3>1. /\ Cardinality(T) \in Nat
          /\ Cardinality(T \ {p}) = Cardinality(T) - 1 /\ Cardinality(T \ {x}) = Cardinality(T) - 1
      BY <2>2, SmallerSets
    <3>2. /\ T \ {p} \in SUBSET S /\ T \ {x} \in SUBSET S /\ x \in T \ {p} /\ p \in T \ {x}
          /\ Cardinality(T \ {p}) <= k /\ Cardinality(T \ {x}) <= k
      BY <2>1, <2>2, <2>6, <3>1
    <3>. HIDE DEF p
    <3>3. \A U \in SUBSET S : Cardinality(U) <= k =>
            \A z \in U : SumFunctionOnSet(f, U) = f[z] + SumFunctionOnSet(f, U \ {z})
      BY <1>3
    <3>4. SumFunctionOnSet(f, T \ {p}) = f[x] + SumFunctionOnSet(f, (T \ {p}) \ {x})
      BY <3>2, <3>3
    <3>5. SumFunctionOnSet(f, T \ {x}) = f[p] + SumFunctionOnSet(f, (T \ {x}) \ {p})
      BY <3>2, <3>3
    <3>6. (T \ {x}) \ {p} = (T \ {p}) \ {x}
      OBVIOUS
    <3>7. SumFunctionOnSet(f, (T \ {p}) \ {x}) \in Int
      BY <2>3, SumType
    <3>8. f[x] \in Int /\ f[p] \in Int
      BY <2>2
    <3>9. SumFunctionOnSet(f, T \ {x}) = f[p] + SumFunctionOnSet(f, (T \ {p}) \ {x})
      BY <3>5, <3>6
    <3>. DEFINE rest == SumFunctionOnSet(f, (T \ {p}) \ {x})
    <3>10. f[p] + (f[x] + rest) = f[x] + (f[p] + rest)
      <4>1. rest \in Int
        BY <3>7
      <4>. HIDE DEF rest
      <4>. QED
        BY <3>8, <4>1
    <3>. QED
      BY <2>4, <3>4, <3>9, <3>10
  <2>. QED
    BY <2>5, <2>6
<1>4. n \in good
  <2>. HIDE DEF good
  <2>1. \A k \in 0 .. n : k \in good
    BY <1>1, <1>2, <1>3, UpTo
  <2>. QED
    BY <1>1, <2>1
<1>. QED
  BY <1>1, <1>4

(* The sum of natural numbers is one. *)
LEMMA SumNat ==
  ASSUME NEW S, IsFiniteSet(S), NEW f, \A x \in S : f[x] \in Nat
  PROVE  SumFunctionOnSet(f, S) \in Nat
<1>. DEFINE n == Cardinality(S)
            good == {k \in 0 .. n : \A T \in SUBSET S : Cardinality(T) <= k =>
                                      SumFunctionOnSet(f, T) \in Nat}
<1>1. n \in Nat /\ n \in 0 .. n /\ 0 \in 0 .. n
  BY FS_CardinalityType
<1>2. ASSUME NEW T \in SUBSET S, T = {}
      PROVE  SumFunctionOnSet(f, T) \in Nat
  BY <1>2, SumEmpty
<1>3. 0 \in good
  <2>1. SUFFICES ASSUME NEW T \in SUBSET S, Cardinality(T) <= 0
                 PROVE  SumFunctionOnSet(f, T) \in Nat
    BY <1>1
  <2>2. T = {}
    BY <2>1, FS_Subset, FS_CardinalityType, FS_EmptySet
  <2>. QED
    BY <1>2, <2>2
<1>4. ASSUME NEW k \in 0 .. n, k \in good, k < n
      PROVE  k + 1 \in good
  <2>1. SUFFICES ASSUME NEW T \in SUBSET S, Cardinality(T) <= k + 1
                 PROVE  SumFunctionOnSet(f, T) \in Nat
    BY <1>1, <1>4
  <2>2. CASE T = {}
    BY <1>2, <2>2
  <2>3. CASE T # {}
    <3>1. PICK x \in T : TRUE
      BY <2>3
    <3>2. /\ Cardinality(T) \in Nat /\ T \ {x} \in SUBSET S
          /\ Cardinality(T \ {x}) = Cardinality(T) - 1
      BY SmallerSets
    <3>3. Cardinality(T \ {x}) <= k
      BY <1>1, <2>1, <3>2
    <3>4. SumFunctionOnSet(f, T \ {x}) \in Nat
      BY <1>4, <3>2, <3>3
    <3>5. IsFiniteSet(T) /\ \A y \in T : f[y] \in Int
      BY FS_Subset
    <3>6. SumFunctionOnSet(f, T) = f[x] + SumFunctionOnSet(f, T \ {x})
      BY <3>5, SumRemove
    <3>. QED
      BY <3>4, <3>6
  <2>. QED
    BY <2>2, <2>3
<1>5. n \in good
  <2>. HIDE DEF good
  <2>1. \A k \in 0 .. n : k \in good
    BY <1>1, <1>3, <1>4, UpTo
  <2>. QED
    BY <1>1, <2>1
<1>. QED
  BY <1>1, <1>5

(* Damage: finite sets of records with an amount. *)

Amounts(D) == [d \in D |-> d.amount]

(* Amount is the sum of the amounts. *)
LEMMA AmountIs ==
  ASSUME NEW D
  PROVE  Amount(D) = SumFunctionOnSet(Amounts(D), D) /\ \A d \in D : Amounts(D)[d] = d.amount
BY DEF Amount, Amounts, SumFunction

(* An amount is an integer, *)
LEMMA AmountType ==
  ASSUME NEW D, IsFiniteSet(D), \A d \in D : d.amount \in Int
  PROVE  Amount(D) \in Int
BY AmountIs, SumType

(* a natural number if nothing negative is dealt, *)
LEMMA AmountNat ==
  ASSUME NEW D, IsFiniteSet(D), \A d \in D : d.amount \in Nat
  PROVE  Amount(D) \in Nat
BY AmountIs, SumNat

(* and 0 if nothing is dealt. *)
LEMMA AmountEmpty == Amount({}) = 0
BY AmountIs, SumEmpty

(* One more item adds its amount. *)
LEMMA AmountAdd ==
  ASSUME NEW D, IsFiniteSet(D), \A d \in D : d.amount \in Int,
         NEW e, e \notin D, e.amount \in Int
  PROVE  IsFiniteSet(D \cup {e}) /\ Amount(D \cup {e}) = Amount(D) + e.amount
<1>. DEFINE E == D \cup {e}
<1>1. IsFiniteSet(E) /\ E \ {e} = D /\ e \in E /\ \A d \in E : d.amount \in Int
  BY FS_AddElement
<1>2. /\ Amount(E) = SumFunctionOnSet(Amounts(E), E) /\ \A d \in E : Amounts(E)[d] = d.amount
      /\ Amount(D) = SumFunctionOnSet(Amounts(D), D) /\ \A d \in D : Amounts(D)[d] = d.amount
  BY AmountIs
<1>3. \A d \in E : Amounts(E)[d] \in Int
  BY <1>1, <1>2
<1>4. SumFunctionOnSet(Amounts(E), E) = Amounts(E)[e] + SumFunctionOnSet(Amounts(E), D)
  <2>. HIDE DEF E
  <2>1. SumFunctionOnSet(Amounts(E), E) = Amounts(E)[e] + SumFunctionOnSet(Amounts(E), E \ {e})
    BY <1>1, <1>3, SumRemove
  <2>. QED
    BY <1>1, <2>1
<1>5. SumFunctionOnSet(Amounts(D), D) = SumFunctionOnSet(Amounts(E), D)
  <2>1. \A d \in D : d \in E /\ Amounts(D)[d] \in Int /\ Amounts(D)[d] = Amounts(E)[d]
    BY <1>2
  <2>. HIDE DEF E
  <2>. QED
    BY <2>1, SumSame
<1>6. Amount(D) \in Int
  BY AmountType
<1>. HIDE DEF E
<1>7. Amount(E) = e.amount + Amount(D)
  BY <1>1, <1>2, <1>4, <1>5
<1>8. Amount(E) = Amount(D) + e.amount
  BY <1>6, <1>7
<1>. QED
  BY <1>1, <1>8 DEF E

(* The amount of one item is its own. *)
LEMMA AmountOne ==
  ASSUME NEW e, e.amount \in Int
  PROVE  IsFiniteSet({e}) /\ Amount({e}) = e.amount
<1>1. {e} = {} \cup {e} /\ IsFiniteSet({}) /\ e \notin {}
  BY FS_EmptySet
<1>2. IsFiniteSet({} \cup {e}) /\ Amount({} \cup {e}) = Amount({}) + e.amount
  BY <1>1, AmountAdd
<1>. QED
  BY <1>1, <1>2, AmountEmpty

(* Damage dealt item by item: no item comes twice, so the amounts add up. *)
LEMMA AmountBySteps ==
  ASSUME NEW n \in Nat, NEW J \in SUBSET (1 .. n), NEW item, NEW total,
         \A j \in J : item[j].amount \in Int,
         \A i, j \in J : item[i] = item[j] => i = j,
         total[0] = 0,
         \A k \in 1 .. n : total[k] = total[k - 1] + (IF k \in J THEN item[k].amount ELSE 0)
  PROVE  IsFiniteSet({item[j] : j \in J}) /\ Amount({item[j] : j \in J}) = total[n]
         /\ total[n] \in Int
<1>. DEFINE D(k) == {item[j] : j \in J \cap (1 .. k)}
            good == {k \in 0 .. n : IsFiniteSet(D(k)) /\ Amount(D(k)) = total[k]}
<1>1. 0 \in 0 .. n /\ n \in 0 .. n
  OBVIOUS
<1>2. 0 \in good
  <2>1. D(0) = {}
    OBVIOUS
  <2>. QED
    BY <1>1, <2>1, AmountEmpty, FS_EmptySet
<1>3. ASSUME NEW k \in 0 .. n, k \in good, k < n
      PROVE  k + 1 \in good
  <2>1. k \in Nat /\ k + 1 \in 1 .. n /\ k + 1 \in 0 .. n /\ (k + 1) - 1 = k
    BY <1>3
  <2>2. IsFiniteSet(D(k)) /\ Amount(D(k)) = total[k] /\ \A d \in D(k) : d.amount \in Int
    BY <1>3
  <2>3. total[k] \in Int
    BY <2>2, AmountType
  <2>4. CASE k + 1 \in J
    <3>1. D(k + 1) = D(k) \cup {item[k + 1]}
      BY <2>1, <2>4
    <3>2. item[k + 1] \notin D(k) /\ item[k + 1].amount \in Int
      BY <2>1, <2>4
    <3>3. total[k + 1] = total[k] + item[k + 1].amount
      BY <2>1, <2>4
    <3>. HIDE DEF D
    <3>4. IsFiniteSet(D(k + 1)) /\ Amount(D(k + 1)) = Amount(D(k)) + item[k + 1].amount
      BY <2>2, <3>1, <3>2, AmountAdd
    <3>. QED
      BY <2>1, <2>2, <3>3, <3>4
  <2>5. CASE k + 1 \notin J
    <3>1. D(k + 1) = D(k)
      BY <2>1, <2>5
    <3>2. total[k + 1] = total[k]
      BY <2>1, <2>3, <2>5
    <3>. HIDE DEF D
    <3>. QED
      BY <2>1, <2>2, <3>1, <3>2
  <2>. QED
    BY <2>4, <2>5
<1>4. n \in good
  <2>. HIDE DEF good
  <2>1. \A k \in 0 .. n : k \in good
    BY <1>1, <1>2, <1>3, UpTo
  <2>. QED
    BY <1>1, <2>1
<1>5. D(n) = {item[j] : j \in J}
  OBVIOUS
<1>6. \A d \in D(n) : d.amount \in Int
  OBVIOUS
<1>. HIDE DEF D
<1>7. IsFiniteSet(D(n)) /\ Amount(D(n)) = total[n]
  BY <1>4
<1>. QED
  BY <1>5, <1>6, <1>7, AmountType

(* Max and Min of two numbers. *)
LEMMA MaxOf ==
  ASSUME NEW x \in Int
  PROVE  Max({0, x}) = IF x > 0 THEN x ELSE 0
<1>. DEFINE S == {0, x}
<1>1. \E m \in S : \A y \in S : m >= y
  OBVIOUS
<1>2. Max(S) \in S /\ \A y \in S : Max(S) >= y
  BY <1>1 DEF Max
<1>. QED
  BY <1>2

LEMMA MinOf ==
  ASSUME NEW x \in Int, NEW y \in Int
  PROVE  Min({x, y}) = IF x < y THEN x ELSE y
<1>. DEFINE S == {x, y}
<1>1. \E m \in S : \A z \in S : m =< z
  OBVIOUS
<1>2. Min(S) \in S /\ \A z \in S : Min(S) =< z
  BY <1>1 DEF Min
<1>. QED
  BY <1>2

LeftNext(a, bs, n) ==
  [p \in (1 .. n) \X Int |->
     IF OnBoard(bs[p[1]]) THEN Max({0, p[2] - Lethal(a, bs[p[1]])}) ELSE p[2]]

Lefts(a, bs, j) ==
  CHOOSE left : left = [k \in 0 .. j |->
    IF k = 0 THEN board[a].power
    ELSE IF OnBoard(bs[k]) THEN Max({0, left[k - 1] - Lethal(a, bs[k])})
    ELSE left[k - 1]]

(* What is left of the power of a after its first j blockers. *)
LEMMA LeftIs ==
  ASSUME NEW a, NEW bs, NEW n \in Nat, board[a].power \in Int,
         \A k \in 1 .. n : OnBoard(bs[k]) => Lethal(a, bs[k]) \in Int
  PROVE  /\ \A j \in 0 .. n : Left(a, bs, j) \in Int
         /\ Left(a, bs, 0) = board[a].power
         /\ \A j \in 1 .. n : Left(a, bs, j) =
              IF OnBoard(bs[j]) THEN Max({0, Left(a, bs, j - 1) - Lethal(a, bs[j])})
              ELSE Left(a, bs, j - 1)
<1>1. LeftNext(a, bs, n) \in [(1 .. n) \X Int -> Int]
  <2>1. ASSUME NEW p \in (1 .. n) \X Int
        PROVE  (IF OnBoard(bs[p[1]]) THEN Max({0, p[2] - Lethal(a, bs[p[1]])}) ELSE p[2]) \in Int
    <3>1. p[1] \in 1 .. n /\ p[2] \in Int
      OBVIOUS
    <3>2. CASE OnBoard(bs[p[1]])
      <4>1. p[2] - Lethal(a, bs[p[1]]) \in Int
        BY <3>1, <3>2
      <4>. QED
        BY <3>2, <4>1, MaxOf
    <3>. QED
      BY <3>1, <3>2
  <2>. QED
    BY <2>1 DEF LeftNext
<1>2. PICK g \in [0 .. n -> Int] : Follows(g, n, board[a].power, LeftNext(a, bs, n))
  BY <1>1, FollowsExists
<1>3. \A i \in 1 .. n : /\ i - 1 \in 0 .. n /\ i # 0
                        /\ g[i] = IF OnBoard(bs[i]) THEN Max({0, g[i - 1] - Lethal(a, bs[i])})
                                  ELSE g[i - 1]
  <2>1. SUFFICES ASSUME NEW i \in 1 .. n
                 PROVE  /\ i - 1 \in 0 .. n /\ i # 0
                        /\ g[i] = IF OnBoard(bs[i]) THEN Max({0, g[i - 1] - Lethal(a, bs[i])})
                                  ELSE g[i - 1]
    OBVIOUS
  <2>2. i - 1 \in 0 .. n /\ i # 0
    OBVIOUS
  <2>3. <<i, g[i - 1]>> \in (1 .. n) \X Int
    BY <2>2
  <2>4. g[i] = LeftNext(a, bs, n)[<<i, g[i - 1]>>]
    BY <1>2 DEF Follows
  <2>. QED
    BY <2>2, <2>3, <2>4 DEF LeftNext
<1>4. ASSUME NEW j \in 0 .. n
      PROVE  Left(a, bs, j) = g[j]
  <2>. DEFINE L == Lefts(a, bs, j)
              f == [k \in 0 .. j |-> g[k]]
  <2>1. j \in Nat /\ 0 \in 0 .. j /\ j \in 0 .. j
        /\ \A k \in 0 .. j : k \in 0 .. n /\ (k # 0 => k \in 1 .. n /\ k - 1 \in 0 .. j)
    OBVIOUS
  <2>2. g[0] = board[a].power
    BY <1>2 DEF Follows
  <2>3. \A k \in 0 .. j : f[k] = IF k = 0 THEN board[a].power
                       ELSE IF OnBoard(bs[k]) THEN Max({0, f[k - 1] - Lethal(a, bs[k])})
                       ELSE f[k - 1]
    <3>1. SUFFICES ASSUME NEW k \in 0 .. j
                   PROVE  f[k] = IF k = 0 THEN board[a].power
                       ELSE IF OnBoard(bs[k]) THEN Max({0, f[k - 1] - Lethal(a, bs[k])})
                       ELSE f[k - 1]
      OBVIOUS
    <3>2. f[k] = g[k]
      OBVIOUS
    <3>3. CASE k = 0
      BY <2>2, <3>2, <3>3
    <3>4. CASE k # 0
      <4>1. k \in 1 .. n /\ k - 1 \in 0 .. j
        BY <2>1, <3>4
      <4>2. f[k - 1] = g[k - 1]
        BY <4>1
      <4>. HIDE DEF f
      <4>. QED
        BY <1>3, <3>2, <3>4, <4>1, <4>2
    <3>. QED
      BY <3>3, <3>4
  <2>4. f = [k \in 0 .. j |-> IF k = 0 THEN board[a].power
                       ELSE IF OnBoard(bs[k]) THEN Max({0, f[k - 1] - Lethal(a, bs[k])})
                       ELSE f[k - 1]]
    <3>1. f = [k \in 0 .. j |-> f[k]]
      OBVIOUS
    <3>. HIDE DEF f
    <3>. QED
      BY <2>3, <3>1, Zenon
  <2>5. L = [k \in 0 .. j |-> IF k = 0 THEN board[a].power
                       ELSE IF OnBoard(bs[k]) THEN Max({0, L[k - 1] - Lethal(a, bs[k])})
                       ELSE L[k - 1]]
    BY <2>4, Zenon DEF Lefts
  <2>6. Left(a, bs, j) = L[j]
    BY DEF Left, Lefts
  <2>. HIDE DEF L, f
  <2>. DEFINE good == {k \in 0 .. j : L[k] = f[k]}
  <2>7. 0 \in good
    BY <2>1, <2>4, <2>5 DEF good
  <2>8. ASSUME NEW k \in 0 .. j, k \in good, k < j
        PROVE  k + 1 \in good
    <3>1. k + 1 \in 0 .. j /\ k + 1 # 0 /\ (k + 1) - 1 = k
      BY <2>1, <2>8
    <3>2. L[k + 1] = IF OnBoard(bs[k + 1]) THEN Max({0, L[k] - Lethal(a, bs[k + 1])}) ELSE L[k]
      BY <2>5, <3>1
    <3>3. f[k + 1] = IF OnBoard(bs[k + 1]) THEN Max({0, f[k] - Lethal(a, bs[k + 1])}) ELSE f[k]
      BY <2>3, <3>1
    <3>4. L[k] = f[k]
      BY <2>8 DEF good
    <3>. QED
      BY <3>1, <3>2, <3>3, <3>4 DEF good
  <2>. HIDE DEF good
  <2>9. j \in good
    BY <2>1, <2>7, <2>8, UpTo
  <2>. QED
    BY <2>1, <2>6, <2>9 DEF good, f
<1>5. \A j \in 1 .. n : j \in 0 .. n
  OBVIOUS
<1>6. 0 \in 0 .. n /\ g[0] = board[a].power
  BY <1>2 DEF Follows
<1>. QED
  BY <1>3, <1>4, <1>5, <1>6

-----------------------------------------------------------------------------
(* The inductive invariant *)

\* The declared attackers.
Attacking == {attackers[i].attacker : i \in DOMAIN attackers}

\* The list of people to prompt in this step is made.
Prompted == todo # Waiting

\* Steps in which nobody is prompted from a list.
Quiet == {"BeginningOfCombat", "DeclareAttackers", "EndOfCombat"}

\* Who may be asked to assign damage in step s.
Assigners(s) == {a \in DOMAIN board : /\ Has(a, "Trample") /\ is_blocked(a)
                                      /\ Strikes(a, s)}

\* Who can be prompted in each step.
Phased ==
  /\ step \in Quiet => todo = Waiting
  /\ step = "DeclareBlockers" /\ Prompted => todo \in Seq(Players) /\ IsInjective(todo)
  /\ step = "OrderBlockers" => todo \in Seq(DOMAIN damage_order)
  /\ step \in DamageSteps /\ Prompted => todo \in Seq(Assigners(step))

\* What no step has set yet.
Early ==
  /\ step = "BeginningOfCombat" => attackers = <<>>
  /\ step \in {"BeginningOfCombat", "DeclareAttackers"} => blockers = <<>> /\ damage_order = <<>>
  /\ step \notin DamageSteps => custom_damage = <<>>
  /\ step \notin DamageSteps \cup {"EndOfCombat"} => dealt = [s \in DamageSteps |-> {}]

\* Nobody who is still to declare blockers blocks already.
BlocksOpen ==
  step = "DeclareBlockers" /\ Prompted =>
    \A i \in DOMAIN blockers : Controller[blockers[i].blocker] \notin Range(todo)

\* Types that TypeOK leaves open.
Typed ==
  /\ \A c \in DOMAIN board : board[c] \in Perms
  /\ DOMAIN before \subseteq Creatures
  /\ \A c \in DOMAIN before : before[c] \in Perms
  /\ damage_order \in [DOMAIN damage_order -> Seq(Creatures)]
  /\ DOMAIN dealt = DamageSteps

\* The assignment that a's controller chose is still acceptable.
Chosen(a) ==
  /\ a \in DOMAIN damage_order /\ OnBoard(a) /\ Has(a, "Trample") /\ board[a].power > 0
  /\ custom_damage[a] \in [blockers : [1 .. Len(damage_order[a]) -> Nat], player : Nat]
  /\ AcceptsParts(a, custom_damage[a].blockers, custom_damage[a].player)

\* No effect comes between the choices of a damage step and its damage.
ChoicesHold ==
  step \in DamageSteps /\ Prompted => \A a \in DOMAIN custom_damage : Chosen(a)

\* The keywords and fights that EveryoneStrikes looks back to.
HadKey(c, k) == k \in Printed[c] \cup before[c].granted

Fighting(c) == \/ \E i \in DOMAIN blockers : blockers[i].blocker = c
               \/ /\ ~is_blocked(c)
                  /\ \E i \in DOMAIN attackers : attackers[i].attacker = c

StruckFirst(c) == \E d \in dealt["FirstStrikeDamage"] : d.source = c

\* Those who fight and had the keyword when the first strike step began, and
\* no others, have struck.
StruckRight ==
  \A c \in DOMAIN before :
    Fighting(c) => (StruckFirst(c) <=> /\ before[c].power > 0
                                       /\ \/ HadKey(c, "First Strike")
                                          \/ HadKey(c, "Double Strike"))

\* The first strike step, while it is prepared and after it dealt damage.
FirstRound ==
  /\ step = "FirstStrikeDamage" /\ Prompted => before = board
  /\ step = "CombatDamage" \/ (step = "FirstStrikeDamage" /\ ~Prompted) => StruckRight

CombatInv ==
  /\ TypeOK /\ Typed /\ Phased /\ Early /\ BlocksOpen /\ OrderFitsBlocks
  /\ ChoicesHold /\ FirstRound

(* A creature on the battlefield. *)
LEMMA BoardTypes ==
  ASSUME TypeOK, NEW c \in DOMAIN board
  PROVE  /\ c \in Creatures /\ c \notin Players /\ board[c] \in Perms
         /\ board[c].power \in Int /\ board[c].toughness \in Int /\ board[c].damage \in Nat
         /\ \A b : Lethal(b, c) \in Nat
<1>1. c \in Creatures /\ c \notin Players /\ board[c] \in Perms
  BY IdsDiffer DEF TypeOK
<1>2. board[c].power \in Int /\ board[c].toughness \in Int /\ board[c].damage \in Nat
  BY <1>1 DEF Perms
<1>3. board[c].toughness - board[c].damage \in Int
  BY <1>2
<1>. QED
  BY <1>1, <1>2, <1>3, MaxOf DEF Lethal

(* The blockers of a, in the order of their declarations, each of them     *)
(* once.                                                                   *)
LEMMA BlockersAmongIs ==
  ASSUME NEW bs \in Seq([blocker : Creatures, attacker : Creatures]), NEW a
  PROVE  /\ BlockersAmong(bs, a) \in Seq(Creatures)
         /\ (\E i \in DOMAIN bs : bs[i].attacker = a) => BlockersAmong(bs, a) # <<>>
         /\ (\A i, j \in DOMAIN bs : bs[i].blocker = bs[j].blocker => i = j) =>
              \A i, j \in DOMAIN BlockersAmong(bs, a) :
                BlockersAmong(bs, a)[i] = BlockersAmong(bs, a)[j] => i = j
<1>. DEFINE R == [blocker : Creatures, attacker : Creatures]
            I == {i \in DOMAIN bs : bs[i].attacker = a}
            mine == AtPositions(bs, I)
<1>1. mine \in Seq(R) /\ \E pos : PicksOut(pos, mine, bs, I, Len(bs))
  <2>. HIDE DEF I, R
  <2>. QED
    BY AtPositionsPicks DEF R
<1>2. PICK pos : PicksOut(pos, mine, bs, I, Len(bs))
  BY <1>1
<1>3. DOMAIN bs = 1 .. Len(bs) /\ DOMAIN mine = 1 .. Len(mine) /\ Len(mine) \in Nat
      /\ \A j \in 1 .. Len(mine) : mine[j] \in R
  <2>. HIDE DEF mine, I
  <2>. QED
    BY <1>1, LenProperties, ElementOfSeq
<1>4. BlockersAmong(bs, a) = [j \in 1 .. Len(mine) |-> mine[j].blocker]
  BY <1>3 DEF BlockersAmong
<1>. HIDE DEF mine
<1>5. BlockersAmong(bs, a) \in Seq(Creatures) /\ Len(BlockersAmong(bs, a)) = Len(mine)
  <2>1. \A j \in 1 .. Len(mine) : mine[j].blocker \in Creatures
    BY <1>3
  <2>2. [j \in 1 .. Len(mine) |-> mine[j].blocker] \in [1 .. Len(mine) -> Creatures]
    BY <2>1
  <2>. QED
    BY <1>3, <1>4, <2>2
<1>6. ASSUME \E i \in DOMAIN bs : bs[i].attacker = a
      PROVE  BlockersAmong(bs, a) # <<>>
  <2>1. PICK i \in I : i \in 1 .. Len(bs)
    BY <1>3, <1>6
  <2>2. \E j \in 1 .. Len(mine) : pos[j] = i
    BY <1>2, <2>1 DEF PicksOut
  <2>3. Len(mine) # 0
    BY <1>3, <2>2
  <2>. QED
    BY <1>5, <2>3
<1>7. ASSUME \A i, j \in DOMAIN bs : bs[i].blocker = bs[j].blocker => i = j,
             NEW i \in DOMAIN BlockersAmong(bs, a), NEW j \in DOMAIN BlockersAmong(bs, a),
             BlockersAmong(bs, a)[i] = BlockersAmong(bs, a)[j]
      PROVE  i = j
  <2>1. i \in 1 .. Len(mine) /\ j \in 1 .. Len(mine)
    BY <1>4
  <2>2. mine[i].blocker = mine[j].blocker
    BY <1>4, <1>7, <2>1
  <2>3. pos[i] \in DOMAIN bs /\ pos[j] \in DOMAIN bs /\ mine[i] = bs[pos[i]] /\ mine[j] = bs[pos[j]]
    BY <1>2, <1>3, <2>1 DEF PicksOut
  <2>4. pos[i] = pos[j]
    BY <1>7, <2>2, <2>3
  <2>5. ~(i < j) /\ ~(j < i)
    <3>1. pos[i] \in Nat
      BY <1>3, <2>3
    <3>. QED
      BY <1>2, <2>1, <2>4, <3>1 DEF PicksOut
  <2>. QED
    BY <2>1, <2>5
<1>. QED
  BY <1>5, <1>6, <1>7

(* Sequences with the same domain are equally long. *)
LEMMA SameLength ==
  ASSUME NEW m \in Nat, NEW n \in Nat, 1 .. m = 1 .. n
  PROVE  m = n
<1>1. Cardinality(1 .. m) = m /\ Cardinality(1 .. n) = n
  BY FS_Interval
<1>. QED
  BY <1>1

(* The damage order of an attacker: its blockers, each of them once. *)
LEMMA OrderFacts ==
  ASSUME TypeOK, Typed, OrderFitsBlocks, NEW a \in DOMAIN damage_order
  PROVE  /\ damage_order[a] \in Seq(Creatures)
         /\ damage_order[a] # <<>>
         /\ \A i, j \in 1 .. Len(damage_order[a]) :
              damage_order[a][i] = damage_order[a][j] => i = j
<1>. DEFINE s == BlockersAmong(blockers, a)
            t == damage_order[a]
<1>1. /\ s \in Seq(Creatures) /\ s # <<>>
      /\ \A i, j \in DOMAIN s : s[i] = s[j] => i = j
  <2>1. /\ blockers \in Seq([blocker : Creatures, attacker : Creatures])
        /\ \E i \in DOMAIN blockers : blockers[i].attacker = a
        /\ \A i, j \in DOMAIN blockers : blockers[i].blocker = blockers[j].blocker => i = j
    BY DEF TypeOK, OrderFitsBlocks
  <2>. QED
    BY <2>1, BlockersAmongIs
<1>2. t \in Seq(Creatures)
  BY DEF Typed
<1>3. PICK f \in Bijection(DOMAIN s, DOMAIN s) : t = [i \in DOMAIN s |-> s[f[i]]]
  BY DEF OrderFitsBlocks, SamePeople
<1>4. DOMAIN s = 1 .. Len(s) /\ Len(s) \in Nat /\ DOMAIN t = 1 .. Len(t) /\ Len(t) \in Nat
  BY <1>1, <1>2, LenProperties
<1>. HIDE DEF s, t
<1>6. f \in [DOMAIN s -> DOMAIN s] /\ \A x, y \in DOMAIN s : f[x] = f[y] => x = y
  BY DEF Bijection, Injection, IsInjective
<1>7. DOMAIN t = DOMAIN s
  BY <1>3
<1>8. Len(t) = Len(s)
  BY <1>4, <1>7, SameLength
<1>9. Len(s) # 0
  BY <1>1, EmptySeq
<1>10. \A i, j \in DOMAIN t : t[i] = t[j] => i = j
  BY <1>1, <1>3, <1>6, <1>7
<1>. QED
  BY <1>2, <1>4, <1>8, <1>9, <1>10 DEF t

-----------------------------------------------------------------------------
(* What one attacker deals: its power, shared out among its blockers *)

(* D: what declaration i of creature a deals out, part[k] for the k-th of its *)
(* blockers if k \in J, and the rest for the player pl; total adds it up.    *)
SharedOut(i, a, pl, bs, J, part, rest, total, D) ==
  /\ pl \in Players /\ bs \in Seq(Creatures)
  /\ \A j, k \in 1 .. Len(bs) : bs[j] = bs[k] => j = k
  /\ J \in SUBSET (1 .. Len(bs)) /\ \A k \in J : part[k] \in Nat
  /\ rest \in Nat /\ total[0] = 0
  /\ \A k \in 1 .. Len(bs) : total[k] = total[k - 1] + (IF k \in J THEN part[k] ELSE 0)
  /\ D = {[decl |-> i, source |-> a, target |-> bs[j], amount |-> part[j]] : j \in J}
         \cup {[decl |-> i, source |-> a, target |-> pl, amount |-> m] : m \in {rest} \ {0}}

(* Whatever is shared out so adds up to total and rest. *)
LEMMA SharesAre ==
  ASSUME NEW i, NEW a, NEW pl, NEW bs, NEW J, NEW part, NEW rest, NEW total, NEW D,
         SharedOut(i, a, pl, bs, J, part, rest, total, D)
  PROVE  /\ IsFiniteSet(D)
         /\ \A d \in D : /\ d.decl = i /\ d.source = a /\ d.amount \in Nat
                         /\ d.target \in Creatures \cup {pl}
                         /\ d.target \in Players => rest > 0
         /\ Amount(D) = total[Len(bs)] + rest
         /\ \A k \in 1 .. Len(bs) : Amount({d \in D : d.target = bs[k]}) = IF k \in J THEN part[k] ELSE 0
<1>. USE DEF SharedOut
<1>. DEFINE item == [j \in J |-> [decl |-> i, source |-> a, target |-> bs[j], amount |-> part[j]]]
            D1 == {item[j] : j \in J}
            e == [decl |-> i, source |-> a, target |-> pl, amount |-> rest]
<1>1. Len(bs) \in Nat /\ \A k \in 1 .. Len(bs) : bs[k] \in Creatures
  BY LenProperties, ElementOfSeq
<1>2. /\ \A j \in J : /\ item[j].amount = part[j] /\ item[j].target = bs[j] /\ item[j].decl = i
                      /\ item[j].source = a /\ part[j] \in Nat /\ bs[j] \in Creatures
      /\ \A j, k \in J : item[j] = item[k] => j = k
      /\ \A j \in J : item[j].amount \in Int
  <2>1. \A j \in J : /\ item[j].amount = part[j] /\ item[j].target = bs[j]
                     /\ item[j].decl = i /\ item[j].source = a
    OBVIOUS
  <2>2. \A j \in J : j \in 1 .. Len(bs) /\ part[j] \in Nat /\ bs[j] \in Creatures
    BY <1>1
  <2>3. \A j, k \in J : bs[j] = bs[k] => j = k
    OBVIOUS
  <2>. HIDE DEF item
  <2>4. \A j, k \in J : item[j] = item[k] => j = k
    BY <2>1, <2>3
  <2>. QED
    BY <2>1, <2>2, <2>4
<1>3. /\ \A k \in 1 .. Len(bs) : total[k] = total[k - 1] + (IF k \in J THEN item[k].amount ELSE 0)
  BY <1>2
<1>4. IsFiniteSet(D1) /\ Amount(D1) = total[Len(bs)] /\ total[Len(bs)] \in Int
  <2>. DEFINE n == Len(bs)
  <2>1. n \in Nat /\ J \in SUBSET (1 .. n) /\ total[0] = 0
    BY <1>1
  <2>2. \A k \in 1 .. n : total[k] = total[k - 1] + (IF k \in J THEN item[k].amount ELSE 0)
    BY <1>3
  <2>3. (\A j \in J : item[j].amount \in Int) /\ (\A j, k \in J : item[j] = item[k] => j = k)
    BY <1>2
  <2>. HIDE DEF item, n
  <2>4. IsFiniteSet({item[j] : j \in J}) /\ Amount({item[j] : j \in J}) = total[n]
        /\ total[n] \in Int
    BY <2>1, <2>2, <2>3, AmountBySteps
  <2>. QED
    BY <2>4 DEF n
<1>5. D = IF rest = 0 THEN D1 ELSE D1 \cup {e}
  <2>1. D1 = {[decl |-> i, source |-> a, target |-> bs[j], amount |-> part[j]] : j \in J}
    OBVIOUS
  <2>2. {[decl |-> i, source |-> a, target |-> pl, amount |-> m] : m \in {rest} \ {0}}
        = IF rest = 0 THEN {} ELSE {e}
    OBVIOUS
  <2>. HIDE DEF D1, e
  <2>. QED
    BY <2>1, <2>2
<1>6. e.decl = i /\ e.source = a /\ e.target = pl /\ e.amount = rest
  OBVIOUS
<1>. HIDE DEF item, e
<1>7. pl \notin Creatures
  BY IdsDiffer
<1>8. e \notin D1
  BY <1>2, <1>6, <1>7
<1>9. \A d \in D1 : d.amount \in Int
  BY <1>2
<1>10. IsFiniteSet(D) /\ Amount(D) = total[Len(bs)] + rest
  <2>. HIDE DEF D1
  <2>1. CASE rest = 0
    <3>1. D = D1
      BY <1>5, <2>1
    <3>2. total[Len(bs)] + rest = total[Len(bs)]
      BY <1>4, <2>1
    <3>. QED
      BY <1>4, <3>1, <3>2
  <2>2. CASE rest # 0
    <3>1. D = D1 \cup {e}
      BY <1>5, <2>2
    <3>2. e.amount \in Int
      BY <1>6
    <3>3. IsFiniteSet(D1 \cup {e}) /\ Amount(D1 \cup {e}) = Amount(D1) + e.amount
      BY <1>4, <1>8, <1>9, <3>2, AmountAdd
    <3>. QED
      BY <1>4, <1>6, <3>1, <3>3
  <2>. QED
    BY <2>1, <2>2
<1>11. ASSUME NEW d \in D
       PROVE  /\ d.decl = i /\ d.source = a /\ d.amount \in Nat
              /\ d.target \in Creatures \cup {pl}
              /\ d.target \in Players => rest > 0
  <2>1. CASE d \in D1
    BY <1>2, <2>1, IdsDiffer
  <2>2. CASE d = e /\ rest # 0
    BY <1>6, <2>2
  <2>. QED
    BY <1>5, <2>1, <2>2
<1>12. ASSUME NEW k \in 1 .. Len(bs)
       PROVE  Amount({d \in D : d.target = bs[k]}) = IF k \in J THEN part[k] ELSE 0
  <2>. DEFINE H == {d \in D : d.target = bs[k]}
  <2>1. bs[k] # pl
    BY <1>1, <1>7
  <2>2. CASE k \in J
    <3>1. item[k] \in D1 /\ item[k].target = bs[k] /\ item[k].amount \in Int
          /\ item[k].amount = part[k]
      BY <1>2, <2>2
    <3>2. item[k] \in D
      BY <1>5, <3>1
    <3>3. ASSUME NEW d \in D, d.target = bs[k]
          PROVE  d = item[k]
      <4>1. d # e
        BY <1>6, <2>1, <3>3
      <4>2. d \in D1
        BY <1>5, <3>3, <4>1
      <4>3. PICK j \in J : d = item[j]
        BY <4>2
      <4>4. bs[j] = bs[k] /\ j \in 1 .. Len(bs)
        BY <1>2, <3>3, <4>3
      <4>. QED
        BY <4>3, <4>4
    <3>4. H = {item[k]}
      BY <3>1, <3>2, <3>3
    <3>5. Amount({item[k]}) = item[k].amount
      BY <3>1, AmountOne
    <3>. QED
      BY <2>2, <3>1, <3>4, <3>5
  <2>3. CASE k \notin J
    <3>1. ASSUME NEW d \in D, d.target = bs[k]
          PROVE  FALSE
      <4>1. d # e
        BY <1>6, <2>1, <3>1
      <4>2. d \in D1
        BY <1>5, <3>1, <4>1
      <4>3. PICK j \in J : d = item[j]
        BY <4>2
      <4>4. bs[j] = bs[k] /\ j \in 1 .. Len(bs)
        BY <1>2, <3>1, <4>3
      <4>. QED
        BY <2>3, <4>4
    <3>2. H = {}
      BY <3>1
    <3>. QED
      BY <2>3, <3>2, AmountEmpty
  <2>. QED
    BY <2>2, <2>3
<1>. QED
  BY <1>10, <1>11, <1>12

(* What an attacker does with its power p: D is what declaration i deals. *)
Spends(i, a, bs, p, D) ==
  /\ IsFiniteSet(D)
  /\ \A d \in D : /\ d.decl = i /\ d.source = a /\ d.amount \in Nat
                  /\ d.target \in Creatures \cup Players
                  /\ d.target \in Players /\ bs # <<>> => Has(a, "Trample")
                  /\ d.target \in Players =>
                       \A k \in 1 .. Len(bs) : OnBoard(bs[k]) =>
                         Amount({x \in D : x.target = bs[k]}) >= Lethal(a, bs[k])
  /\ Amount(D) <= p
  /\ bs = <<>> \/ Has(a, "Trample") => Amount(D) = p
  /\ bs = <<>> => D # {}

(* DefaultDamage gives each blocker lethal damage as long as power is      *)
(* left.                                                                   *)
LEMMA DefaultSpends ==
  ASSUME TypeOK, NEW i, NEW a \in DOMAIN board, board[a].power > 0,
         attackers[i].defender \in Players,
         NEW bs \in Seq(Creatures), bs # <<>>,
         \A j, k \in 1 .. Len(bs) : bs[j] = bs[k] => j = k
  PROVE  Spends(i, a, bs, board[a].power, DefaultDamage(i, a, bs))
<1>. DEFINE n == Len(bs)
            p == board[a].power
            left(j) == Left(a, bs, j)
            J == {k \in DOMAIN bs : OnBoard(bs[k]) /\ left(k - 1) > 0}
            part == [k \in 1 .. n |-> Min({left(k - 1), Lethal(a, bs[k])})]
            total == [k \in 0 .. n |-> p - left(k)]
            tramples == Has(a, "Trample")
            rest == IF tramples THEN left(n) ELSE 0
            D == DefaultDamage(i, a, bs)
<1>1. n \in Nat /\ DOMAIN bs = 1 .. n /\ \A k \in 1 .. n : bs[k] \in Creatures
  BY LenProperties, ElementOfSeq
<1>2. p \in Int /\ \A k \in 1 .. n : OnBoard(bs[k]) => Lethal(a, bs[k]) \in Nat
  BY BoardTypes DEF OnBoard
<1>3. /\ \A j \in 0 .. n : left(j) \in Int
      /\ left(0) = p
      /\ \A j \in 1 .. n : left(j) =
           IF OnBoard(bs[j])
           THEN IF left(j - 1) > Lethal(a, bs[j]) THEN left(j - 1) - Lethal(a, bs[j]) ELSE 0
           ELSE left(j - 1)
  <2>1. /\ \A j \in 0 .. n : left(j) \in Int
        /\ left(0) = p
        /\ \A j \in 1 .. n : left(j) =
             IF OnBoard(bs[j]) THEN Max({0, left(j - 1) - Lethal(a, bs[j])})
             ELSE left(j - 1)
    <3>1. \A k \in 1 .. n : OnBoard(bs[k]) => Lethal(a, bs[k]) \in Int
      BY <1>2
    <3>. HIDE DEF n
    <3>2. /\ \A j \in 0 .. n : Left(a, bs, j) \in Int
          /\ Left(a, bs, 0) = board[a].power
          /\ \A j \in 1 .. n : Left(a, bs, j) =
               IF OnBoard(bs[j]) THEN Max({0, Left(a, bs, j - 1) - Lethal(a, bs[j])})
               ELSE Left(a, bs, j - 1)
      BY <1>1, <1>2, <3>1, LeftIs
    <3>. QED
      BY <3>2
  <2>2. ASSUME NEW j \in 1 .. n, OnBoard(bs[j])
        PROVE  Max({0, left(j - 1) - Lethal(a, bs[j])})
               = IF left(j - 1) > Lethal(a, bs[j]) THEN left(j - 1) - Lethal(a, bs[j]) ELSE 0
    <3>1. left(j - 1) \in Int /\ Lethal(a, bs[j]) \in Nat
      BY <1>1, <1>2, <2>1, <2>2
    <3>. DEFINE x == left(j - 1)
                y == Lethal(a, bs[j])
    <3>2. x \in Int /\ y \in Int
      BY <3>1
    <3>. HIDE DEF x, y
    <3>3. x - y \in Int /\ (x > y <=> x - y > 0)
      BY <3>2
    <3>4. Max({0, x - y}) = IF x - y > 0 THEN x - y ELSE 0
      BY <3>3, MaxOf
    <3>5. Max({0, x - y}) = IF x > y THEN x - y ELSE 0
      BY <3>3, <3>4
    <3>. QED
      BY <3>5 DEF x, y
  <2>. QED
    BY <2>1, <2>2
<1>. HIDE DEF n, left, p
<1>4. \A k \in 0 .. n : left(k) >= 0 /\ left(k) <= p
  <2>. DEFINE good == {k \in 0 .. n : left(k) >= 0 /\ left(k) <= p}
  <2>1. 0 \in good
    BY <1>1, <1>2, <1>3 DEF p
  <2>2. ASSUME NEW k \in 0 .. n, k \in good, k < n
        PROVE  k + 1 \in good
    <3>1. k + 1 \in 1 .. n /\ (k + 1) - 1 = k /\ k + 1 \in 0 .. n
      BY <1>1, <2>2
    <3>2. left(k) \in Int /\ left(k + 1) \in Int
      BY <1>3, <3>1
    <3>3. left(k + 1) =
           IF OnBoard(bs[k + 1])
           THEN IF left(k) > Lethal(a, bs[k + 1]) THEN left(k) - Lethal(a, bs[k + 1]) ELSE 0
           ELSE left(k)
      BY <1>3, <3>1
    <3>4. OnBoard(bs[k + 1]) => Lethal(a, bs[k + 1]) \in Nat
      BY <1>2, <3>1
    <3>5. left(k) >= 0 /\ left(k) <= p
      BY <2>2
    <3>6. left(k + 1) >= 0 /\ left(k + 1) <= p
      BY <1>2, <3>2, <3>3, <3>4, <3>5
    <3>. QED
      BY <3>1, <3>6
  <2>. HIDE DEF good
  <2>3. \A k \in 0 .. n : k \in good
    BY <1>1, <2>1, <2>2, UpTo
  <2>. QED
    BY <2>3 DEF good
<1>5. \A k \in 1 .. n : left(n) > 0 => left(k) > 0 /\ left(k - 1) > 0
  <2>. DEFINE good == {k \in 0 .. n : left(n) > 0 => left(n - k) > 0}
  <2>1. 0 \in good
    BY <1>1
  <2>2. ASSUME NEW k \in 0 .. n, k \in good, k < n
        PROVE  k + 1 \in good
    <3>1. k + 1 \in 0 .. n /\ n - k \in 1 .. n /\ (n - k) - 1 = n - (k + 1)
          /\ n - (k + 1) \in 0 .. n
      BY <1>1, <2>2
    <3>2. left(n - k) \in Int /\ left(n - (k + 1)) \in Int
      BY <1>3, <3>1
    <3>3. left(n - k) =
           IF OnBoard(bs[n - k]) THEN IF left(n - (k + 1)) > Lethal(a, bs[n - k])
                                      THEN left(n - (k + 1)) - Lethal(a, bs[n - k]) ELSE 0
           ELSE left(n - (k + 1))
      BY <1>3, <3>1
    <3>4. OnBoard(bs[n - k]) => Lethal(a, bs[n - k]) \in Nat
      BY <1>2, <3>1
    <3>5. left(n) > 0 => left(n - k) > 0
      BY <2>2
    <3>6. left(n) > 0 => left(n - (k + 1)) > 0
      BY <3>2, <3>3, <3>4, <3>5
    <3>. QED
      BY <3>1, <3>6
  <2>. HIDE DEF good
  <2>3. \A k \in 0 .. n : k \in good
    BY <1>1, <2>1, <2>2, UpTo
  <2>4. ASSUME NEW k \in 0 .. n, left(n) > 0 PROVE left(k) > 0
    <3>1. n - k \in 0 .. n /\ n - (n - k) = k
      BY <1>1
    <3>. QED
      BY <2>3, <2>4, <3>1 DEF good
  <2>5. \A k \in 1 .. n : k \in 0 .. n /\ k - 1 \in 0 .. n
    BY <1>1
  <2>. QED
    BY <2>4, <2>5
<1>6. ASSUME NEW k \in 1 .. n
      PROVE  /\ k \in J => /\ part[k] \in Nat
                           /\ left(k) = left(k - 1) - part[k]
                           /\ left(k) > 0 => part[k] = Lethal(a, bs[k])
             /\ k \notin J => left(k) = left(k - 1)
             /\ left(n) > 0 /\ OnBoard(bs[k]) => k \in J
  <2>1. k - 1 \in 0 .. n /\ k \in 0 .. n /\ k \in DOMAIN bs
    BY <1>1
  <2>2. left(k - 1) \in Int /\ left(k) \in Int /\ left(k - 1) >= 0
    BY <1>3, <1>4, <2>1
  <2>3. left(k) = IF OnBoard(bs[k])
                  THEN IF left(k - 1) > Lethal(a, bs[k]) THEN left(k - 1) - Lethal(a, bs[k])
                       ELSE 0
           ELSE left(k - 1)
    BY <1>3
  <2>4. OnBoard(bs[k]) => Lethal(a, bs[k]) \in Nat
    BY <1>2
  <2>5. OnBoard(bs[k]) =>
          part[k] = IF left(k - 1) < Lethal(a, bs[k]) THEN left(k - 1) ELSE Lethal(a, bs[k])
    BY <2>2, <2>4, MinOf
  <2>6. left(n) > 0 => left(k - 1) > 0
    BY <1>5
  <2>. HIDE DEF part
  <2>. QED
    BY <2>1, <2>2, <2>3, <2>4, <2>5, <2>6
<1>7. left(n) \in Nat /\ rest \in Nat /\ n \in 0 .. n
  BY <1>1, <1>3, <1>4
<1>8. D = {[decl |-> i, source |-> a, target |-> bs[j], amount |-> part[j]] : j \in J}
          \cup {[decl |-> i, source |-> a, target |-> attackers[i].defender, amount |-> m] :
                  m \in {rest} \ {0}}
  <2>1. {left(n)} \cap {m \in 1 .. p : Has(a, "Trample")} = {rest} \ {0}
    BY <1>1, <1>2, <1>4, <1>7
  <2>2. \A j \in J : part[j] = Min({left(j - 1), Lethal(a, bs[j])})
    BY <1>1
  <2>3. D = {[decl |-> i, source |-> a, target |-> bs[j],
              amount |-> Min({left(j - 1), Lethal(a, bs[j])})] : j \in J}
            \cup {[decl |-> i, source |-> a, target |-> attackers[i].defender, amount |-> m] :
                    m \in {left(n)} \cap {m \in 1 .. p : Has(a, "Trample")}}
    BY DEF DefaultDamage, left, n, p
  <2>. DEFINE kill(j) == Min({left(j - 1), Lethal(a, bs[j])})
              rec(t, m) == [decl |-> i, source |-> a, target |-> t, amount |-> m]
  <2>4. {rec(bs[j], kill(j)) : j \in J} = {rec(bs[j], part[j]) : j \in J}
    <3>. HIDE DEF part, J, rest, D, rec, kill
    <3>1. \A j \in J : kill(j) = part[j]
      BY <2>2 DEF kill
    <3>. QED
      BY <3>1
  <2>5. D = {rec(bs[j], kill(j)) : j \in J}
            \cup {rec(attackers[i].defender, m) : m \in {left(n)} \cap {m \in 1 .. p : Has(a, "Trample")}}
    BY <2>3
  <2>. HIDE DEF part, J, rest, D, rec, kill
  <2>6. D = {rec(bs[j], part[j]) : j \in J} \cup {rec(attackers[i].defender, m) : m \in {rest} \ {0}}
    BY <2>1, <2>4, <2>5
  <2>. QED
    BY <2>6 DEF rec
<1>9. total[0] = 0 /\ total[n] = p - left(n)
      /\ \A k \in 1 .. n : total[k] = total[k - 1] + (IF k \in J THEN part[k] ELSE 0)
  <2>1. \A k \in 1 .. n : k \in 0 .. n /\ k - 1 \in 0 .. n
    BY <1>1
  <2>2. 0 \in 0 .. n /\ n \in 0 .. n
    BY <1>1
  <2>3. ASSUME NEW k \in 1 .. n
        PROVE  total[k] = total[k - 1] + (IF k \in J THEN part[k] ELSE 0)
    <3>1. total[k] = p - left(k) /\ total[k - 1] = p - left(k - 1)
      BY <2>1
    <3>2. left(k) \in Int /\ left(k - 1) \in Int
      BY <1>3, <2>1
    <3>. HIDE DEF total, J, part
    <3>. QED
      BY <1>2, <1>6, <3>1, <3>2
  <2>4. total[0] = p - left(0) /\ total[n] = p - left(n)
    BY <2>2
  <2>. HIDE DEF total, J, part
  <2>5. total[0] = 0
    BY <1>2, <1>3, <2>4
  <2>. QED
    BY <2>3, <2>4, <2>5
<1>. HIDE DEF part, total, D
<1>10. /\ IsFiniteSet(D)
       /\ \A d \in D : /\ d.decl = i /\ d.source = a /\ d.amount \in Nat
                       /\ d.target \in Creatures \cup {attackers[i].defender}
                       /\ d.target \in Players => rest > 0
       /\ Amount(D) = total[n] + rest
       /\ \A k \in 1 .. n : Amount({d \in D : d.target = bs[k]}) = IF k \in J THEN part[k] ELSE 0
  <2>1. J \in SUBSET (1 .. n) /\ \A k \in J : part[k] \in Nat
    BY <1>1, <1>6
  <2>. DEFINE pl == attackers[i].defender
  <2>2. SharedOut(i, a, pl, bs, J, part, rest, total, D)
    <3>. HIDE DEF J, rest
    <3>. QED
      BY <1>7, <1>8, <1>9, <2>1 DEF n, SharedOut
  <2>. HIDE DEF J, rest, pl
  <2>3. /\ IsFiniteSet(D)
        /\ \A d \in D : /\ d.decl = i /\ d.source = a /\ d.amount \in Nat
                        /\ d.target \in Creatures \cup {pl}
                        /\ d.target \in Players => rest > 0
        /\ Amount(D) = total[Len(bs)] + rest
        /\ \A k \in 1 .. Len(bs) : Amount({d \in D : d.target = bs[k]}) = IF k \in J THEN part[k] ELSE 0
    BY <2>2, SharesAre
  <2>. QED
    BY <2>3 DEF n, pl
<1>11. ASSUME NEW d \in D, d.target \in Players, NEW k \in 1 .. n, OnBoard(bs[k])
       PROVE  Amount({x \in D : x.target = bs[k]}) >= Lethal(a, bs[k])
  <2>1. left(n) > 0 /\ tramples
    BY <1>10, <1>11
  <2>2. k \in J /\ left(k) > 0
    BY <1>5, <1>6, <1>11, <2>1
  <2>3. part[k] = Lethal(a, bs[k]) /\ Lethal(a, bs[k]) \in Nat
    BY <1>2, <1>6, <1>11, <2>2
  <2>4. Amount({x \in D : x.target = bs[k]}) = part[k]
    BY <1>10, <2>2
  <2>. QED
    BY <2>3, <2>4
<1>12. Amount(D) <= p /\ (tramples => Amount(D) = p)
  BY <1>2, <1>7, <1>9, <1>10
<1>13. \A d \in D : d.target \in Players => tramples
  BY <1>10
<1>14. \A d \in D : d.target \in Creatures \cup Players
  BY <1>10
<1>. HIDE DEF tramples, rest
<1>. QED
  BY <1>10, <1>11, <1>12, <1>13, <1>14 DEF Spends, D, p, n, tramples

(* CustomDamage deals what the prompt for it accepted. *)
LEMMA CustomSpends ==
  ASSUME TypeOK, NEW i, NEW a, Chosen(a),
         attackers[i].defender \in Players,
         NEW bs \in Seq(Creatures), bs # <<>>, bs = damage_order[a],
         \A j, k \in 1 .. Len(bs) : bs[j] = bs[k] => j = k
  PROVE  Spends(i, a, bs, board[a].power, CustomDamage(i, a, bs))
<1>. DEFINE n == Len(bs)
            p == board[a].power
            part == custom_damage[a].blockers
            rest == custom_damage[a].player
            J == {k \in DOMAIN bs \cap DOMAIN part : part[k] > 0}
            total == [k \in 0 .. n |-> SumFunctionOnSet(part, 1 .. k)]
            D == CustomDamage(i, a, bs)
            pl == attackers[i].defender
<1>1. n \in Nat /\ DOMAIN bs = 1 .. n
  BY LenProperties
<1>2. /\ part \in [1 .. n -> Nat] /\ rest \in Nat /\ p \in Int
      /\ \A k \in 1 .. n : OnBoard(bs[k]) => part[k] >= Lethal(a, bs[k]) /\ Lethal(a, bs[k]) \in Nat
      /\ rest + SumFunction(part) = p
      /\ Has(a, "Trample")
  <2>1. part \in [1 .. n -> Nat] /\ rest \in Nat
    BY DEF Chosen
  <2>2. /\ \A k \in DOMAIN part : OnBoard(bs[k]) => part[k] >= Lethal(a, bs[k])
        /\ rest + SumFunction(part) = p
    BY DEF Chosen, AcceptsParts
  <2>3. \A k \in 1 .. n : OnBoard(bs[k]) => Lethal(a, bs[k]) \in Nat
    BY BoardTypes DEF OnBoard
  <2>4. p \in Int
    BY BoardTypes DEF OnBoard, Chosen
  <2>. QED
    BY <2>1, <2>2, <2>3, <2>4 DEF Chosen
<1>. HIDE DEF n, part, rest, p
<1>3. total[n] = SumFunctionOnSet(part, 1 .. n) /\ SumFunction(part) = SumFunctionOnSet(part, 1 .. n)
  BY <1>1, <1>2 DEF SumFunction
<1>4. /\ total[0] = 0
      /\ \A k \in 1 .. n : total[k] = total[k - 1] + (IF k \in J THEN part[k] ELSE 0)
  <2>1. total[0] = 0
    <3>1. 1 .. 0 = {} /\ total[0] = SumFunctionOnSet(part, 1 .. 0)
      BY <1>1
    <3>. QED
      BY <3>1, SumEmpty
  <2>2. ASSUME NEW k \in 1 .. n
        PROVE  total[k] = total[k - 1] + (IF k \in J THEN part[k] ELSE 0)
    <3>1. /\ k \in 0 .. n /\ k - 1 \in 0 .. n /\ k \in Nat /\ k \in 1 .. k
          /\ (1 .. k) \ {k} = 1 .. (k - 1) /\ \A x \in 1 .. k : x \in 1 .. n
          /\ k \in DOMAIN part /\ k \in DOMAIN bs
      BY <1>1, <1>2
    <3>2. total[k] = SumFunctionOnSet(part, 1 .. k) /\ total[k - 1] = SumFunctionOnSet(part, 1 .. (k - 1))
      BY <3>1
    <3>3. IsFiniteSet(1 .. k) /\ IsFiniteSet(1 .. (k - 1))
      BY <3>1, FS_Interval
    <3>4. \A x \in 1 .. k : part[x] \in Int
      BY <1>2, <3>1
    <3>5. SumFunctionOnSet(part, 1 .. k) = part[k] + SumFunctionOnSet(part, (1 .. k) \ {k})
      BY <3>1, <3>3, <3>4, SumRemove
    <3>6. SumFunctionOnSet(part, 1 .. (k - 1)) \in Int
      <4>1. \A x \in 1 .. (k - 1) : part[x] \in Int
        BY <1>2, <3>1
      <4>. QED
        BY <3>3, <4>1, SumType
    <3>7. part[k] \in Nat
      BY <1>2
    <3>8. k \in J <=> part[k] > 0
      BY <3>1
    <3>. HIDE DEF total, J
    <3>9. total[k - 1] \in Int /\ total[k] = part[k] + total[k - 1]
      BY <3>1, <3>2, <3>5, <3>6
    <3>10. CASE k \in J
      BY <3>7, <3>9, <3>10
    <3>11. CASE k \notin J
      <4>1. part[k] = 0
        BY <3>7, <3>8, <3>11
      <4>. QED
        BY <3>9, <3>11, <4>1
    <3>. QED
      BY <3>10, <3>11
  <2>. QED
    BY <2>1, <2>2
<1>5. SharedOut(i, a, pl, bs, J, part, rest, total, D)
  <2>1. J \in SUBSET (1 .. n) /\ \A k \in J : part[k] \in Nat
    BY <1>1, <1>2
  <2>2. D = {[decl |-> i, source |-> a, target |-> bs[j], amount |-> part[j]] : j \in J}
            \cup {[decl |-> i, source |-> a, target |-> pl, amount |-> m] : m \in {rest} \ {0}}
    BY DEF CustomDamage, part, rest
  <2>. HIDE DEF J, total, D
  <2>. QED
    BY <1>2, <1>4, <2>1, <2>2 DEF SharedOut, n
<1>. HIDE DEF J, total, D, pl
<1>6. /\ IsFiniteSet(D)
      /\ \A d \in D : /\ d.decl = i /\ d.source = a /\ d.amount \in Nat
                      /\ d.target \in Creatures \cup {pl}
                      /\ d.target \in Players => rest > 0
      /\ Amount(D) = total[n] + rest
      /\ \A k \in 1 .. n : Amount({d \in D : d.target = bs[k]}) = IF k \in J THEN part[k] ELSE 0
  BY <1>5, SharesAre DEF n
<1>7. Amount(D) = p
  <2>1. total[n] \in Int
    <3>1. IsFiniteSet(1 .. n) /\ \A x \in 1 .. n : part[x] \in Int
      <4>1. IsFiniteSet(1 .. n)
        <5>1. n \in Int
          BY <1>1
        <5>. HIDE DEF n
        <5>. QED
          BY <5>1, FS_Interval
      <4>. QED
        BY <1>1, <1>2, <4>1
    <3>2. SumFunctionOnSet(part, 1 .. n) \in Int
      BY <3>1, SumType
    <3>. QED
      BY <1>3, <3>2
  <2>. QED
    BY <1>2, <1>3, <1>6, <2>1
<1>8. ASSUME NEW k \in 1 .. n, OnBoard(bs[k])
      PROVE  Amount({x \in D : x.target = bs[k]}) >= Lethal(a, bs[k])
  <2>1. part[k] \in Nat /\ Lethal(a, bs[k]) \in Nat /\ part[k] >= Lethal(a, bs[k])
    BY <1>2, <1>8
  <2>2. k \in J <=> part[k] > 0
    BY <1>1, <1>2 DEF J
  <2>3. Amount({d \in D : d.target = bs[k]}) = IF k \in J THEN part[k] ELSE 0
    BY <1>6
  <2>. QED
    BY <2>1, <2>2, <2>3
<1>9. pl \in Players
  BY DEF pl
<1>. QED
  BY <1>2, <1>6, <1>7, <1>8, <1>9 DEF Spends, D, n, p

(* An attacker that is not blocked deals its power to the player. *)
LEMMA UnblockedSpends ==
  ASSUME NEW i, NEW a, board[a].power \in Int, board[a].power > 0,
         attackers[i].defender \in Players, NEW D,
         D = {[decl |-> i, source |-> a, target |-> attackers[i].defender, amount |-> board[a].power]}
  PROVE  Spends(i, a, <<>>, board[a].power, D)
<1>. DEFINE e == [decl |-> i, source |-> a, target |-> attackers[i].defender, amount |-> board[a].power]
<1>1. e.decl = i /\ e.source = a /\ e.target \in Players /\ e.amount = board[a].power /\ D = {e}
  OBVIOUS
<1>. HIDE DEF e
<1>2. IsFiniteSet({e}) /\ Amount({e}) = e.amount
  BY <1>1, AmountOne
<1>3. Len(<<>>) = 0
  OBVIOUS
<1>. QED
  BY <1>1, <1>2, <1>3 DEF Spends

(* Declaration i of an attacker that fights spends its power. *)
LEMMA AttackerSpends ==
  ASSUME TypeOK, Typed, OrderFitsBlocks, \A a \in DOMAIN custom_damage : Chosen(a),
         NEW i \in DOMAIN attackers, attackers[i].attacker \in DOMAIN board,
         board[attackers[i].attacker].power > 0
  PROVE  Spends(i, attackers[i].attacker, BlockersFor(attackers[i].attacker),
                board[attackers[i].attacker].power, AttackerDamage(i))
<1>. DEFINE a == attackers[i].attacker
            bs == BlockersFor(a)
<1>1. attackers[i].defender \in Players /\ board[a].power \in Int
  <2>1. attackers[i] \in [attacker : Creatures, defender : Players \ {Active}]
    <3>. DEFINE R == [attacker : Creatures, defender : Players \ {Active}]
    <3>1. attackers \in Seq(R)
      BY DEF TypeOK
    <3>. HIDE DEF R
    <3>2. attackers[i] \in R
      BY <3>1, ElementOfSeq, LenProperties
    <3>. QED
      BY <3>2 DEF R
  <2>. QED
    BY <2>1, BoardTypes
<1>2. CASE bs = <<>>
  <2>1. AttackerDamage(i) = {[decl |-> i, source |-> a, target |-> attackers[i].defender,
                              amount |-> board[a].power]}
    BY <1>2 DEF AttackerDamage
  <2>. QED
    BY <1>1, <1>2, <2>1, UnblockedSpends
<1>3. CASE bs # <<>>
  <2>1. a \in DOMAIN damage_order /\ bs = damage_order[a]
    BY <1>3 DEF BlockersFor, is_blocked
  <2>2. bs \in Seq(Creatures) /\ \A j, k \in 1 .. Len(bs) : bs[j] = bs[k] => j = k
    BY <2>1, OrderFacts
  <2>3. CASE a \in DOMAIN custom_damage
    <3>1. AttackerDamage(i) = CustomDamage(i, a, bs)
      BY <1>3, <2>3 DEF AttackerDamage
    <3>. HIDE DEF a, bs
    <3>2. Chosen(a)
      BY <2>3
    <3>3. Spends(i, a, bs, board[a].power, CustomDamage(i, a, bs))
      BY <1>1, <1>3, <2>1, <2>2, <3>2, CustomSpends
    <3>. QED
      BY <3>1, <3>3 DEF a, bs
  <2>4. CASE a \notin DOMAIN custom_damage
    <3>1. AttackerDamage(i) = DefaultDamage(i, a, bs)
      BY <1>3, <2>4 DEF AttackerDamage
    <3>2. a \in DOMAIN board /\ board[a].power > 0
      OBVIOUS
    <3>. HIDE DEF a, bs
    <3>3. Spends(i, a, bs, board[a].power, DefaultDamage(i, a, bs))
      BY <1>1, <1>3, <2>2, <3>2, DefaultSpends
    <3>. QED
      BY <3>1, <3>3 DEF a, bs
  <2>. QED
    BY <2>3, <2>4
<1>. QED
  BY <1>2, <1>3

-----------------------------------------------------------------------------
(* What resolve_combat_damage returns *)

(* A declared attacker and blocker. *)
LEMMA AttackerTypes ==
  ASSUME TypeOK, NEW i \in DOMAIN attackers
  PROVE  /\ i \in Nat \ {0} /\ attackers[i].attacker \in Creatures
         /\ attackers[i].defender \in Players \ {Active}
<1>. DEFINE R == [attacker : Creatures, defender : Players \ {Active}]
<1>1. attackers \in Seq(R)
  BY DEF TypeOK
<1>2. attackers[i] \in R /\ i \in Nat \ {0}
  <2>. HIDE DEF R
  <2>. QED
    BY <1>1, ElementOfSeq, LenProperties
<1>. QED
  BY <1>2

LEMMA BlockerTypes ==
  ASSUME TypeOK, NEW i \in DOMAIN blockers
  PROVE  blockers[i].blocker \in Creatures /\ blockers[i].attacker \in Creatures
<1>. DEFINE R == [blocker : Creatures, attacker : Creatures]
<1>1. blockers \in Seq(R)
  BY DEF TypeOK
<1>2. blockers[i] \in R
  <2>. HIDE DEF R
  <2>. QED
    BY <1>1, ElementOfSeq, LenProperties
<1>. QED
  BY <1>2

(* The declarations are finitely many, *)
LEMMA FinitePositions ==
  ASSUME TypeOK
  PROVE  IsFiniteSet(DOMAIN attackers) /\ IsFiniteSet(DOMAIN blockers)
<1>1. /\ DOMAIN attackers = 1 .. Len(attackers) /\ Len(attackers) \in Nat
      /\ DOMAIN blockers = 1 .. Len(blockers) /\ Len(blockers) \in Nat
  BY LenProperties DEF TypeOK
<1>. QED
  BY <1>1, FS_Interval

(* and so is what they deal together. *)
LEMMA FiniteUnions ==
  ASSUME NEW S, IsFiniteSet(S), NEW T \in SUBSET S, NEW f, \A x \in T : IsFiniteSet(f[x])
  PROVE  IsFiniteSet(UNION {f[x] : x \in T})
<1>1. IsFiniteSet(T)
  BY FS_Subset
<1>. DEFINE g == [x \in T |-> f[x]]
            U == {f[x] : x \in T}
<1>2. IsFiniteSet(U)
  <2>1. g \in Surjection(T, U)
    BY DEF Surjection
  <2>. HIDE DEF g, U
  <2>. QED
    BY <1>1, <2>1, FS_Surjection
<1>3. \A x \in U : IsFiniteSet(x)
  OBVIOUS
<1>. HIDE DEF U
<1>4. IsFiniteSet(UNION U)
  BY <1>2, <1>3, FS_UNION
<1>. QED
  BY <1>4 DEF U

(* What resolve_combat_damage returns. *)
LEMMA DamageIs ==
  ASSUME TypeOK, Typed, OrderFitsBlocks, \A a \in DOMAIN custom_damage : Chosen(a),
         NEW s, NEW D, D = resolve_combat_damage(s)
  PROVE  /\ IsFiniteSet(D)
         /\ \A d \in D : /\ d.amount \in Nat /\ d.target \in Creatures \cup Players
                         /\ d.source \in Creatures /\ Fights(d.source, s)
                         /\ d.decl # 0 => /\ d.decl \in DOMAIN attackers
                                          /\ d.source = attackers[d.decl].attacker
         /\ \A i \in DOMAIN attackers :
              {d \in D : d.decl = i} = IF Fights(attackers[i].attacker, s) THEN AttackerDamage(i) ELSE {}
         /\ \A c : Fighting(c) => ((\E d \in D : d.source = c) <=> Fights(c, s))
<1>. DEFINE I == {k \in DOMAIN attackers : Fights(attackers[k].attacker, s)}
            K == {k \in DOMAIN blockers : Fights(blockers[k].blocker, s)}
            fa == [i \in I |-> AttackerDamage(i)]
            fb == [k \in K |-> BlockerDamage(blockers[k])]
            A == UNION {fa[i] : i \in I}
            B == UNION {fb[k] : k \in K}
<1>1. D = A \cup B
  <2>1. {fa[i] : i \in I} = {AttackerDamage(i) : i \in I}
    OBVIOUS
  <2>2. {fb[k] : k \in K} = {BlockerDamage(blockers[k]) : k \in K}
    OBVIOUS
  <2>3. D = (UNION {AttackerDamage(i) : i \in I}) \cup (UNION {BlockerDamage(blockers[k]) : k \in K})
    BY DEF resolve_combat_damage
  <2>4. A = UNION {AttackerDamage(i) : i \in I} /\ B = UNION {BlockerDamage(blockers[k]) : k \in K}
    <3>. HIDE DEF I, K, fa, fb
    <3>. QED
      BY <2>1, <2>2
  <2>. HIDE DEF I, K, fa, fb, A, B
  <2>. QED
    BY <2>3, <2>4
<1>2. ASSUME NEW i \in I
      PROVE  /\ fa[i] = AttackerDamage(i) /\ IsFiniteSet(fa[i])
             /\ \A d \in fa[i] : /\ d.decl = i /\ d.source = attackers[i].attacker /\ d.amount \in Nat
                                 /\ d.target \in Creatures \cup Players
             /\ ~is_blocked(attackers[i].attacker) => fa[i] # {}
  <2>1. /\ i \in DOMAIN attackers /\ attackers[i].attacker \in DOMAIN board
        /\ board[attackers[i].attacker].power > 0
    BY DEF Fights, OnBoard
  <2>2. Spends(i, attackers[i].attacker, BlockersFor(attackers[i].attacker),
               board[attackers[i].attacker].power, AttackerDamage(i))
    BY <2>1, AttackerSpends
  <2>3. ~is_blocked(attackers[i].attacker) => BlockersFor(attackers[i].attacker) = <<>>
    BY DEF BlockersFor
  <2>. QED
    BY <2>2, <2>3 DEF Spends
<1>3. ASSUME NEW k \in K
      PROVE  /\ IsFiniteSet(fb[k]) /\ fb[k] # {}
             /\ \A d \in fb[k] : /\ d.decl = 0 /\ d.source = blockers[k].blocker /\ d.amount \in Nat
                                 /\ d.target \in Creatures
  <2>. DEFINE e == [decl |-> 0, source |-> blockers[k].blocker, target |-> blockers[k].attacker,
                    amount |-> board[blockers[k].blocker].power]
  <2>1. fb[k] = {e}
    BY DEF BlockerDamage
  <2>2. IsFiniteSet({e})
    BY FS_Singleton
  <2>3. e.amount \in Nat
    <3>1. blockers[k].blocker \in DOMAIN board /\ board[blockers[k].blocker].power > 0
      BY DEF Fights, OnBoard
    <3>2. board[blockers[k].blocker].power \in Int
      BY <3>1, BoardTypes
    <3>. QED
      BY <3>1, <3>2
  <2>4. e.target \in Creatures
    BY BlockerTypes
  <2>5. e.decl = 0 /\ e.source = blockers[k].blocker
    OBVIOUS
  <2>. HIDE DEF e
  <2>. QED
    BY <2>1, <2>2, <2>3, <2>4, <2>5
<1>4. IsFiniteSet(D)
  <2>1. I \in SUBSET (DOMAIN attackers) /\ K \in SUBSET (DOMAIN blockers)
    OBVIOUS
  <2>. HIDE DEF I, K, fa, fb
  <2>2. IsFiniteSet(A) /\ IsFiniteSet(B)
    <3>1. IsFiniteSet(DOMAIN attackers) /\ \A i \in I : IsFiniteSet(fa[i])
      BY <1>2, FinitePositions
    <3>2. IsFiniteSet(DOMAIN blockers) /\ \A k \in K : IsFiniteSet(fb[k])
      BY <1>3, FinitePositions
    <3>3. IsFiniteSet(UNION {fa[i] : i \in I})
      BY <2>1, <3>1, FiniteUnions
    <3>4. IsFiniteSet(UNION {fb[k] : k \in K})
      BY <2>1, <3>2, FiniteUnions
    <3>. QED
      BY <3>3, <3>4
  <2>. HIDE DEF A, B
  <2>. QED
    BY <1>1, <2>2, FS_Union
<1>. HIDE DEF fa, fb
<1>5. ASSUME NEW d \in D
      PROVE  /\ d.amount \in Nat /\ d.target \in Creatures \cup Players
             /\ d.source \in Creatures /\ Fights(d.source, s)
             /\ d.decl # 0 => /\ d.decl \in DOMAIN attackers
                              /\ d.source = attackers[d.decl].attacker
  <2>1. CASE d \in A
    <3>1. PICK i \in I : d \in fa[i]
      BY <2>1
    <3>. QED
      BY <1>2, <3>1, AttackerTypes
  <2>2. CASE d \in B
    <3>1. PICK k \in K : d \in fb[k]
      BY <2>2
    <3>. QED
      BY <1>3, <3>1, BlockerTypes
  <2>. QED
    BY <1>1, <2>1, <2>2
<1>6. ASSUME NEW i \in DOMAIN attackers
      PROVE  {d \in D : d.decl = i} = IF Fights(attackers[i].attacker, s) THEN AttackerDamage(i) ELSE {}
  <2>1. i # 0
    BY AttackerTypes
  <2>2. ASSUME NEW d \in D, d.decl = i PROVE i \in I /\ d \in fa[i]
    <3>1. d \notin B
      BY <1>3, <2>1, <2>2
    <3>2. PICK j \in I : d \in fa[j]
      BY <1>1, <3>1
    <3>3. j = i
      BY <1>2, <2>2, <3>2
    <3>. QED
      BY <3>2, <3>3
  <2>3. ASSUME i \in I, NEW d \in fa[i] PROVE d \in D /\ d.decl = i
    BY <1>1, <1>2, <2>3
  <2>4. CASE i \in I
    <3>1. {d \in D : d.decl = i} = fa[i]
      BY <2>2, <2>3, <2>4
    <3>. QED
      BY <1>2, <2>4, <3>1
  <2>5. CASE i \notin I
    <3>1. {d \in D : d.decl = i} = {}
      BY <2>2, <2>5
    <3>. QED
      BY <2>5, <3>1
  <2>. QED
    BY <2>4, <2>5
<1>7. ASSUME NEW c, Fighting(c), Fights(c, s)
      PROVE  \E d \in D : d.source = c
  <2>1. CASE \E k \in DOMAIN blockers : blockers[k].blocker = c
    <3>1. PICK k \in K : blockers[k].blocker = c
      BY <1>7, <2>1
    <3>2. PICK d \in fb[k] : d.source = c
      BY <1>3, <3>1
    <3>. QED
      BY <1>1, <3>2
  <2>2. CASE ~is_blocked(c) /\ \E i \in DOMAIN attackers : attackers[i].attacker = c
    <3>1. PICK i \in I : attackers[i].attacker = c
      BY <1>7, <2>2
    <3>2. PICK d \in fa[i] : d.source = c
      BY <1>2, <2>2, <3>1
    <3>. QED
      BY <1>1, <3>2
  <2>. QED
    BY <1>7, <2>1, <2>2 DEF Fighting
<1>. QED
  BY <1>4, <1>5, <1>6, <1>7

(* An empty list of people to prompt is not the mark that none is made     *)
(* yet.                                                                    *)
LEMMA NotWaiting == <<>> # Waiting /\ Len(Waiting) = 1
BY DEF Waiting

(* When damage is dealt, the accepted assignments still fit the            *)
(* battlefield.                                                            *)
LEMMA ChosenNow ==
  ASSUME CombatInv, NEW s \in DamageSteps, Resolves(s)
  PROVE  \A a \in DOMAIN custom_damage : Chosen(a)
<1>1. step \in DamageSteps /\ Prompted
  BY NotWaiting DEF Resolves, Prompted
<1>. QED
  BY <1>1 DEF CombatInv, ChoicesHold

(* The step that deals damage records what resolve_combat_damage returns. *)
LEMMA Resolved ==
  ASSUME CombatInv, DealDamage, NEW s \in DamageSteps, Resolves(s), NEW D, D = resolve_combat_damage(s)
  PROVE  /\ dealt'[s] = D
         /\ \A t \in DamageSteps \ {s} : dealt'[t] = dealt[t]
         /\ IsFiniteSet(D)
         /\ \A d \in D : /\ d.amount \in Nat /\ d.target \in Creatures \cup Players
                         /\ d.source \in Creatures /\ Fights(d.source, s)
                         /\ d.decl # 0 => /\ d.decl \in DOMAIN attackers
                                          /\ d.source = attackers[d.decl].attacker
         /\ \A i \in DOMAIN attackers :
              {d \in D : d.decl = i} = IF Fights(attackers[i].attacker, s) THEN AttackerDamage(i) ELSE {}
         /\ \A c : Fighting(c) => ((\E d \in D : d.source = c) <=> Fights(c, s))
         /\ \A i \in DOMAIN attackers : Fights(attackers[i].attacker, s) =>
              Spends(i, attackers[i].attacker, BlockersFor(attackers[i].attacker),
                     board[attackers[i].attacker].power, AttackerDamage(i))
<1>1. TypeOK /\ Typed /\ OrderFitsBlocks /\ \A a \in DOMAIN custom_damage : Chosen(a)
  BY ChosenNow DEF CombatInv
<1>2. dealt'[s] = D /\ \A t \in DamageSteps \ {s} : dealt'[t] = dealt[t]
  BY <1>1 DEF DealDamage, Typed, Resolves
<1>3. \A i \in DOMAIN attackers : Fights(attackers[i].attacker, s) =>
              Spends(i, attackers[i].attacker, BlockersFor(attackers[i].attacker),
                     board[attackers[i].attacker].power, AttackerDamage(i))
  BY <1>1, AttackerSpends DEF Fights, OnBoard
<1>. HIDE DEF CombatInv
<1>. QED
  BY <1>1, <1>2, <1>3, DamageIs

\* PowerIsSpent, BlockedStaysBlocked, LethalFirst and EveryoneStrikes as
\* step predicates.
Spent ==
  \A s \in DamageSteps : Resolves(s) =>
       \A i \in DOMAIN attackers :
         LET a == attackers[i].attacker
             mine == {d \in dealt'[s] : d.decl = i}
         IN  mine # {} =>
               /\ Amount(mine) <= board[a].power
               /\ ~is_blocked(a) \/ Has(a, "Trample") => Amount(mine) = board[a].power

Blocked ==
  \A s \in DamageSteps : Resolves(s) =>
       \A d \in dealt'[s] :
         d.decl > 0 /\ d.target \in Players /\ is_blocked(d.source) => Has(d.source, "Trample")

Lethally ==
  \A s \in DamageSteps : Resolves(s) =>
       \A d \in dealt'[s] :
         d.decl > 0 /\ d.target \in Players =>
           \A b \in Range(BlockersFor(d.source)) \cap DOMAIN board :
             Amount({e \in dealt'[s] : e.decl = d.decl /\ e.target = b})
               >= Lethal(d.source, b)

Struck ==
  Resolves("CombatDamage") =>
       \A c \in DOMAIN board \cap DOMAIN before :
         LET strikes(s) == \E d \in dealt'[s] : d.source = c
             fighting == \/ \E i \in DOMAIN blockers : blockers[i].blocker = c
                         \/ /\ ~is_blocked(c)
                            /\ \E i \in DOMAIN attackers : attackers[i].attacker = c
         IN  /\ fighting /\ board[c].granted = before[c].granted
             /\ board[c].power > 0 /\ before[c].power > 0
             => /\ strikes("FirstStrikeDamage") \/ strikes("CombatDamage")
                /\ strikes("FirstStrikeDamage") /\ strikes("CombatDamage")
                     <=> Has(c, "Double Strike")

(* An attacker is blocked iff it has blockers. *)
LEMMA BlockersForIs ==
  ASSUME CombatInv, NEW a
  PROVE  /\ ~is_blocked(a) <=> BlockersFor(a) = <<>>
         /\ Range(BlockersFor(a)) = {BlockersFor(a)[k] : k \in 1 .. Len(BlockersFor(a))}
         /\ DOMAIN BlockersFor(a) = 1 .. Len(BlockersFor(a))
<1>1. CASE ~is_blocked(a)
  <2>1. BlockersFor(a) = <<>> /\ DOMAIN BlockersFor(a) = 1 .. Len(BlockersFor(a))
    BY <1>1 DEF BlockersFor
  <2>. QED
    BY <1>1, <2>1 DEF Range
<1>2. CASE is_blocked(a)
  <2>1. BlockersFor(a) = damage_order[a] /\ a \in DOMAIN damage_order
    BY <1>2 DEF BlockersFor, is_blocked
  <2>2. BlockersFor(a) \in Seq(Creatures) /\ BlockersFor(a) # <<>>
    BY <2>1, OrderFacts DEF CombatInv
  <2>3. DOMAIN BlockersFor(a) = 1 .. Len(BlockersFor(a))
    BY <2>2, LenProperties
  <2>. QED
    BY <1>2, <2>2, <2>3 DEF Range
<1>. QED
  BY <1>1, <1>2

(* The four parts of DamageFitsCombat hold of every step that deals        *)
(* damage.                                                                 *)
LEMMA DamageFits ==
  ASSUME CombatInv, DealDamage
  PROVE  Spent /\ Blocked /\ Lethally /\ Struck
<1>1. ASSUME NEW s \in DamageSteps, Resolves(s), NEW i \in DOMAIN attackers,
             {d \in dealt'[s] : d.decl = i} # {}
      PROVE  /\ Fights(attackers[i].attacker, s)
             /\ {d \in dealt'[s] : d.decl = i} = AttackerDamage(i)
             /\ Spends(i, attackers[i].attacker, BlockersFor(attackers[i].attacker),
                     board[attackers[i].attacker].power, AttackerDamage(i))
  <2>. DEFINE D == resolve_combat_damage(s)
  <2>1. dealt'[s] = D
    BY <1>1, Resolved
  <2>2. {d \in D : d.decl = i} = IF Fights(attackers[i].attacker, s) THEN AttackerDamage(i) ELSE {}
    BY <1>1, Resolved
  <2>. HIDE DEF D
  <2>3. Fights(attackers[i].attacker, s)
    BY <1>1, <2>1, <2>2
  <2>4. Spends(i, attackers[i].attacker, BlockersFor(attackers[i].attacker),
                     board[attackers[i].attacker].power, AttackerDamage(i))
    BY <1>1, <2>3, Resolved
  <2>. QED
    BY <2>1, <2>2, <2>3, <2>4
<1>2. ASSUME NEW s \in DamageSteps, Resolves(s), NEW d \in dealt'[s], d.decl > 0
      PROVE  /\ d.decl \in DOMAIN attackers /\ d.source = attackers[d.decl].attacker
             /\ {e \in dealt'[s] : e.decl = d.decl} = AttackerDamage(d.decl)
             /\ Spends(d.decl, d.source, BlockersFor(d.source), board[d.source].power, AttackerDamage(d.decl))
             /\ d \in AttackerDamage(d.decl)
  <2>. DEFINE D == resolve_combat_damage(s)
  <2>1. dealt'[s] = D
    BY <1>2, Resolved
  <2>2. d.decl # 0 => d.decl \in DOMAIN attackers /\ d.source = attackers[d.decl].attacker
    BY <1>2, <2>1, Resolved
  <2>. HIDE DEF D
  <2>3. d.decl \in DOMAIN attackers /\ d.source = attackers[d.decl].attacker
    BY <1>2, <2>2
  <2>4. d \in {e \in dealt'[s] : e.decl = d.decl}
    OBVIOUS
  <2>. QED
    BY <1>1, <1>2, <2>3, <2>4
<1>3. Spent
  <2>1. SUFFICES ASSUME NEW s \in DamageSteps, Resolves(s), NEW i \in DOMAIN attackers,
                        {d \in dealt'[s] : d.decl = i} # {}
                 PROVE  LET a == attackers[i].attacker
                            mine == {d \in dealt'[s] : d.decl = i}
                        IN  /\ Amount(mine) <= board[a].power
                            /\ ~is_blocked(a) \/ Has(a, "Trample") => Amount(mine) = board[a].power
    BY DEF Spent
  <2>2. BlockersFor(attackers[i].attacker) = <<>> <=> ~is_blocked(attackers[i].attacker)
    BY BlockersForIs
  <2>. QED
    BY <1>1, <2>1, <2>2 DEF Spends
<1>4. Blocked
  <2>1. SUFFICES ASSUME NEW s \in DamageSteps, Resolves(s), NEW d \in dealt'[s],
                        d.decl > 0, d.target \in Players, is_blocked(d.source)
                 PROVE  Has(d.source, "Trample")
    BY DEF Blocked
  <2>2. BlockersFor(d.source) # <<>>
    BY <2>1, BlockersForIs
  <2>. QED
    BY <1>2, <2>1, <2>2 DEF Spends
<1>5. Lethally
  <2>1. SUFFICES ASSUME NEW s \in DamageSteps, Resolves(s), NEW d \in dealt'[s],
                        d.decl > 0, d.target \in Players,
                        NEW b \in Range(BlockersFor(d.source)) \cap DOMAIN board
                 PROVE  Amount({e \in dealt'[s] : e.decl = d.decl /\ e.target = b}) >= Lethal(d.source, b)
    BY DEF Lethally
  <2>. DEFINE A == AttackerDamage(d.decl)
              bs == BlockersFor(d.source)
  <2>2. PICK k \in 1 .. Len(bs) : b = bs[k]
    BY BlockersForIs
  <2>3. Spends(d.decl, d.source, bs, board[d.source].power, A) /\ d \in A
        /\ {e \in dealt'[s] : e.decl = d.decl} = A
    BY <1>2, <2>1
  <2>4. OnBoard(bs[k])
    BY <2>2 DEF OnBoard
  <2>. HIDE DEF A, bs
  <2>5. Amount({x \in A : x.target = bs[k]}) >= Lethal(d.source, bs[k])
    BY <2>1, <2>3, <2>4 DEF Spends
  <2>6. {e \in dealt'[s] : e.decl = d.decl /\ e.target = b} = {x \in A : x.target = bs[k]}
    BY <2>2, <2>3
  <2>. QED
    BY <2>2, <2>5, <2>6
<1>6. Struck
  <2>1. SUFFICES ASSUME Resolves("CombatDamage"), NEW c \in DOMAIN board \cap DOMAIN before,
                        Fighting(c), board[c].granted = before[c].granted,
                        board[c].power > 0, before[c].power > 0
                 PROVE  LET strikes(s) == \E d \in dealt'[s] : d.source = c
                        IN  /\ strikes("FirstStrikeDamage") \/ strikes("CombatDamage")
                            /\ strikes("FirstStrikeDamage") /\ strikes("CombatDamage")
                                 <=> Has(c, "Double Strike")
    BY DEF Struck, Fighting
  <2>. DEFINE D == resolve_combat_damage("CombatDamage")
  <2>2. "CombatDamage" \in DamageSteps /\ "FirstStrikeDamage" \in DamageSteps \ {"CombatDamage"}
    BY DEF DamageSteps
  <2>3. dealt'["CombatDamage"] = D /\ dealt'["FirstStrikeDamage"] = dealt["FirstStrikeDamage"]
    BY <2>1, <2>2, Resolved
  <2>4. (\E d \in D : d.source = c) <=> Fights(c, "CombatDamage")
    BY <2>1, <2>2, Resolved
  <2>5. step = "CombatDamage"
    BY <2>1 DEF Resolves
  <2>6. (\E d \in dealt["FirstStrikeDamage"] : d.source = c)
        <=> HadKey(c, "First Strike") \/ HadKey(c, "Double Strike")
    BY <2>1, <2>5 DEF CombatInv, FirstRound, StruckRight, StruckFirst
  <2>. HIDE DEF D
  <2>. QED
    BY <2>1, <2>3, <2>4, <2>6 DEF Fights, Strikes, Has, HadKey, OnBoard
<1>. QED
  BY <1>3, <1>4, <1>5, <1>6

-----------------------------------------------------------------------------
(* What the inputs of the steps can be *)

BoardOK(b) == DOMAIN b \subseteq Creatures /\ \A c \in DOMAIN b : b[c] \in Perms

(* The first opponent is somebody else than the active player. *)
LEMMA FirstOpponentIs ==
  ASSUME alive \subseteq Players, Cardinality(alive) > 1
  PROVE  FirstOpponent \in Players \ {Active}
<1>. DEFINE I == {i \in 1 .. Len(Seats) : Seats[i] # Active /\ Seats[i] \in alive}
<1>1. Seats \in Seq(Players) /\ Len(Seats) \in Nat /\ DOMAIN Seats = 1 .. Len(Seats)
  BY CombatAssumption, LenProperties
<1>2. \E p \in alive : p # Active
  <2>1. SUFFICES ASSUME \A p \in alive : p = Active
                 PROVE  FALSE
    OBVIOUS
  <2>2. IsFiniteSet({Active}) /\ Cardinality({Active}) = 1
    BY FS_Singleton
  <2>3. alive \subseteq {Active}
    BY <2>1
  <2>4. IsFiniteSet(alive) /\ Cardinality(alive) <= 1
    BY <2>2, <2>3, FS_Subset
  <2>5. Cardinality(alive) \in Nat
    BY <2>4, FS_CardinalityType
  <2>. QED
    BY <2>4, <2>5
<1>3. I # {}
  <2>1. PICK p \in alive : p # Active
    BY <1>2
  <2>2. \E i \in DOMAIN Seats : Seats[i] = p
    BY <2>1 DEF Players, Range
  <2>. QED
    BY <1>1, <2>1, <2>2
<1>4. Min(I) \in I
  <2>1. \E m \in I : \A y \in I : m =< y
    <3>1. I \in SUBSET Nat
      BY <1>1
    <3>. HIDE DEF I
    <3>2. PICK m \in I : \A y \in I : <<y, m>> \notin OpToRel(<, Nat)
      BY <1>3, <3>1, WFMin, NatLessThanWellFounded
    <3>3. \A y \in I : ~(y < m)
      BY <3>1, <3>2 DEF OpToRel
    <3>. QED
      BY <3>1, <3>3
  <2>. QED
    BY <2>1 DEF Min
<1>5. FirstOpponent = Seats[Min(I)]
  <2>1. SelectInSeq(Seats, LAMBDA p : p # Active /\ p \in alive) = IF I # {} THEN Min(I) ELSE 0
    BY DEF SelectInSeq
  <2>. QED
    BY <1>3, <2>1 DEF FirstOpponent
<1>6. Seats[Min(I)] \in Players
  <2>1. Min(I) \in 1 .. Len(Seats)
    BY <1>4
  <2>. HIDE DEF I
  <2>. QED
    BY <1>1, <2>1, ElementOfSeq
<1>. QED
  BY <1>4, <1>5, <1>6

(* A bounded sequence is a sequence. *)
LEMMA SeqOfPairs ==
  ASSUME NEW S, NEW n \in Nat, NEW s \in BoundedSeq(S, n)
  PROVE  s \in Seq(S)
<1>1. PICK m \in 0 .. n : s \in [1 .. m -> S]
  BY DEF BoundedSeq, SeqOf
<1>. QED
  BY <1>1

(* The attackers that are kept of an answer: no creature twice unless it   *)
(* has vigilance.                                                          *)
LEMMA AttackersAre ==
  ASSUME TypeOK, Typed, Cardinality(alive) > 1,
         NEW pairs \in BoundedSeq(Creatures \X Players, MaxPairs)
  PROVE  /\ Attackers(pairs) \in Seq([attacker : Creatures, defender : Players \ {Active}])
         /\ \A i, j \in DOMAIN Attackers(pairs) :
              i # j /\ Attackers(pairs)[i].attacker = Attackers(pairs)[j].attacker
              => Has(Attackers(pairs)[i].attacker, "Vigilance")
<1>. DEFINE S == Creatures \X Players
            I == AttackPositions(pairs)
            chosen == AtPositions(pairs, I)
            A == Attackers(pairs)
<1>1. pairs \in Seq(S)
  <2>1. pairs \in BoundedSeq(S, MaxPairs)
    OBVIOUS
  <2>. HIDE DEF S
  <2>. QED
    BY <2>1, CombatAssumption, SeqOfPairs
<1>2. chosen \in Seq(S) /\ \E pos : PicksOut(pos, chosen, pairs, I, Len(pairs))
  <2>. HIDE DEF I, S
  <2>. QED
    BY <1>1, AtPositionsPicks
<1>3. PICK pos : PicksOut(pos, chosen, pairs, I, Len(pairs))
  BY <1>2
<1>4. DOMAIN pairs = 1 .. Len(pairs) /\ DOMAIN chosen = 1 .. Len(chosen) /\ Len(chosen) \in Nat
      /\ Len(pairs) \in Nat /\ (\A j \in 1 .. Len(chosen) : chosen[j] \in S)
  <2>. HIDE DEF chosen, S
  <2>. QED
    BY <1>1, <1>2, LenProperties, ElementOfSeq
<1>5. A = [i \in 1 .. Len(chosen) |-> [attacker |-> chosen[i][1], defender |-> Defender(chosen[i][2])]]
  BY <1>4 DEF Attackers
<1>. HIDE DEF chosen, A
<1>6. \A p : Defender(p) \in Players \ {Active}
  BY FirstOpponentIs DEF Defender, TypeOK
<1>7. A \in Seq([attacker : Creatures, defender : Players \ {Active}])
  <2>. DEFINE R == [attacker : Creatures, defender : Players \ {Active}]
  <2>1. \A i \in 1 .. Len(chosen) : A[i] \in R
    BY <1>4, <1>5, <1>6
  <2>. HIDE DEF R
  <2>2. A \in [1 .. Len(chosen) -> R]
    BY <1>5, <2>1
  <2>3. A \in Seq(R)
    BY <1>4, <2>2
  <2>. QED
    BY <2>3 DEF R
<1>8. ASSUME NEW i \in DOMAIN A, NEW j \in DOMAIN A, i < j, A[i].attacker = A[j].attacker
      PROVE  Has(A[i].attacker, "Vigilance")
  <2>1. i \in 1 .. Len(chosen) /\ j \in 1 .. Len(chosen)
    BY <1>5
  <2>2. A[i].attacker = chosen[i][1] /\ A[j].attacker = chosen[j][1]
    BY <1>5, <2>1
  <2>3. /\ pos[i] \in I /\ pos[j] \in I /\ pos[i] \in 1 .. Len(pairs) /\ pos[j] \in 1 .. Len(pairs)
        /\ pos[i] < pos[j] /\ chosen[i] = pairs[pos[i]] /\ chosen[j] = pairs[pos[j]]
    BY <1>3, <1>8, <2>1 DEF PicksOut
  <2>4. pos[i] \in 1 .. pos[j] - 1
    BY <2>3
  <2>5. \/ Has(pairs[pos[j]][1], "Vigilance")
        \/ \A m \in 1 .. pos[j] - 1 : pairs[m][1] # pairs[pos[j]][1]
    BY <2>3 DEF AttackPositions
  <2>. QED
    BY <1>8, <2>2, <2>3, <2>4, <2>5
<1>9. ASSUME NEW i \in DOMAIN A, NEW j \in DOMAIN A, i # j, A[i].attacker = A[j].attacker
      PROVE  Has(A[i].attacker, "Vigilance")
  <2>1. i \in Int /\ j \in Int
    BY <1>5
  <2>2. CASE i < j
    BY <1>8, <1>9, <2>2
  <2>3. CASE j < i
    BY <1>8, <1>9, <2>3
  <2>. QED
    BY <1>9, <2>1, <2>2, <2>3
<1>. QED
  BY <1>7, <1>9 DEF A

(* Tapping creatures, and removing those that died, leaves well-typed      *)
(* creatures.                                                              *)
LEMMA TappedOK ==
  ASSUME BoardOK(board), NEW cs
  PROVE  BoardOK(Tapped(cs))
<1>1. ASSUME NEW c \in DOMAIN board
      PROVE  [board[c] EXCEPT !.tapped = @ \/ (c \in cs /\ ~Has(c, "Vigilance"))] \in Perms
  <2>1. board[c] \in Perms
    BY DEF BoardOK
  <2>2. (board[c].tapped \/ (c \in cs /\ ~Has(c, "Vigilance"))) \in BOOLEAN
    OBVIOUS
  <2>. QED
    BY <2>1, <2>2 DEF Perms
<1>. QED
  BY <1>1 DEF BoardOK, Tapped

LEMMA SurvivorsOK ==
  ASSUME NEW b, BoardOK(b)
  PROVE  BoardOK(Survivors(b))
BY DEF BoardOK, Survivors, Restrict

(* What a player p answers to the prompt for blockers. *)
LEMMA BlocksAre ==
  ASSUME NEW p, NEW pairs \in Pairs
  PROVE  /\ Blocks(p, pairs) \in Seq([blocker : Creatures, attacker : Creatures])
         /\ \A i \in DOMAIN Blocks(p, pairs) :
              /\ Controller[Blocks(p, pairs)[i].blocker] = p
              /\ Blocks(p, pairs)[i].attacker \in Attacking
         /\ \A i, j \in DOMAIN Blocks(p, pairs) :
              Blocks(p, pairs)[i].blocker = Blocks(p, pairs)[j].blocker => i = j
<1>. DEFINE S == Creatures \X Creatures
            I == BlockPositions(p, pairs)
            chosen == AtPositions(pairs, I)
            B == Blocks(p, pairs)
<1>1. pairs \in Seq(S)
  <2>1. pairs \in BoundedSeq(S, MaxPairs)
    BY DEF Pairs
  <2>. HIDE DEF S
  <2>. QED
    BY <2>1, CombatAssumption, SeqOfPairs
<1>2. chosen \in Seq(S) /\ \E pos : PicksOut(pos, chosen, pairs, I, Len(pairs))
  <2>. HIDE DEF I, S
  <2>. QED
    BY <1>1, AtPositionsPicks
<1>3. PICK pos : PicksOut(pos, chosen, pairs, I, Len(pairs))
  BY <1>2
<1>4. DOMAIN pairs = 1 .. Len(pairs) /\ DOMAIN chosen = 1 .. Len(chosen) /\ Len(chosen) \in Nat
      /\ Len(pairs) \in Nat /\ (\A j \in 1 .. Len(chosen) : chosen[j] \in S)
  <2>. HIDE DEF chosen, S
  <2>. QED
    BY <1>1, <1>2, LenProperties, ElementOfSeq
<1>5. B = [i \in 1 .. Len(chosen) |-> [blocker |-> chosen[i][1], attacker |-> chosen[i][2]]]
  BY <1>4 DEF Blocks
<1>. HIDE DEF chosen, B
<1>7. B \in Seq([blocker : Creatures, attacker : Creatures])
  <2>. DEFINE R == [blocker : Creatures, attacker : Creatures]
  <2>1. \A i \in 1 .. Len(chosen) : B[i] \in R
    BY <1>4, <1>5
  <2>. HIDE DEF R
  <2>2. B \in [1 .. Len(chosen) -> R]
    BY <1>5, <2>1
  <2>3. B \in Seq(R)
    BY <1>4, <2>2
  <2>. QED
    BY <2>3 DEF R
<1>8. ASSUME NEW i \in DOMAIN B
      PROVE  /\ pos[i] \in I /\ B[i].blocker = pairs[pos[i]][1] /\ B[i].attacker = pairs[pos[i]][2]
             /\ pos[i] \in Int /\ i \in 1 .. Len(chosen)
  <2>1. i \in 1 .. Len(chosen)
    BY <1>5
  <2>2. B[i].blocker = chosen[i][1] /\ B[i].attacker = chosen[i][2]
    BY <1>5, <2>1
  <2>. QED
    BY <1>3, <2>1, <2>2 DEF PicksOut
<1>9. ASSUME NEW i \in DOMAIN B
      PROVE  Controller[B[i].blocker] = p /\ B[i].attacker \in Attacking
  BY <1>8 DEF BlockPositions, MayBlock, Attacking
<1>10. ASSUME NEW i \in DOMAIN B, NEW j \in DOMAIN B, B[i].blocker = B[j].blocker
       PROVE  i = j
  <2>1. /\ pos[i] \in I /\ B[i].blocker = pairs[pos[i]][1] /\ pos[i] \in Int /\ i \in 1 .. Len(chosen)
        /\ pos[j] \in I /\ B[j].blocker = pairs[pos[j]][1] /\ pos[j] \in Int /\ j \in 1 .. Len(chosen)
    BY <1>8
  <2>2. \A x, y \in I : x < y => pairs[x][1] # pairs[y][1]
    BY DEF BlockPositions
  <2>3. pos[i] = pos[j]
    <3>. HIDE DEF I
    <3>1. pairs[pos[i]][1] = pairs[pos[j]][1]
      BY <1>10, <2>1
    <3>2. ~(pos[i] < pos[j]) /\ ~(pos[j] < pos[i])
      BY <2>1, <2>2, <3>1
    <3>. QED
      BY <2>1, <3>2
  <2>4. ~(i < j) /\ ~(j < i)
    BY <1>3, <2>1, <2>3 DEF PicksOut
  <2>. QED
    BY <2>1, <2>4
<1>. QED
  BY <1>7, <1>9, <1>10 DEF B

-----------------------------------------------------------------------------
(* Each step keeps the invariant *)

\* TypeOK and Typed by the variables they are about.
PlayersOK == alive \subseteq Players /\ life \in [Players -> Int]

PlacesOK ==
  /\ attackers \in Seq([attacker : Creatures, defender : Players \ {Active}])
  /\ blockers \in Seq([blocker : Creatures, attacker : Creatures])
  /\ DOMAIN damage_order \cup DOMAIN custom_damage \subseteq Attacking
  /\ damage_order \in [DOMAIN damage_order -> Seq(Creatures)]

BeforeOK == BoardOK(before) /\ DOMAIN dealt = DamageSteps

LEMMA TypesSplit ==
  TypeOK /\ Typed <=> /\ step \in Steps
                      /\ todo = Waiting \/ todo \in Seq(Creatures \cup Players)
                      /\ effects \in 0 .. MaxEffects
                      /\ PlayersOK /\ BoardOK(board) /\ PlacesOK /\ BeforeOK
BY DEF TypeOK, Typed, PlayersOK, PlacesOK, BeforeOK, BoardOK, Attacking

LEMMA TypesSplitNext ==
  TypeOK' /\ Typed' <=> /\ step' \in Steps
                        /\ todo' = Waiting \/ todo' \in Seq(Creatures \cup Players)
                        /\ effects' \in 0 .. MaxEffects
                        /\ PlayersOK' /\ BoardOK(board') /\ PlacesOK' /\ BeforeOK'
BY
   DEF TypeOK, Typed, PlayersOK, PlacesOK, BeforeOK, BoardOK, Attacking, Waiting, Steps,
       DamageSteps, Perms

OrderFits(bs, order) ==
  /\ DOMAIN order = {bs[i].attacker : i \in DOMAIN bs}
  /\ \A a \in DOMAIN order : SamePeople(BlockersAmong(bs, a), order[a])
  /\ \A i, j \in DOMAIN bs : bs[i].blocker = bs[j].blocker => i = j

(* OrderFitsBlocks, of this state and of the next. *)
LEMMA OrderIs ==
  /\ OrderFitsBlocks <=> OrderFits(blockers, damage_order)
  /\ OrderFitsBlocks' <=> OrderFits(blockers', damage_order')
BY DEF OrderFitsBlocks, OrderFits

(* The parts of the invariant hold on where a step leaves their variables  *)
(* alone.                                                                  *)
LEMMA SameOrder ==
  ASSUME OrderFitsBlocks, UNCHANGED <<blockers, damage_order>>
  PROVE  OrderFitsBlocks'
BY DEF OrderFitsBlocks

LEMMA SamePlaces ==
  ASSUME PlacesOK, UNCHANGED <<attackers, blockers, damage_order>>,
                               custom_damage' = <<>> \/ custom_damage' = custom_damage
  PROVE  PlacesOK'
BY DEF PlacesOK, Attacking

LEMMA SameStrikes ==
  ASSUME StruckRight, UNCHANGED <<before, dealt, attackers, blockers, damage_order>>
  PROVE  StruckRight'
BY DEF StruckRight, Fighting, StruckFirst, HadKey, is_blocked

LEMMA SameChoice ==
  ASSUME NEW a, Chosen(a), UNCHANGED <<board, damage_order>>, custom_damage'[a] = custom_damage[a]
  PROVE  Chosen(a)'
BY DEF Chosen, AcceptsParts, OnBoard, Has, Lethal

(* Sequences over a set, the mark that no list is made, and empty          *)
(* sequences.                                                              *)
LEMMA WiderSeq ==
  ASSUME NEW S, NEW T, S \subseteq T, NEW s \in Seq(S)
  PROVE  s \in Seq(T)
<1>1. Len(s) \in Nat /\ DOMAIN s = 1 .. Len(s) /\ s \in [1 .. Len(s) -> S]
  BY LenProperties
<1>2. s \in [1 .. Len(s) -> T]
  BY <1>1
<1>. QED
  BY <1>1, <1>2

LEMMA Awaiting ==
  ASSUME NEW S, S \subseteq Creatures \cup Players
  PROVE  Waiting \notin Seq(S)
<1>1. ASSUME Waiting \in Seq(S)
      PROVE  FALSE
  <2>1. Waiting[1] \in S
    BY <1>1, NotWaiting, ElementOfSeq
  <2>2. Waiting[1] = "priority"
    BY DEF Waiting
  <2>. QED
    BY <2>1, <2>2, CombatAssumption
<1>. QED
  BY <1>1

LEMMA Empties ==
  ASSUME NEW S
  PROVE  <<>> \in Seq(S) /\ IsInjective(<<>>) /\ Range(<<>>) = {} /\ DOMAIN <<>> = {}
BY DEF IsInjective, Range

(* The list of people to prompt without its first. *)
LEMMA TailIs ==
  ASSUME NEW S, NEW s \in Seq(S), s # <<>>
  PROVE  /\ Tail(s) \in Seq(S) /\ Head(s) \in S
         /\ IsInjective(s) => IsInjective(Tail(s)) /\ Head(s) \notin Range(Tail(s))
         /\ Range(Tail(s)) \subseteq Range(s)
<1>1. /\ Tail(s) \in Seq(S) /\ Head(s) \in S /\ Head(s) = s[1] /\ Len(s) \in Nat \ {0}
      /\ Len(Tail(s)) = Len(s) - 1 /\ DOMAIN s = 1 .. Len(s)
      /\ DOMAIN Tail(s) = 1 .. Len(s) - 1
  BY HeadTailProperties, LenProperties, EmptySeq
<1>2. \A i \in 1 .. Len(s) - 1 : Tail(s)[i] = s[i + 1] /\ i + 1 \in 1 .. Len(s) /\ i + 1 # 1
  BY <1>1
<1>3. Range(Tail(s)) \subseteq Range(s)
  BY <1>1, <1>2 DEF Range
<1>4. ASSUME IsInjective(s)
      PROVE  IsInjective(Tail(s)) /\ Head(s) \notin Range(Tail(s))
  <2>1. \A i, j \in 1 .. Len(s) : s[i] = s[j] => i = j
    BY <1>1, <1>4 DEF IsInjective
  <2>2. \A i, j \in 1 .. Len(s) - 1 : Tail(s)[i] = Tail(s)[j] => i = j
    <3>1. SUFFICES ASSUME NEW i \in 1 .. Len(s) - 1, NEW j \in 1 .. Len(s) - 1, Tail(s)[i] = Tail(s)[j]
                   PROVE  i = j
      OBVIOUS
    <3>2. i + 1 = j + 1
      BY <1>2, <2>1, <3>1
    <3>. QED
      BY <1>1, <3>2
  <2>3. \A i \in 1 .. Len(s) - 1 : Tail(s)[i] # s[1]
    <3>1. SUFFICES ASSUME NEW i \in 1 .. Len(s) - 1, Tail(s)[i] = s[1]
                   PROVE  FALSE
      OBVIOUS
    <3>2. 1 \in 1 .. Len(s)
      BY <1>1
    <3>. QED
      BY <1>2, <2>1, <3>1, <3>2
  <2>. QED
    BY <1>1, <2>2, <2>3 DEF IsInjective, Range
<1>. QED
  BY <1>1, <1>3, <1>4

(* What a step may use of the invariant, and what it has to show. *)
LEMMA InvParts ==
  CombatInv => /\ step \in Steps /\ (todo = Waiting \/ todo \in Seq(Creatures \cup Players))
               /\ effects \in 0 .. MaxEffects
               /\ PlayersOK /\ BoardOK(board) /\ PlacesOK /\ BeforeOK
               /\ Phased /\ Early /\ BlocksOpen /\ OrderFits(blockers, damage_order)
               /\ ChoicesHold /\ FirstRound /\ TypeOK /\ Typed
BY TypesSplit, OrderIs DEF CombatInv

LEMMA InvWhole ==
  ASSUME step' \in Steps, todo' = Waiting \/ todo' \in Seq(Creatures \cup Players),
         effects' \in 0 .. MaxEffects,
         PlayersOK', BoardOK(board'), PlacesOK', BeforeOK', Phased', Early', BlocksOpen',
         OrderFits(blockers', damage_order'), ChoicesHold', FirstRound'
  PROVE  CombatInv'
BY TypesSplitNext, OrderIs DEF CombatInv

(* Nobody attacks: the combat is over. *)
LEMMA NoAttackKeeps ==
  ASSUME CombatInv, NoAttack
  PROVE  CombatInv'
<1>. USE InvParts
<1>1. /\ step = "BeginningOfCombat" /\ step' = "DeclareAttackers" /\ todo = Waiting /\ todo' = Waiting
      /\ UNCHANGED <<life, board, attackers, blockers, damage_order, custom_damage, dealt,
                     before, effects>>
      /\ alive' \subseteq alive
  BY DEF NoAttack, Enter, InPriority, combat
<1>2. PlayersOK' /\ PlacesOK' /\ BeforeOK'
  BY <1>1, SamePlaces DEF PlayersOK, BeforeOK
<1>3. Phased' /\ Early' /\ BlocksOpen' /\ ChoicesHold' /\ FirstRound'
  BY <1>1 DEF Phased, Quiet, Prompted, Early, BlocksOpen, ChoicesHold, FirstRound, DamageSteps
<1>4. step' \in Steps
  BY <1>1 DEF Steps
<1>. QED
  BY <1>1, <1>2, <1>3, <1>4, InvWhole

(* All blocks are declared. *)
LEMMA BlocksDoneKeeps ==
  ASSUME CombatInv, BlocksDone
  PROVE  CombatInv'
<1>. USE InvParts
<1>1. /\ step = "OrderBlockers" /\ step' = "DeclareBlockers" /\ todo' = Waiting
      /\ UNCHANGED <<alive, life, board, attackers, blockers, damage_order, custom_damage,
                     dealt, before, effects>>
  BY DEF BlocksDone, combat
<1>2. PlayersOK' /\ PlacesOK' /\ BeforeOK'
  BY <1>1, SamePlaces DEF PlayersOK, BeforeOK
<1>3. Phased' /\ Early' /\ BlocksOpen' /\ ChoicesHold' /\ FirstRound'
  BY <1>1 DEF Phased, Quiet, Prompted, Early, BlocksOpen, ChoicesHold, FirstRound, DamageSteps
<1>4. step' \in Steps
  BY <1>1 DEF Steps
<1>. QED
  BY <1>1, <1>2, <1>3, <1>4, InvWhole

(* Everything is cleared. *)
LEMMA EndOfCombatKeeps ==
  ASSUME CombatInv, EndOfCombat
  PROVE  CombatInv'
<1>. USE InvParts
<1>1. /\ step = "CombatDamage" /\ step' = "EndOfCombat" /\ todo = Waiting /\ todo' = Waiting
      /\ attackers' = <<>> /\ blockers' = <<>> /\ damage_order' = <<>> /\ custom_damage' = <<>>
      /\ UNCHANGED <<alive, life, board, dealt, before, effects>>
  BY DEF EndOfCombat, Enter, InPriority, EmptyCombat
<1>2. PlayersOK' /\ BeforeOK'
  BY <1>1 DEF PlayersOK, BeforeOK
<1>3. PlacesOK'
  BY <1>1 DEF PlacesOK, Attacking
<1>4. Phased' /\ Early' /\ BlocksOpen' /\ ChoicesHold' /\ FirstRound'
  BY <1>1 DEF Phased, Quiet, Prompted, Early, BlocksOpen, ChoicesHold, FirstRound, DamageSteps
<1>5. OrderFits(<<>>, <<>>)
  BY DEF OrderFits
<1>6. step' \in Steps
  BY <1>1 DEF Steps
<1>. QED
  BY <1>1, <1>2, <1>3, <1>4, <1>5, <1>6, InvWhole

(* Who was to be prompted has left the game. *)
LEMMA PromptedIsGoneKeeps ==
  ASSUME CombatInv, PromptedIsGone
  PROVE  CombatInv'
<1>. USE InvParts
<1>1. /\ step \in {"DeclareBlockers", "OrderBlockers"} /\ step' = step /\ todo' = <<>>
      /\ UNCHANGED <<life, board, attackers, blockers, damage_order, custom_damage, dealt,
                     before, effects>>
      /\ alive' \subseteq alive
  BY DEF PromptedIsGone, Prompting, combat
<1>2. PlayersOK' /\ PlacesOK' /\ BeforeOK'
  BY <1>1, SamePlaces DEF PlayersOK, BeforeOK
<1>3. Phased' /\ BlocksOpen'
  <2>1. <<>> \in Seq(Players) /\ IsInjective(<<>>) /\ Range(<<>>) = {} /\ <<>> \in Seq(DOMAIN damage_order')
    BY Empties
  <2>. QED
    BY <1>1, <2>1 DEF Phased, Quiet, BlocksOpen, DamageSteps
<1>4. Early' /\ ChoicesHold' /\ FirstRound'
  BY <1>1 DEF Early, ChoicesHold, FirstRound, DamageSteps
<1>. QED
  BY <1>1, <1>2, <1>3, <1>4, Empties, InvWhole

(* The opponents are prompted in turn, none of them blocks yet. *)
LEMMA BeginBlocksKeeps ==
  ASSUME CombatInv, BeginBlocks
  PROVE  CombatInv'
<1>. USE InvParts
<1>1. /\ step = "DeclareAttackers" /\ step' = "DeclareBlockers"
      /\ UNCHANGED <<alive, life, board, attackers, blockers, damage_order, custom_damage,
                     dealt, before, effects>>
  BY DEF BeginBlocks, Enter, InPriority, combat
<1>2. PlayersOK' /\ PlacesOK' /\ BeforeOK'
  BY <1>1, SamePlaces DEF PlayersOK, BeforeOK
<1>3. todo' = Waiting \/ (todo' \in Seq(Players) /\ IsInjective(todo'))
  <2>. DEFINE I == {i \in DOMAIN Seats : Seats[i] # Active}
              t == AtPositions(Seats, I)
  <2>1. todo' = Waiting \/ todo' = t
    BY DEF BeginBlocks
  <2>2. t \in Seq(Players) /\ \E pos : PicksOut(pos, t, Seats, I, Len(Seats))
    <3>. HIDE DEF I
    <3>. QED
      BY CombatAssumption, AtPositionsPicks
  <2>3. PICK pos : PicksOut(pos, t, Seats, I, Len(Seats))
    BY <2>2
  <2>4. DOMAIN t = 1 .. Len(t) /\ Len(t) \in Nat /\ DOMAIN Seats = 1 .. Len(Seats)
    <3>. HIDE DEF t
    <3>. QED
      BY <2>2, CombatAssumption, LenProperties
  <2>. HIDE DEF t
  <2>5. ASSUME NEW i \in DOMAIN t, NEW j \in DOMAIN t, t[i] = t[j]
        PROVE  i = j
    <3>1. pos[i] \in DOMAIN Seats /\ pos[j] \in DOMAIN Seats /\ Seats[pos[i]] = Seats[pos[j]]
          /\ pos[i] \in Int /\ pos[j] \in Int /\ i \in Int /\ j \in Int
      BY <2>3, <2>4, <2>5 DEF PicksOut
    <3>2. pos[i] = pos[j]
      BY <3>1, CombatAssumption DEF IsInjective
    <3>3. ~(i < j) /\ ~(j < i)
      BY <2>3, <2>4, <3>1, <3>2 DEF PicksOut
    <3>. QED
      BY <3>1, <3>3
  <2>. QED
    BY <2>1, <2>2, <2>5 DEF IsInjective
<1>4. todo' = Waiting \/ todo' \in Seq(Creatures \cup Players)
  BY <1>3, WiderSeq
<1>5. Phased' /\ Early' /\ BlocksOpen' /\ ChoicesHold' /\ FirstRound'
  BY <1>1, <1>3
     DEF Phased, Quiet, Prompted, Early, BlocksOpen, ChoicesHold, FirstRound, DamageSteps
<1>6. step' \in Steps
  BY <1>1 DEF Steps
<1>. QED
  BY <1>1, <1>2, <1>4, <1>5, <1>6, InvWhole

(* SamePeople, that one sequence is an order of another, is reflexive, *)
LEMMA SamePeopleRefl ==
  ASSUME NEW s, s = [i \in DOMAIN s |-> s[i]]
  PROVE  SamePeople(s, s)
<1>. DEFINE f == [i \in DOMAIN s |-> i]
<1>1. f \in Bijection(DOMAIN s, DOMAIN s)
  BY DEF Bijection, Injection, Surjection, IsInjective
<1>2. s = [i \in DOMAIN s |-> s[f[i]]]
  OBVIOUS
<1>. HIDE DEF f
<1>. QED
  BY <1>1, <1>2 DEF SamePeople

(* and transitive. *)
LEMMA SamePeopleTrans ==
  ASSUME NEW s, NEW t, NEW u, SamePeople(s, t), SamePeople(t, u)
  PROVE  SamePeople(s, u)
<1>1. PICK f \in Bijection(DOMAIN s, DOMAIN s) : t = [i \in DOMAIN s |-> s[f[i]]]
  BY DEF SamePeople
<1>2. PICK g \in Bijection(DOMAIN t, DOMAIN t) : u = [i \in DOMAIN t |-> t[g[i]]]
  BY DEF SamePeople
<1>3. DOMAIN t = DOMAIN s
  BY <1>1
<1>. DEFINE h == [i \in DOMAIN s |-> f[g[i]]]
<1>4. /\ f \in [DOMAIN s -> DOMAIN s] /\ g \in [DOMAIN s -> DOMAIN s]
      /\ \A x, y \in DOMAIN s : f[x] = f[y] => x = y
      /\ \A x, y \in DOMAIN s : g[x] = g[y] => x = y
      /\ \A x \in DOMAIN s : \E y \in DOMAIN s : f[y] = x
      /\ \A x \in DOMAIN s : \E y \in DOMAIN s : g[y] = x
  BY <1>1, <1>2, <1>3 DEF Bijection, Injection, Surjection, IsInjective
<1>5. h \in Bijection(DOMAIN s, DOMAIN s)
  <2>1. h \in [DOMAIN s -> DOMAIN s]
    BY <1>4
  <2>2. \A x, y \in DOMAIN s : h[x] = h[y] => x = y
    BY <1>4
  <2>3. \A x \in DOMAIN s : \E y \in DOMAIN s : h[y] = x
    <3>1. SUFFICES ASSUME NEW x \in DOMAIN s PROVE \E y \in DOMAIN s : h[y] = x
      OBVIOUS
    <3>2. PICK z \in DOMAIN s : f[z] = x
      BY <1>4
    <3>3. PICK y \in DOMAIN s : g[y] = z
      BY <1>4
    <3>. QED
      BY <3>2, <3>3
  <2>. HIDE DEF h
  <2>. QED
    BY <2>1, <2>2, <2>3 DEF Bijection, Injection, Surjection, IsInjective
<1>6. u = [i \in DOMAIN s |-> s[h[i]]]
  <2>1. \A i \in DOMAIN s : t[g[i]] = s[h[i]]
    BY <1>1, <1>4
  <2>. HIDE DEF h
  <2>. QED
    BY <1>2, <1>3, <2>1
<1>. HIDE DEF h
<1>. QED
  BY <1>5, <1>6 DEF SamePeople

(* Attackers are declared, and DeclarationsFit has no objection. *)
LEMMA DeclareAttackersKeeps ==
  ASSUME CombatInv, DeclareAttackers
  PROVE  /\ CombatInv'
         /\ \A i, j \in DOMAIN attackers' :
              i # j /\ attackers'[i].attacker = attackers'[j].attacker
                => Has(attackers'[i].attacker, "Vigilance")
<1>. USE InvParts
<1>1. /\ step = "BeginningOfCombat" /\ step' = "DeclareAttackers" /\ todo = Waiting
      /\ Cardinality(alive) > 1
      /\ UNCHANGED <<todo, alive, life, blockers, damage_order, custom_damage, dealt, before,
                     effects>>
  BY DEF DeclareAttackers, Enter, InPriority
<1>2. PICK pairs \in BoundedSeq(Creatures \X Players, MaxPairs) :
            /\ attackers' = Attackers(pairs)
            /\ board' = Tapped({attackers'[i].attacker : i \in DOMAIN attackers'})
  BY DEF DeclareAttackers
<1>3. /\ attackers' \in Seq([attacker : Creatures, defender : Players \ {Active}])
      /\ \A i, j \in DOMAIN attackers' :
           i # j /\ attackers'[i].attacker = attackers'[j].attacker
             => Has(attackers'[i].attacker, "Vigilance")
  BY <1>1, <1>2, AttackersAre
<1>4. blockers = <<>> /\ damage_order = <<>> /\ custom_damage = <<>>
  BY <1>1 DEF Early, DamageSteps
<1>5. PlayersOK' /\ BeforeOK'
  BY <1>1 DEF PlayersOK, BeforeOK
<1>6. PlacesOK'
  BY <1>1, <1>3, <1>4, Empties DEF PlacesOK, Attacking
<1>7. BoardOK(board')
  BY <1>2, TappedOK
<1>8. Phased' /\ Early' /\ BlocksOpen' /\ ChoicesHold' /\ FirstRound'
  BY <1>1, <1>4
     DEF Phased, Quiet, Prompted, Early, BlocksOpen, ChoicesHold, FirstRound, DamageSteps
<1>9. step' \in Steps
  BY <1>1 DEF Steps
<1>. QED
  BY <1>1, <1>3, <1>5, <1>6, <1>7, <1>8, <1>9, InvWhole

(* The damage orders that begin_ordering sets up: the blockers of every    *)
(* attacker.                                                               *)
LEMMA OrderFromFits ==
  ASSUME NEW bs \in Seq([blocker : Creatures, attacker : Creatures]),
         \A i, j \in DOMAIN bs : bs[i].blocker = bs[j].blocker => i = j
  PROVE  /\ OrderFits(bs, OrderFrom(bs))
         /\ OrderFrom(bs) \in [DOMAIN OrderFrom(bs) -> Seq(Creatures)]
         /\ DOMAIN OrderFrom(bs) = {bs[i].attacker : i \in DOMAIN bs}
<1>. DEFINE d == {bs[i].attacker : i \in DOMAIN bs}
<1>1. OrderFrom(bs) = [a \in d |-> BlockersAmong(bs, a)]
  BY DEF OrderFrom
<1>2. \A a : BlockersAmong(bs, a) \in Seq(Creatures) /\ SamePeople(BlockersAmong(bs, a), BlockersAmong(bs, a))
  <2>1. SUFFICES ASSUME NEW a
                 PROVE  /\ BlockersAmong(bs, a) \in Seq(Creatures)
                        /\ SamePeople(BlockersAmong(bs, a), BlockersAmong(bs, a))
    OBVIOUS
  <2>. DEFINE s == BlockersAmong(bs, a)
  <2>2. s \in Seq(Creatures)
    BY BlockersAmongIs
  <2>. HIDE DEF s
  <2>3. s = [i \in DOMAIN s |-> s[i]]
    BY <2>2
  <2>4. SamePeople(s, s)
    BY <2>3, SamePeopleRefl
  <2>. QED
    BY <2>2, <2>4 DEF s
<1>. HIDE DEF d
<1>3. DOMAIN OrderFrom(bs) = d /\ \A a \in d : OrderFrom(bs)[a] = BlockersAmong(bs, a)
  BY <1>1
<1>4. OrderFits(bs, OrderFrom(bs))
  BY <1>2, <1>3 DEF OrderFits, d
<1>5. OrderFrom(bs) \in [d -> Seq(Creatures)]
  BY <1>1, <1>2
<1>. QED
  BY <1>3, <1>4, <1>5 DEF d

(* Blocks of a player none of whose creatures blocks yet. *)
LEMMA MoreBlocks ==
  ASSUME NEW bs \in Seq([blocker : Creatures, attacker : Creatures]),
         NEW cs \in Seq([blocker : Creatures, attacker : Creatures]), NEW p, NEW A,
         \A i, j \in DOMAIN bs : bs[i].blocker = bs[j].blocker => i = j,
         \A i, j \in DOMAIN cs : cs[i].blocker = cs[j].blocker => i = j,
         \A i \in DOMAIN bs : Controller[bs[i].blocker] # p /\ bs[i].attacker \in A,
         \A i \in DOMAIN cs : Controller[cs[i].blocker] = p /\ cs[i].attacker \in A
  PROVE  /\ bs \o cs \in Seq([blocker : Creatures, attacker : Creatures])
         /\ \A i, j \in DOMAIN (bs \o cs) : (bs \o cs)[i].blocker = (bs \o cs)[j].blocker => i = j
         /\ \A i \in DOMAIN (bs \o cs) :
              /\ (bs \o cs)[i].attacker \in A
              /\ \/ Controller[(bs \o cs)[i].blocker] = p
                 \/ \E j \in DOMAIN bs : (bs \o cs)[i] = bs[j]
<1>. DEFINE R == [blocker : Creatures, attacker : Creatures]
            n == Len(bs)
            ds == bs \o cs
<1>1. /\ ds \in Seq(R) /\ n \in Nat /\ Len(cs) \in Nat /\ DOMAIN bs = 1 .. n /\ DOMAIN cs = 1 .. Len(cs)
      /\ DOMAIN ds = 1 .. n + Len(cs)
      /\ \A i \in 1 .. n + Len(cs) : ds[i] = IF i <= n THEN bs[i] ELSE cs[i - n]
  <2>1. bs \in Seq(R) /\ cs \in Seq(R)
    OBVIOUS
  <2>. HIDE DEF R
  <2>2. ds \in Seq(R) /\ Len(ds) = n + Len(cs)
        /\ \A i \in 1 .. n + Len(cs) : ds[i] = IF i <= n THEN bs[i] ELSE cs[i - n]
    BY <2>1, ConcatProperties
  <2>3. n \in Nat /\ Len(cs) \in Nat /\ DOMAIN bs = 1 .. n /\ DOMAIN cs = 1 .. Len(cs)
    BY <2>1, LenProperties
  <2>4. DOMAIN ds = 1 .. Len(ds)
    BY <2>2, LenProperties
  <2>. QED
    BY <2>2, <2>3, <2>4
<1>. HIDE DEF ds, n, R
<1>2. ASSUME NEW i \in DOMAIN ds
      PROVE  \/ i \in DOMAIN bs /\ ds[i] = bs[i] /\ Controller[ds[i].blocker] # p /\ ds[i].attacker \in A
             \/ i - n \in DOMAIN cs /\ ds[i] = cs[i - n] /\ Controller[ds[i].blocker] = p /\ ds[i].attacker \in A
  <2>1. \/ i \in DOMAIN bs /\ ds[i] = bs[i]
        \/ i - n \in DOMAIN cs /\ ds[i] = cs[i - n]
    BY <1>1
  <2>. QED
    BY <2>1
<1>3. ASSUME NEW i \in DOMAIN ds, NEW j \in DOMAIN ds, ds[i].blocker = ds[j].blocker
      PROVE  i = j
  <2>0. i \in Int /\ j \in Int
    BY <1>1
  <2>1. CASE i \in DOMAIN bs /\ ds[i] = bs[i] /\ Controller[ds[i].blocker] # p
    <3>1. j \in DOMAIN bs /\ ds[j] = bs[j]
      BY <1>2, <1>3, <2>1
    <3>. QED
      BY <1>3, <2>1, <3>1
  <2>2. CASE i - n \in DOMAIN cs /\ ds[i] = cs[i - n] /\ Controller[ds[i].blocker] = p
    <3>1. j - n \in DOMAIN cs /\ ds[j] = cs[j - n]
      BY <1>2, <1>3, <2>2
    <3>2. i - n = j - n
      BY <1>3, <2>2, <3>1
    <3>. QED
      BY <1>1, <2>0, <3>2
  <2>. QED
    BY <1>2, <2>1, <2>2
<1>. QED
  BY <1>1, <1>2, <1>3 DEF ds, R

(* A defending player declares blockers. *)
LEMMA DeclareBlockersKeeps ==
  ASSUME CombatInv, DeclareBlockers
  PROVE  CombatInv'
<1>. USE InvParts
<1>. DEFINE p == Head(todo)
            R == [blocker : Creatures, attacker : Creatures]
<1>1. /\ step = "DeclareBlockers" /\ step' = step /\ todo # Waiting /\ todo # <<>> /\ todo' = Tail(todo)
      /\ UNCHANGED <<alive, life, board, attackers, custom_damage, dealt, before, effects>>
  BY DEF DeclareBlockers, Prompting
<1>2. todo \in Seq(Players) /\ IsInjective(todo)
  BY <1>1 DEF Phased, Prompted
<1>3. /\ todo' \in Seq(Players) /\ IsInjective(todo') /\ p \notin Range(todo')
      /\ Range(todo') \subseteq Range(todo) /\ p \in Players /\ p \in Range(todo)
  <2>1. Head(todo) \in Range(todo)
    <3>1. Head(todo) = todo[1] /\ 1 \in DOMAIN todo
      BY <1>1, <1>2, LenProperties, EmptySeq, HeadTailProperties
    <3>. QED
      BY <3>1 DEF Range
  <2>. QED
    BY <1>1, <1>2, <2>1, TailIs
<1>4. \A i \in DOMAIN blockers : Controller[blockers[i].blocker] \notin Range(todo)
  BY <1>1 DEF BlocksOpen, Prompted
<1>5. PICK pairs \in Pairs :
        LET bs == IF AskedToBlock(p) THEN Blocks(p, pairs) ELSE <<>>
        IN  IF bs = <<>> THEN UNCHANGED <<blockers, damage_order>> ELSE SetBlockers(bs)
  BY DEF DeclareBlockers
<1>6. /\ blockers \in Seq(R) /\ custom_damage = <<>>
      /\ \A i \in DOMAIN blockers : blockers[i].attacker \in Attacking
      /\ \A i, j \in DOMAIN blockers : blockers[i].blocker = blockers[j].blocker => i = j
  <2>1. custom_damage = <<>>
    BY <1>1 DEF Early, DamageSteps
  <2>. QED
    BY <2>1 DEF PlacesOK, OrderFits
<1>7. /\ blockers' \in Seq(R)
      /\ \A i \in DOMAIN blockers' : Controller[blockers'[i].blocker] \notin Range(todo')
      /\ DOMAIN damage_order' \subseteq Attacking
      /\ damage_order' \in [DOMAIN damage_order' -> Seq(Creatures)]
      /\ OrderFits(blockers', damage_order')
  <2>1. CASE UNCHANGED <<blockers, damage_order>>
    BY <1>3, <1>4, <2>1 DEF PlacesOK
  <2>2. CASE SetBlockers(Blocks(p, pairs))
    <3>. DEFINE bs == Blocks(p, pairs)
                nb == blockers \o bs
    <3>1. /\ bs \in Seq(R)
          /\ \A i \in DOMAIN bs : Controller[bs[i].blocker] = p /\ bs[i].attacker \in Attacking
          /\ \A i, j \in DOMAIN bs : bs[i].blocker = bs[j].blocker => i = j
      BY BlocksAre
    <3>2. blockers' = nb /\ damage_order' = OrderFrom(nb)
      BY <2>2 DEF SetBlockers
    <3>. HIDE DEF bs
    <3>3. /\ nb \in Seq(R)
          /\ \A i, j \in DOMAIN nb : nb[i].blocker = nb[j].blocker => i = j
          /\ \A i \in DOMAIN nb : /\ nb[i].attacker \in Attacking
                                  /\ \/ Controller[nb[i].blocker] = p
                                     \/ \E j \in DOMAIN blockers : nb[i] = blockers[j]
      <4>1. \A i \in DOMAIN blockers : Controller[blockers[i].blocker] # p
        BY <1>3, <1>4
      <4>. HIDE DEF p
      <4>. QED
        BY <1>6, <3>1, <4>1, MoreBlocks
    <3>. HIDE DEF nb
    <3>4. /\ OrderFits(nb, OrderFrom(nb))
          /\ OrderFrom(nb) \in [DOMAIN OrderFrom(nb) -> Seq(Creatures)]
          /\ DOMAIN OrderFrom(nb) = {nb[i].attacker : i \in DOMAIN nb}
      BY <3>3, OrderFromFits
    <3>5. \A i \in DOMAIN nb : Controller[nb[i].blocker] \notin Range(todo')
      BY <1>3, <1>4, <3>3
    <3>6. DOMAIN OrderFrom(nb) \subseteq Attacking
      BY <3>3, <3>4
    <3>. QED
      BY <3>2, <3>3, <3>4, <3>5, <3>6
  <2>. QED
    BY <1>5, <2>1, <2>2
<1>8. PlayersOK' /\ BeforeOK'
  BY <1>1 DEF PlayersOK, BeforeOK
<1>9. PlacesOK'
  BY <1>1, <1>6, <1>7, Empties DEF PlacesOK, Attacking
<1>10. Phased' /\ BlocksOpen'
  BY <1>1, <1>3, <1>7 DEF Phased, Quiet, BlocksOpen, DamageSteps
<1>11. Early' /\ ChoicesHold' /\ FirstRound'
  BY <1>1 DEF Early, ChoicesHold, FirstRound, DamageSteps
<1>12. todo' \in Seq(Creatures \cup Players)
  BY <1>3, WiderSeq
<1>. QED
  BY <1>1, <1>7, <1>8, <1>9, <1>10, <1>11, <1>12, InvWhole

(* Blockers are about to be ordered. *)
LEMMA BeginOrderingKeeps ==
  ASSUME CombatInv, BeginOrdering
  PROVE  CombatInv'
<1>. USE InvParts
<1>. DEFINE S == {a \in DOMAIN damage_order : Len(damage_order[a]) >= 2}
<1>1. /\ step = "DeclareBlockers" /\ step' = "OrderBlockers" /\ todo = <<>>
      /\ todo' \in SetToSeqs(S)
      /\ UNCHANGED <<alive, life, board, attackers, blockers, damage_order, custom_damage,
                     dealt, before, effects>>
  BY DEF BeginOrdering, combat
<1>2. DOMAIN damage_order \subseteq Attacking /\ Attacking \subseteq Creatures /\ IsFiniteSet(Creatures)
  <2>1. \A i \in DOMAIN attackers : attackers[i].attacker \in Creatures
    BY AttackerTypes
  <2>. QED
    BY <2>1, CombatAssumption DEF PlacesOK, Attacking
<1>3. todo' \in Seq(S)
  <2>1. IsFiniteSet(S)
    BY <1>2, FS_Subset
  <2>2. Cardinality(S) \in Nat
    BY <2>1, FS_CardinalityType
  <2>. HIDE DEF S
  <2>3. todo' \in [1 .. Cardinality(S) -> S]
    BY <1>1 DEF SetToSeqs
  <2>. QED
    BY <2>2, <2>3
<1>4. todo' \in Seq(DOMAIN damage_order) /\ todo' \in Seq(Creatures \cup Players)
  <2>1. S \subseteq DOMAIN damage_order /\ S \subseteq Creatures \cup Players
    BY <1>2
  <2>. HIDE DEF S
  <2>. QED
    BY <1>3, <2>1, WiderSeq
<1>5. PlayersOK' /\ PlacesOK' /\ BeforeOK'
  BY <1>1, SamePlaces DEF PlayersOK, BeforeOK
<1>6. Phased' /\ BlocksOpen' /\ Early' /\ ChoicesHold' /\ FirstRound'
  BY <1>1, <1>4
     DEF Phased, Quiet, Prompted, Early, BlocksOpen, ChoicesHold, FirstRound, DamageSteps
<1>7. step' \in Steps
  BY <1>1 DEF Steps
<1>. QED
  BY <1>1, <1>4, <1>5, <1>6, <1>7, InvWhole

(* An order is accepted only if it lists the same blockers. *)
LEMMA OrderBlockersKeeps ==
  ASSUME CombatInv, OrderBlockers
  PROVE  CombatInv'
<1>. USE InvParts
<1>. DEFINE a == Head(todo)
<1>1. /\ step = "OrderBlockers" /\ step' = step /\ todo # Waiting /\ todo # <<>> /\ todo' = Tail(todo)
      /\ UNCHANGED <<alive, life, board, attackers, blockers, custom_damage, dealt, before,
                     effects>>
  BY DEF OrderBlockers, Prompting
<1>2. PICK ids \in TupleOf(DOMAIN board, Len(damage_order[a])) :
        damage_order' = IF AcceptsOrder(a, ids)
                        THEN [damage_order EXCEPT ![a] = ids]
                        ELSE damage_order
  BY DEF OrderBlockers
<1>3. todo' \in Seq(DOMAIN damage_order) /\ a \in DOMAIN damage_order
  BY <1>1, TailIs DEF Phased
<1>4. ids \in Seq(Creatures)
  <2>1. Len(damage_order[a]) \in Nat
    BY <1>3, LenProperties DEF PlacesOK
  <2>2. ids \in [1 .. Len(damage_order[a]) -> Creatures]
    BY DEF TupleOf, BoardOK
  <2>. QED
    BY <2>1, <2>2
<1>5. DOMAIN damage_order' = DOMAIN damage_order
  BY <1>2
<1>6. \A b \in DOMAIN damage_order : /\ damage_order'[b] \in Seq(Creatures)
                                     /\ SamePeople(BlockersAmong(blockers, b), damage_order'[b])
  <2>1. SUFFICES ASSUME NEW b \in DOMAIN damage_order
                 PROVE  /\ damage_order'[b] \in Seq(Creatures)
                        /\ SamePeople(BlockersAmong(blockers, b), damage_order'[b])
    OBVIOUS
  <2>2. damage_order[b] \in Seq(Creatures) /\ SamePeople(BlockersAmong(blockers, b), damage_order[b])
    BY <2>1 DEF PlacesOK, OrderFits
  <2>3. CASE damage_order'[b] = damage_order[b]
    BY <2>2, <2>3
  <2>4. CASE b = a /\ AcceptsOrder(a, ids) /\ damage_order'[b] = ids
    <3>1. SamePeople(damage_order[b], ids)
      BY <2>4 DEF AcceptsOrder
    <3>2. SamePeople(BlockersAmong(blockers, b), ids)
      BY <2>2, <3>1, SamePeopleTrans
    <3>. QED
      BY <1>4, <2>4, <3>2
  <2>. QED
    BY <1>2, <2>3, <2>4
<1>7. OrderFits(blockers', damage_order')
  BY <1>1, <1>5, <1>6 DEF OrderFits
<1>8. PlacesOK'
  <2>1. damage_order' \in [DOMAIN damage_order' -> Seq(Creatures)]
    <3>1. damage_order' = [b \in DOMAIN damage_order |-> damage_order'[b]]
      BY <1>2 DEF PlacesOK
    <3>. QED
      BY <1>5, <1>6, <3>1
  <2>. QED
    BY <1>1, <1>5, <2>1 DEF PlacesOK, Attacking
<1>9. PlayersOK' /\ BeforeOK'
  BY <1>1 DEF PlayersOK, BeforeOK
<1>10. Phased' /\ BlocksOpen' /\ Early' /\ ChoicesHold' /\ FirstRound'
  BY <1>1, <1>3, <1>5 DEF Phased, Quiet, Early, BlocksOpen, ChoicesHold, FirstRound, DamageSteps
<1>11. todo' \in Seq(Creatures \cup Players)
  <2>1. DOMAIN damage_order \subseteq Creatures
    <3>1. \A i \in DOMAIN attackers : attackers[i].attacker \in Creatures
      BY AttackerTypes
    <3>. QED
      BY <3>1 DEF PlacesOK, Attacking
  <2>. QED
    BY <1>3, <2>1, WiderSeq
<1>. QED
  BY <1>1, <1>7, <1>8, <1>9, <1>10, <1>11, InvWhole

(* Those who can be asked to assign damage attack. *)
LEMMA AssignersAre ==
  ASSUME CombatInv, NEW s
  PROVE  Assigners(s) \subseteq Creatures \cup Players /\ Assigners(s) \subseteq Attacking
BY InvParts DEF Assigners, BoardOK, PlacesOK, is_blocked

(* Those who are asked can be asked. *)
LEMMA TramplersAre ==
  ASSUME CombatInv, NEW s
  PROVE  Tramplers(s) \in Seq(Assigners(s))
<1>. DEFINE as == [i \in DOMAIN attackers |-> attackers[i].attacker]
            I == {i \in DOMAIN as : /\ OnBoard(as[i]) /\ Has(as[i], "Trample")
                                    /\ is_blocked(as[i]) /\ Strikes(as[i], s)}
            T == AtPositions(as, I)
<1>1. Len(attackers) \in Nat /\ DOMAIN attackers = 1 .. Len(attackers)
  BY InvParts, LenProperties DEF TypeOK
<1>2. \A i \in DOMAIN attackers : attackers[i].attacker \in Creatures
  BY InvParts, AttackerTypes
<1>3. as \in Seq(Creatures) /\ Len(as) = Len(attackers)
  BY <1>1, <1>2
<1>. HIDE DEF as
<1>4. T \in Seq(Creatures) /\ \E pos : PicksOut(pos, T, as, I, Len(as))
  <2>. HIDE DEF I
  <2>. QED
    BY <1>3, AtPositionsPicks
<1>5. PICK pos : PicksOut(pos, T, as, I, Len(as))
  BY <1>4
<1>. HIDE DEF T
<1>6. \A j \in 1 .. Len(T) : T[j] \in Assigners(s)
  <2>1. SUFFICES ASSUME NEW j \in 1 .. Len(T) PROVE T[j] \in Assigners(s)
    OBVIOUS
  <2>2. pos[j] \in I /\ T[j] = as[pos[j]]
    BY <1>5 DEF PicksOut
  <2>. QED
    BY <2>2 DEF Assigners, OnBoard
<1>7. T \in [1 .. Len(T) -> Assigners(s)] /\ Len(T) \in Nat
  BY <1>4, <1>6, LenProperties
<1>8. T \in Seq(Assigners(s))
  BY <1>7
<1>9. Tramplers(s) = T
  BY DEF Tramplers, T, as
<1>. QED
  BY <1>8, <1>9

(* Without attackers nobody fights. *)
LEMMA NobodyFights ==
  ASSUME CombatInv, attackers = <<>>, NEW c
  PROVE  ~Fighting(c)
<1>1. Attacking = {}
  BY DEF Attacking
<1>2. DOMAIN damage_order = {}
  BY <1>1, InvParts DEF PlacesOK
<1>3. DOMAIN blockers = {}
  BY <1>2, InvParts DEF OrderFits
<1>. QED
  BY <1>3 DEF Fighting

(* The first strike step begins. *)
LEMMA BeginFirstStrikeKeeps ==
  ASSUME CombatInv, BeginFirstStrike
  PROVE  CombatInv'
<1>. USE InvParts
<1>1. /\ step = "DeclareBlockers" /\ step' = "FirstStrikeDamage" /\ todo = Waiting /\ before' = board
      /\ UNCHANGED <<alive, life, board, attackers, blockers, damage_order, dealt, effects>>
  BY DEF BeginFirstStrike, Enter, InPriority
<1>2. PlayersOK' /\ BeforeOK'
  BY <1>1 DEF PlayersOK, BeforeOK
<1>3. step' \in Steps
  BY <1>1 DEF Steps, DamageSteps
<1>4. CASE BeginAssignments("FirstStrikeDamage")
  <2>1. custom_damage' = <<>> /\ todo' \in Seq(Assigners("FirstStrikeDamage"))
    BY <1>4, TramplersAre DEF BeginAssignments
  <2>2. todo' \in Seq(Creatures \cup Players) /\ todo' # Waiting
    <3>. HIDE DEF CombatInv
    <3>. QED
      BY <2>1, AssignersAre, WiderSeq, Awaiting
  <2>3. Assigners("FirstStrikeDamage")' = Assigners("FirstStrikeDamage")
    BY <1>1 DEF Assigners, Has, is_blocked, Strikes, FirstStriker
  <2>4. PlacesOK'
    BY <1>1, <2>1, SamePlaces
  <2>5. Phased' /\ Early' /\ BlocksOpen' /\ ChoicesHold' /\ FirstRound'
    BY <1>1, <2>1, <2>2, <2>3, Empties
       DEF Phased, Quiet, Prompted, Early, BlocksOpen, ChoicesHold, FirstRound, DamageSteps
  <2>. QED
    BY <1>1, <1>2, <1>3, <2>2, <2>4, <2>5, InvWhole
<1>5. CASE ~(attackers # <<>> /\ FirstStrikersFight) /\ UNCHANGED <<todo, custom_damage>>
  <2>1. PlacesOK'
    BY <1>1, <1>5, SamePlaces
  <2>2. dealt["FirstStrikeDamage"] = {}
    BY <1>1 DEF Early, DamageSteps
  <2>3. StruckRight'
    <3>1. SUFFICES ASSUME NEW c \in DOMAIN board, Fighting(c)
                   PROVE  ~Has(c, "First Strike") /\ ~Has(c, "Double Strike")
      BY <1>1, <2>2 DEF StruckRight, StruckFirst, HadKey, Has, Fighting, is_blocked
    <3>2. attackers # <<>>
      BY <3>1, NobodyFights
    <3>3. ~FirstStrikersFight
      BY <1>5, <3>2
    <3>. QED
      BY <3>1, <3>3 DEF FirstStrikersFight, Fighting, FirstStriker, OnBoard
  <2>4. Phased' /\ Early' /\ BlocksOpen' /\ ChoicesHold' /\ FirstRound'
    BY <1>1, <1>5, <2>3
       DEF Phased, Quiet, Prompted, Early, BlocksOpen, ChoicesHold, FirstRound, DamageSteps
  <2>. QED
    BY <1>1, <1>2, <1>3, <1>5, <2>1, <2>4, InvWhole
<1>. QED
  BY <1>4, <1>5 DEF BeginFirstStrike

(* The damage step begins. *)
LEMMA BeginDamageKeeps ==
  ASSUME CombatInv, BeginDamage
  PROVE  CombatInv'
<1>. USE InvParts
<1>1. /\ step = "FirstStrikeDamage" /\ step' = "CombatDamage" /\ todo = Waiting
      /\ UNCHANGED <<alive, life, board, attackers, blockers, damage_order, dealt, before,
                     effects>>
  BY DEF BeginDamage, Enter, InPriority
<1>2. PlayersOK' /\ BeforeOK'
  BY <1>1 DEF PlayersOK, BeforeOK
<1>3. step' \in Steps
  BY <1>1 DEF Steps, DamageSteps
<1>4. StruckRight'
  BY <1>1, SameStrikes DEF FirstRound, Prompted
<1>5. CASE BeginAssignments("CombatDamage")
  <2>1. custom_damage' = <<>> /\ todo' \in Seq(Assigners("CombatDamage"))
    BY <1>5, TramplersAre DEF BeginAssignments
  <2>2. todo' \in Seq(Creatures \cup Players) /\ todo' # Waiting
    <3>. HIDE DEF CombatInv
    <3>. QED
      BY <2>1, AssignersAre, WiderSeq, Awaiting
  <2>3. Assigners("CombatDamage")' = Assigners("CombatDamage")
    BY <1>1 DEF Assigners, Has, is_blocked, Strikes, FirstStriker
  <2>4. PlacesOK'
    BY <1>1, <2>1, SamePlaces
  <2>5. Phased' /\ Early' /\ BlocksOpen' /\ ChoicesHold' /\ FirstRound'
    BY <1>1, <1>4, <2>1, <2>2, <2>3, Empties
       DEF Phased, Quiet, Prompted, Early, BlocksOpen, ChoicesHold, FirstRound, DamageSteps
  <2>. QED
    BY <1>1, <1>2, <1>3, <2>2, <2>4, <2>5, InvWhole
<1>6. CASE UNCHANGED <<todo, custom_damage>>
  <2>1. PlacesOK'
    BY <1>1, <1>6, SamePlaces
  <2>2. Phased' /\ Early' /\ BlocksOpen' /\ ChoicesHold' /\ FirstRound'
    BY <1>1, <1>4, <1>6
       DEF Phased, Quiet, Prompted, Early, BlocksOpen, ChoicesHold, FirstRound, DamageSteps
  <2>. QED
    BY <1>1, <1>2, <1>3, <1>6, <2>1, <2>2, InvWhole
<1>. QED
  BY <1>5, <1>6 DEF BeginDamage

(* A step in which somebody is or was prompted to assign damage. *)
LEMMA AssigningKeeps ==
  ASSUME CombatInv, step \in DamageSteps, todo # Waiting, todo # <<>>,
         todo' = Tail(todo), alive' \subseteq alive,
         UNCHANGED <<step, life, board, attackers, blockers, damage_order, dealt, before,
                     effects>>,
         DOMAIN custom_damage' \subseteq Attacking, \A a \in DOMAIN custom_damage' : Chosen(a)'
  PROVE  CombatInv'
<1>. USE InvParts
<1>1. todo' \in Seq(Assigners(step)) /\ Prompted
  BY TailIs DEF Phased, Prompted
<1>2. todo' \in Seq(Creatures \cup Players) /\ todo' # Waiting
  <2>. HIDE DEF CombatInv
  <2>. QED
    BY <1>1, AssignersAre, WiderSeq, Awaiting
<1>3. Assigners(step)' = Assigners(step)
  BY DEF Assigners, Has, is_blocked, Strikes, FirstStriker
<1>4. PlayersOK' /\ BeforeOK' /\ PlacesOK'
  BY DEF PlayersOK, BeforeOK, PlacesOK, Attacking
<1>5. Phased' /\ BlocksOpen'
  BY <1>1, <1>3 DEF Phased, Quiet, BlocksOpen, DamageSteps
<1>6. Early' /\ ChoicesHold'
  BY DEF Early, ChoicesHold, DamageSteps
<1>7. FirstRound'
  <2>1. CASE step = "FirstStrikeDamage"
    BY <1>1, <1>2, <2>1 DEF FirstRound, Prompted
  <2>2. CASE step = "CombatDamage"
    BY <2>2, SameStrikes DEF FirstRound
  <2>. QED
    BY <2>1, <2>2 DEF DamageSteps
<1>. QED
  BY <1>2, <1>4, <1>5, <1>6, <1>7, InvWhole

(* Who was to assign damage has left the game. *)
LEMMA AssignerIsGoneKeeps ==
  ASSUME CombatInv, AssignerIsGone
  PROVE  CombatInv'
<1>1. /\ step \in DamageSteps /\ todo # Waiting /\ todo # <<>>
      /\ todo' = Tail(todo) /\ alive' \subseteq alive
      /\ UNCHANGED <<step, life, board, attackers, blockers, damage_order, custom_damage, dealt,
                     before, effects>>
  BY DEF AssignerIsGone, Prompting, combat, DamageSteps
<1>2. \A a \in DOMAIN custom_damage' : Chosen(a)'
  BY <1>1, InvParts, SameChoice DEF ChoicesHold, Prompted
<1>3. DOMAIN custom_damage' \subseteq Attacking
  BY <1>1, InvParts DEF PlacesOK
<1>. QED
  BY <1>1, <1>2, <1>3, AssigningKeeps

(* An assignment is kept only if it is accepted. *)
LEMMA AssignDamageKeeps ==
  ASSUME CombatInv, AssignDamage
  PROVE  CombatInv'
<1>. USE InvParts
<1>. DEFINE a == Head(todo)
            amounts == 0 .. Max({0, board[a].power})
<1>1. /\ step \in DamageSteps /\ todo # Waiting /\ todo # <<>>
      /\ todo' = Tail(todo) /\ alive' \subseteq alive
      /\ UNCHANGED <<step, life, board, attackers, blockers, damage_order, dealt, before,
                     effects>>
  BY DEF AssignDamage, Prompting, DamageSteps
<1>2. a \in Assigners(step)
  BY <1>1, TailIs DEF Phased, Prompted
<1>3. a \in Attacking /\ a \in DOMAIN damage_order /\ OnBoard(a) /\ Has(a, "Trample")
  BY <1>2, AssignersAre DEF Assigners, is_blocked, OnBoard
<1>4. PICK parts \in TupleOf(amounts, Len(damage_order[a])), rest \in amounts :
            custom_damage' =
              IF AcceptsParts(a, parts, rest)
              THEN With(custom_damage, a, [blockers |-> parts, player |-> rest])
              ELSE custom_damage
  BY DEF AssignDamage
<1>5. amounts \subseteq Nat
  <2>1. board[a].power \in Int
    BY <1>3, BoardTypes DEF OnBoard
  <2>2. Max({0, board[a].power}) \in Int
    BY <2>1, MaxOf
  <2>. QED
    BY <2>2
<1>6. parts \in [1 .. Len(damage_order[a]) -> Nat] /\ rest \in Nat
  <2>. HIDE DEF amounts, a
  <2>. QED
    BY <1>4, <1>5 DEF TupleOf
<1>7. DOMAIN custom_damage' \subseteq Attacking
  BY <1>3, <1>4 DEF PlacesOK, With
<1>8. ASSUME NEW b \in DOMAIN custom_damage'
      PROVE  Chosen(b)'
  <2>1. CASE b \in DOMAIN custom_damage /\ custom_damage'[b] = custom_damage[b]
    <3>1. Chosen(b)
      BY <1>1, <2>1 DEF ChoicesHold, Prompted
    <3>. QED
      BY <1>1, <2>1, <3>1, SameChoice
  <2>2. CASE b = a /\ AcceptsParts(a, parts, rest) /\ custom_damage'[b] = [blockers |-> parts, player |-> rest]
    <3>1. board[a].power > 0
      BY <2>2 DEF AcceptsParts
    <3>2. /\ custom_damage'[b].blockers = parts /\ custom_damage'[b].player = rest
          /\ custom_damage'[b] \in [blockers : [1 .. Len(damage_order'[b]) -> Nat], player : Nat]
      BY <1>1, <1>6, <2>2
    <3>3. AcceptsParts(b, custom_damage'[b].blockers, custom_damage'[b].player)
      BY <2>2, <3>2
    <3>4. AcceptsParts(b, custom_damage[b].blockers, custom_damage[b].player)'
      BY <1>1, <3>3 DEF AcceptsParts, OnBoard, Lethal, Has
    <3>. QED
      BY <1>1, <1>3, <2>2, <3>1, <3>2, <3>4 DEF Chosen, OnBoard, Has
  <2>3. \/ b \in DOMAIN custom_damage /\ custom_damage'[b] = custom_damage[b]
        \/ b = a /\ AcceptsParts(a, parts, rest) /\ custom_damage'[b] = [blockers |-> parts, player |-> rest]
    BY <1>4 DEF With
  <2>. QED
    BY <2>1, <2>2, <2>3
<1>. QED
  BY <1>1, <1>7, <1>8, AssigningKeeps

-----------------------------------------------------------------------------

(* A part of what is dealt is a number. *)
LEMMA PartOfDamage ==
  ASSUME NEW D, IsFiniteSet(D), \A d \in D : d.amount \in Nat, NEW E \in SUBSET D
  PROVE  Amount(E) \in Nat
<1>1. IsFiniteSet(E) /\ \A d \in E : d.amount \in Nat
  BY FS_Subset
<1>. QED
  BY <1>1, AmountNat

(* Damage on creatures, and to players. *)
LEMMA DamagedOK ==
  ASSUME BoardOK(board), NEW D, IsFiniteSet(D), \A d \in D : d.amount \in Nat
  PROVE  BoardOK(Damaged(D))
<1>. DEFINE hits(c) == {d \in D : d.target = c /\ Arrives(d) /\ d.amount > 0}
            new(c) == [board[c] EXCEPT !.damage = @ + Amount(hits(c)),
                                       !.doomed = @ \/ \E d \in hits(c) : Has(d.source, "Deathtouch")]
<1>1. Damaged(D) = [c \in DOMAIN board |-> new(c)]
  BY DEF Damaged
<1>2. ASSUME NEW c \in DOMAIN board
      PROVE  new(c) \in Perms
  <2>1. board[c] \in Perms
    BY DEF BoardOK
  <2>2. hits(c) \in SUBSET D
    OBVIOUS
  <2>. DEFINE n == Amount(hits(c))
              doom == \E d \in hits(c) : Has(d.source, "Deathtouch")
  <2>3. n \in Nat
    <3>. HIDE DEF hits
    <3>. QED
      BY <2>2, PartOfDamage
  <2>4. doom \in BOOLEAN
    OBVIOUS
  <2>5. new(c) = [board[c] EXCEPT !.damage = @ + n, !.doomed = @ \/ doom]
    OBVIOUS
  <2>. HIDE DEF n, doom, new
  <2>6. board[c].damage + n \in Nat
    BY <2>1, <2>3 DEF Perms
  <2>7. (board[c].doomed \/ doom) \in BOOLEAN
    OBVIOUS
  <2>8. new(c) = [board[c] EXCEPT !.damage = board[c].damage + n, !.doomed = board[c].doomed \/ doom]
    BY <2>1, <2>5 DEF Perms
  <2>. QED
    BY <2>1, <2>6, <2>7, <2>8 DEF Perms
<1>. HIDE DEF new
<1>. QED
  BY <1>1, <1>2 DEF BoardOK

LEMMA LifeIs ==
  ASSUME life \in [Players -> Int], NEW D, IsFiniteSet(D), \A d \in D : d.amount \in Nat
  PROVE  LifeAfter(D) \in [Players -> Int]
<1>1. ASSUME NEW p \in Players
      PROVE  life[p] - Amount({d \in D : d.target = p})
             + Amount({d \in D : /\ Arrives(d)
                                 /\ Has(d.source, "Lifelink")
                                 /\ Controller[d.source] = p}) \in Int
  <2>. DEFINE E == {d \in D : d.target = p}
              F == {d \in D : Arrives(d) /\ Has(d.source, "Lifelink") /\ Controller[d.source] = p}
  <2>1. E \in SUBSET D /\ F \in SUBSET D
    OBVIOUS
  <2>. HIDE DEF E, F
  <2>2. Amount(E) \in Nat /\ Amount(F) \in Nat
    BY <2>1, PartOfDamage
  <2>3. life[p] - Amount(E) + Amount(F) \in Int
    BY <2>2
  <2>. QED
    BY <2>3 DEF E, F
<1>. QED
  BY <1>1 DEF LifeAfter

(* Damage is dealt, and those who struck are remembered. *)
LEMMA DealDamageKeeps ==
  ASSUME CombatInv, DealDamage
  PROVE  CombatInv'
<1>. USE InvParts
<1>. DEFINE D == resolve_combat_damage(step)
<1>1. /\ step \in DamageSteps /\ todo = <<>> /\ todo' = Waiting
      /\ UNCHANGED <<step, attackers, blockers, damage_order, custom_damage, before, effects>>
      /\ Resolves(step)
  BY DEF DealDamage, combat, Resolves
<1>2. /\ dealt'[step] = D /\ \A t \in DamageSteps \ {step} : dealt'[t] = dealt[t]
      /\ IsFiniteSet(D) /\ \A d \in D : d.amount \in Nat
      /\ \A c : Fighting(c) => ((\E d \in D : d.source = c) <=> Fights(c, step))
  <2>. HIDE DEF D
  <2>1. D = resolve_combat_damage(step)
    BY DEF D
  <2>. QED
    BY <1>1, <2>1, Resolved
<1>3. life' = LifeAfter(D) /\ board' = Survivors(Damaged(D)) /\ alive' \subseteq alive
      /\ DOMAIN dealt' = DOMAIN dealt
  BY DEF DealDamage
<1>. HIDE DEF D
<1>4. PlayersOK' /\ BeforeOK' /\ PlacesOK'
  BY <1>1, <1>2, <1>3, SamePlaces, LifeIs DEF PlayersOK, BeforeOK
<1>5. BoardOK(board')
  BY <1>2, <1>3, DamagedOK, SurvivorsOK
<1>6. StruckRight'
  <2>1. CASE step = "CombatDamage"
    <3>1. dealt'["FirstStrikeDamage"] = dealt["FirstStrikeDamage"]
      BY <1>2, <2>1 DEF DamageSteps
    <3>2. StruckRight
      BY <2>1 DEF FirstRound
    <3>. QED
      BY <1>1, <3>1, <3>2 DEF StruckRight, Fighting, StruckFirst, HadKey, is_blocked
  <2>2. CASE step = "FirstStrikeDamage"
    <3>1. before = board
      BY <1>1, <2>2, NotWaiting DEF FirstRound, Prompted
    <3>2. ASSUME NEW c \in DOMAIN board, Fighting(c)
          PROVE  (\E d \in dealt'["FirstStrikeDamage"] : d.source = c) <=>
                   /\ before[c].power > 0
                   /\ HadKey(c, "First Strike") \/ HadKey(c, "Double Strike")
      BY <1>2, <2>2, <3>1, <3>2 DEF Fights, OnBoard, Strikes, FirstStriker, Has, HadKey
    <3>3. \A c \in DOMAIN before : Fighting(c) =>
             (StruckFirst(c)' <=> /\ before[c].power > 0
                                  /\ HadKey(c, "First Strike") \/ HadKey(c, "Double Strike"))
      BY <3>1, <3>2 DEF StruckFirst
    <3>4. \A c : (Fighting(c)' <=> Fighting(c)) /\ \A k : HadKey(c, k)' <=> HadKey(c, k)
      BY <1>1 DEF Fighting, HadKey, is_blocked
    <3>. QED
      BY <1>1, <3>3, <3>4 DEF StruckRight
  <2>. QED
    BY <1>1, <2>1, <2>2 DEF DamageSteps
<1>7. Phased' /\ Early' /\ BlocksOpen' /\ ChoicesHold' /\ FirstRound'
  BY <1>1, <1>6
     DEF Phased, Quiet, Prompted, Early, BlocksOpen, ChoicesHold, FirstRound, DamageSteps
<1>. QED
  BY <1>1, <1>4, <1>5, <1>7, InvWhole

(* What an effect puts on the battlefield, or changes there. *)
LEMMA FreshOK ==
  ASSUME NEW c \in Creatures
  PROVE  Fresh(c) \in Perms /\ \A b \in BOOLEAN : [Fresh(c) EXCEPT !.sick = b] \in Perms
BY CombatAssumption DEF Fresh, Perms

LEMMA ChangedOK ==
  ASSUME BoardOK(board), NEW c \in DOMAIN board, NEW new \in Changed(c)
  PROVE  new \in Perms
<1>1. board[c] \in Perms
  BY DEF BoardOK
<1>2. /\ board[c].power \in Int /\ board[c].toughness \in Int /\ board[c].damage \in Nat
      /\ board[c].tapped \in BOOLEAN /\ board[c].granted \in SUBSET Given
  BY <1>1 DEF Perms
<1>3. CASE \E n \in {-1, 1} : new = [board[c] EXCEPT !.power = @ + n, !.toughness = @ + n]
  <2>1. PICK n \in {-1, 1} : new = [board[c] EXCEPT !.power = @ + n, !.toughness = @ + n]
    BY <1>3
  <2>2. board[c].power + n \in Int /\ board[c].toughness + n \in Int
    BY <1>2
  <2>. QED
    BY <1>1, <2>1, <2>2 DEF Perms
<1>4. CASE \E k \in Given : new = [board[c] EXCEPT !.granted = @ \cup {k}]
  <2>1. PICK k \in Given : new = [board[c] EXCEPT !.granted = @ \cup {k}]
    BY <1>4
  <2>2. board[c].granted \cup {k} \in SUBSET Given
    BY <1>2
  <2>. QED
    BY <1>1, <2>1, <2>2 DEF Perms
<1>5. CASE \E k \in Given : new = [board[c] EXCEPT !.granted = @ \ {k}]
  <2>1. PICK k \in Given : new = [board[c] EXCEPT !.granted = @ \ {k}]
    BY <1>5
  <2>2. board[c].granted \ {k} \in SUBSET Given
    BY <1>2
  <2>. QED
    BY <1>1, <2>1, <2>2 DEF Perms
<1>6. CASE new = [board[c] EXCEPT !.tapped = ~@]
  BY <1>1, <1>2, <1>6 DEF Perms
<1>7. CASE new = [board[c] EXCEPT !.damage = @ + 1]
  <2>1. board[c].damage + 1 \in Nat
    BY <1>2
  <2>. QED
    BY <1>1, <1>7, <2>1 DEF Perms
<1>. QED
  BY <1>3, <1>4, <1>5, <1>6, <1>7 DEF Changed

(* Effects between the steps keep the invariant. *)
LEMMA EffectKeeps ==
  ASSUME CombatInv, Effect
  PROVE  CombatInv'
<1>. USE InvParts
<1>1. /\ todo = Waiting
      /\ UNCHANGED <<step, todo, alive, life, attackers, blockers, damage_order, custom_damage,
                     dealt, before>>
      /\ effects < MaxEffects /\ effects' = effects + 1
  BY DEF Effect, InPriority, combat
<1>2. BoardOK(board')
  <2>1. CASE \E c \in DOMAIN board : board' = Restrict(board, DOMAIN board \ {c})
    BY <2>1 DEF BoardOK, Restrict
  <2>2. CASE \E c \in Creatures \ DOMAIN board : board' = With(board, c, Fresh(c))
    BY <2>2, FreshOK DEF BoardOK, With
  <2>3. CASE \E c \in DOMAIN board : \E new \in Changed(c) : board' = Survivors([board EXCEPT ![c] = new])
    <3>1. PICK c \in DOMAIN board : \E new \in Changed(c) : board' = Survivors([board EXCEPT ![c] = new])
      BY <2>3
    <3>. PICK new \in Changed(c) : board' = Survivors([board EXCEPT ![c] = new])
      BY <3>1
    <3>2. new \in Perms
      BY ChangedOK
    <3>3. BoardOK([board EXCEPT ![c] = new])
      BY <3>2 DEF BoardOK
    <3>. QED
      BY <3>3, SurvivorsOK
  <2>. QED
    BY <2>1, <2>2, <2>3 DEF Effect
<1>3. effects' \in 0 .. MaxEffects
  BY <1>1, CombatAssumption
<1>4. PlayersOK' /\ BeforeOK' /\ PlacesOK'
  BY <1>1, SamePlaces DEF PlayersOK, BeforeOK
<1>5. StruckRight => StruckRight'
  BY <1>1, SameStrikes
<1>6. Phased' /\ Early' /\ BlocksOpen' /\ ChoicesHold' /\ FirstRound'
  BY <1>1, <1>5
     DEF Phased, Quiet, Prompted, Early, BlocksOpen, ChoicesHold, FirstRound, DamageSteps
<1>. QED
  BY <1>1, <1>2, <1>3, <1>4, <1>6, InvWhole

(* The invariant holds at first, *)
LEMMA StartsRight == Init => CombatInv
<1>. SUFFICES ASSUME Init PROVE CombatInv
  OBVIOUS
<1>1. /\ step = "BeginningOfCombat" /\ todo = Waiting
      /\ alive = Players /\ life = [p \in Players |-> Life]
      /\ attackers = <<>> /\ blockers = <<>>
      /\ damage_order = <<>> /\ custom_damage = <<>>
      /\ dealt = [s \in DamageSteps |-> {}]
      /\ before = <<>> /\ effects = 0
  BY DEF Init
<1>2. BoardOK(board)
  <2>1. PICK cs \in SUBSET Creatures, ill \in SUBSET Creatures :
               board = [c \in cs |-> [Fresh(c) EXCEPT !.sick = c \in ill]]
    BY DEF Init
  <2>2. \A c \in cs : (c \in ill) \in BOOLEAN
    OBVIOUS
  <2>. QED
    BY <2>1, <2>2, FreshOK DEF BoardOK
<1>3. PlayersOK /\ BeforeOK /\ effects \in 0 .. MaxEffects
  BY <1>1, CombatAssumption, Empties DEF PlayersOK, BeforeOK, BoardOK
<1>4. PlacesOK /\ OrderFits(<<>>, <<>>)
  BY <1>1, Empties DEF PlacesOK, OrderFits, Attacking
<1>5. step \in Steps
  BY <1>1 DEF Steps
<1>6. Phased /\ Early /\ BlocksOpen /\ ChoicesHold /\ FirstRound
  BY <1>1 DEF Phased, Quiet, Prompted, Early, BlocksOpen, ChoicesHold, FirstRound, DamageSteps
<1>. QED
  BY <1>1, <1>2, <1>3, <1>4, <1>5, <1>6, TypesSplit, OrderIs DEF CombatInv

(* a step that changes nothing keeps it, *)
LEMMA StandsStill ==
  ASSUME CombatInv, UNCHANGED vars
  PROVE  CombatInv'
<1>. USE InvParts
<1>1. UNCHANGED <<step, todo, alive, life, board, attackers, blockers, damage_order,
                  custom_damage, dealt, before, effects>>
  BY DEF vars, combat
<1>2. PlayersOK' /\ BeforeOK' /\ PlacesOK'
  BY <1>1, SamePlaces DEF PlayersOK, BeforeOK
<1>3. ChoicesHold'
  BY <1>1, SameChoice DEF ChoicesHold, Prompted, DamageSteps
<1>4. StruckRight => StruckRight'
  BY <1>1, SameStrikes
<1>5. Assigners(step)' = Assigners(step)
  BY <1>1 DEF Assigners, Has, is_blocked, Strikes, FirstStriker
<1>6. Phased' /\ Early' /\ BlocksOpen' /\ FirstRound'
  BY <1>1, <1>4, <1>5 DEF Phased, Quiet, Prompted, Early, BlocksOpen, FirstRound, DamageSteps
<1>. QED
  BY <1>1, <1>2, <1>3, <1>6, InvWhole

(* and so does every other step. *)
LEMMA StepsKeep ==
  ASSUME CombatInv, [Next]_vars
  PROVE  CombatInv'
<1>. HIDE DEF CombatInv
<1>1. CASE UNCHANGED vars
  BY <1>1, StandsStill
<1>2. CASE Next
  BY <1>2, DeclareAttackersKeeps, NoAttackKeeps, BeginBlocksKeeps, DeclareBlockersKeeps,
     PromptedIsGoneKeeps, BeginOrderingKeeps, OrderBlockersKeeps, BlocksDoneKeeps,
     BeginFirstStrikeKeeps, BeginDamageKeeps, AssignDamageKeeps, AssignerIsGoneKeeps,
     DealDamageKeeps, EndOfCombatKeeps, EffectKeeps, StandsStill DEF Next, Stop
<1>. QED
  BY <1>1, <1>2

(* Whatever the players answer, and whatever effects put on the            *)
(* battlefield, change or remove there between the steps of a combat,      *)
(* CombatInv holds.                                                        *)
THEOREM CombatInvariant == Spec => []CombatInv
<1>1. Init => CombatInv
  BY StartsRight
<1>2. CombatInv /\ [Next]_vars => CombatInv'
  BY StepsKeep
<1>. QED
  BY <1>1, <1>2, PTL DEF Spec

(* Whatever the answers and the effects between the steps, the battlefield *)
(* holds creatures, the declarations name creatures and players that can   *)
(* be meant, and damage orders and assignments are those of attackers.     *)
THEOREM CombatTypes == Spec => []TypeOK
<1>1. CombatInv => TypeOK
  BY DEF CombatInv
<1>. QED
  BY <1>1, CombatInvariant, PTL

(* A declaration of attackers changes who attacks; no other step makes     *)
(* somebody attack.                                                        *)
LEMMA OnlyAttackersDeclare ==
  ASSUME CombatInv, [Next]_vars
  PROVE  \A i, j \in DOMAIN attackers' :
           LET a == attackers'[i].attacker
           IN  i # j /\ attackers'[j].attacker = a /\ attackers # attackers'
                 => Has(a, "Vigilance")
<1>. HIDE DEF CombatInv
<1>1. CASE DeclareAttackers
  BY <1>1, DeclareAttackersKeeps
<1>2. CASE attackers' = attackers
  BY <1>2
<1>3. CASE attackers' = <<>>
  BY <1>3
<1>. QED
  BY <1>1, <1>2, <1>3
     DEF Next, Stop, vars, combat, EmptyCombat, NoAttack, BeginBlocks, DeclareBlockers,
     PromptedIsGone, BeginOrdering, OrderBlockers, BlocksDone, BeginFirstStrike, BeginDamage,
     AssignDamage, AssignerIsGone, DealDamage, EndOfCombat, Effect

(* The prompts for attackers, blockers and damage orders keep what they    *)
(* share consistent: the damage order of an attacker always lists exactly  *)
(* its blockers, each once, although the two are kept apart and set in     *)
(* different steps, and only a creature with vigilance attacks twice.      *)
THEOREM DeclarationsFitAlways == Spec => DeclarationsFit
<1>1. CombatInv => OrderFitsBlocks
  BY DEF CombatInv
<1>2. CombatInv /\ [Next]_vars =>
        \A i, j \in DOMAIN attackers' :
           LET a == attackers'[i].attacker
           IN  i # j /\ attackers'[j].attacker = a /\ attackers # attackers'
                 => Has(a, "Vigilance")
  BY OnlyAttackersDeclare
<1>. QED
  BY <1>1, <1>2, CombatInvariant, PTL DEF DeclarationsFit, AttacksOnce, Spec

(* No other step than DealDamage resolves the damage. *)
LEMMA OnlyDealingResolves ==
  ASSUME CombatInv, [Next]_vars
  PROVE  DealDamage \/ UNCHANGED vars \/ \A s \in DamageSteps : ~Resolves(s)
BY NotWaiting DEF Next, Stop, Resolves, DeclareAttackers, NoAttack, BeginBlocks, DeclareBlockers,
     PromptedIsGone, BeginOrdering, OrderBlockers, BlocksDone, BeginFirstStrike, BeginDamage,
     AssignDamage, AssignerIsGone, EndOfCombat, Effect, Enter, Prompting, InPriority, DamageSteps

(* The damage of each damage step fits the declarations, the assignments   *)
(* that were accepted and the battlefield as it is when damage is dealt,   *)
(* whoever has died, left or changed since: power is spent and not         *)
(* exceeded, a blocked attacker stays blocked, trample comes after lethal  *)
(* damage, and who has first or double strike strikes when it should.      *)
THEOREM DamageFitsAlways == Spec => DamageFitsCombat
<1>1. CombatInv /\ [Next]_vars => [Spent /\ Blocked /\ Lethally /\ Struck]_vars
  <2>1. SUFFICES ASSUME CombatInv, [Next]_vars, vars' # vars
                 PROVE  Spent /\ Blocked /\ Lethally /\ Struck
    OBVIOUS
  <2>2. CASE DealDamage
    BY <2>1, <2>2, DamageFits
  <2>3. CASE \A s \in DamageSteps : ~Resolves(s)
    BY <2>3 DEF Spent, Blocked, Lethally, Struck, DamageSteps
  <2>. QED
    BY <2>1, <2>2, <2>3, OnlyDealingResolves
<1>2. [Spent /\ Blocked /\ Lethally /\ Struck]_vars =>
        [Spent]_vars /\ [Blocked]_vars /\ [Lethally]_vars /\ [Struck]_vars
  OBVIOUS
<1>3. Spec => [][Spent]_vars /\ [][Blocked]_vars /\ [][Lethally]_vars /\ [][Struck]_vars
  BY <1>1, <1>2, CombatInvariant, PTL DEF Spec
<1>. QED
  BY <1>3 DEF DamageFitsCombat, PowerIsSpent, BlockedStaysBlocked, LethalFirst, EveryoneStrikes,
     Spent, Blocked, Lethally, Struck

-----------------------------------------------------------------------------
(* MatchInput: the answers                                                 *)

Counts == [1..MaxPrompts -> Nat]

Counted ==
  /\ Len(asked) \in Nat /\ Len(asked) <= MaxPrompts
  /\ shown \in 0..Len(asked)
  /\ history \in [answers : Counts, replays : Counts]

(* What has not been asked was neither answered nor delivered again. *)
NothingAhead ==
  \A i \in 1..MaxPrompts :
    i > Len(asked) => history.answers[i] = 0 /\ history.replays[i] = 0

(* The shown prompt has been answered once less than it may be. *)
OneLeft ==
  \A i \in 1..MaxPrompts :
    history.answers[i] <= history.replays[i] + (IF i = shown THEN 0 ELSE 1)

AnswersInv == asked \in Seq(Offers) /\ Counted /\ NothingAhead /\ OneLeft

-----------------------------------------------------------------------------
(* An answer goes out under the prompt that is shown, and clears it. *)
LEMMA WrittenCounts ==
  ASSUME AnswersInv, shown # 0, NEW act, Written(act), UNCHANGED asked
  PROVE  AnswersInv'
<1>. DEFINE new == [history.answers EXCEPT ![shown] = @ + 1]
<1>1. /\ shown \in 1..MaxPrompts /\ shown \in 1..Len(asked) /\ shown' = 0
      /\ history' = [answers |-> new, replays |-> history.replays]
  BY PromptsAreBounded DEF AnswersInv, Counted, Written, Clear
<1>2. /\ history.answers \in Counts /\ history.replays \in Counts
      /\ Len(asked) \in Nat /\ Len(asked) <= MaxPrompts
  BY DEF AnswersInv, Counted
<1>3. new \in Counts
  <2>1. history.answers[shown] \in Nat /\ history.answers[shown] + 1 \in Nat
    BY <1>1, <1>2, PromptsAreBounded DEF Counts
  <2>. QED
    BY <1>1, <1>2, <2>1 DEF Counts
<1>4. \A i \in 1..MaxPrompts :
        new[i] = IF i = shown THEN history.answers[i] + 1 ELSE history.answers[i]
  BY <1>2 DEF Counts
<1>. HIDE DEF new
<1>5. Counted'
  BY <1>1, <1>2, <1>3 DEF Counted
<1>6. NothingAhead'
  BY <1>1, <1>2, <1>4, PromptsAreBounded DEF AnswersInv, NothingAhead
<1>7. OneLeft'
  <2>1. SUFFICES ASSUME NEW i \in 1..MaxPrompts
                 PROVE  new[i] <= history.replays[i] + 1
    BY <1>1, PromptsAreBounded DEF OneLeft
  <2>2. /\ history.answers[i] \in Nat /\ history.replays[i] \in Nat
        /\ history.answers[i] <= history.replays[i] + (IF i = shown THEN 0 ELSE 1)
    BY <1>2 DEF AnswersInv, OneLeft, Counts
  <2>. QED
    BY <1>4, <2>2
<1>. QED
  BY <1>5, <1>6, <1>7 DEF AnswersInv

LEMMA AnswersKept ==
  ASSUME AnswersInv, UNCHANGED <<asked, shown, history>>
  PROVE  AnswersInv'
BY DEF AnswersInv, Counted, NothingAhead, OneLeft

LEMMA SendsCounts ==
  ASSUME AnswersInv, shown # 0, NEW act, NEW c, NEW p, Sends(act, c, p), UNCHANGED asked
  PROVE  AnswersInv'
BY WrittenCounts, AnswersKept DEF Sends, NotWritten

LEMMA AskedCounts ==
  ASSUME AnswersInv, NEW p \in Offers, Asked(p)
  PROVE  AnswersInv'
<1>1. /\ asked \in Seq(Offers) /\ Len(asked) \in Nat /\ Len(asked) < MaxPrompts
      /\ asked' = Append(asked, p) /\ shown' = Len(asked') /\ history' = history
  BY DEF AnswersInv, Counted, Asked
<1>2. asked' \in Seq(Offers) /\ Len(asked') = Len(asked) + 1
  BY <1>1, AppendProperties
<1>3. Counted'
  BY <1>1, <1>2, PromptsAreBounded DEF AnswersInv, Counted
<1>4. NothingAhead'
  BY <1>1, <1>2, PromptsAreBounded DEF AnswersInv, NothingAhead
<1>5. OneLeft'
  <2>1. SUFFICES ASSUME NEW i \in 1..MaxPrompts
                 PROVE  history.answers[i] <= history.replays[i]
                                              + (IF i = Len(asked) + 1 THEN 0 ELSE 1)
    BY <1>1, <1>2 DEF OneLeft
  <2>2. /\ history.answers[i] \in Nat /\ history.replays[i] \in Nat
        /\ history.answers[i] <= history.replays[i] + (IF i = shown THEN 0 ELSE 1)
        /\ i > Len(asked) => history.answers[i] = 0
    BY DEF AnswersInv, Counted, OneLeft, NothingAhead, Counts
  <2>3. i \in Nat
    BY PromptsAreBounded
  <2>. QED
    BY <1>1, <2>2, <2>3
<1>. QED
  BY <1>2, <1>3, <1>4, <1>5 DEF AnswersInv

LEMMA RedeliveredCounts ==
  ASSUME AnswersInv, NEW k \in DOMAIN asked, Redelivered(k)
  PROVE  AnswersInv'
<1>. DEFINE new == [history.replays EXCEPT ![k] = @ + 1]
<1>1. /\ Len(asked) \in Nat /\ Len(asked) <= MaxPrompts
      /\ k \in 1..Len(asked) /\ k \in 1..MaxPrompts
      /\ history.answers \in Counts /\ history.replays \in Counts
  BY PromptsAreBounded, LenProperties DEF AnswersInv, Counted
<1>2. /\ asked' = asked /\ shown' = k
      /\ history' = [answers |-> history.answers, replays |-> new]
  BY DEF AnswersInv, Counted, Redelivered
<1>3. new \in Counts
  <2>1. history.replays[k] \in Nat /\ history.replays[k] + 1 \in Nat
    BY <1>1, PromptsAreBounded DEF Counts
  <2>. QED
    BY <1>1, <2>1 DEF Counts
<1>4. \A i \in 1..MaxPrompts :
        new[i] = IF i = k THEN history.replays[i] + 1 ELSE history.replays[i]
  BY <1>1 DEF Counts
<1>. HIDE DEF new
<1>5. Counted'
  BY <1>1, <1>2, <1>3 DEF Counted
<1>6. NothingAhead'
  BY <1>1, <1>2, <1>4, PromptsAreBounded DEF AnswersInv, NothingAhead
<1>7. OneLeft'
  <2>1. SUFFICES ASSUME NEW i \in 1..MaxPrompts
                 PROVE  history.answers[i] <= new[i] + (IF i = k THEN 0 ELSE 1)
    BY <1>2 DEF OneLeft
  <2>2. /\ history.answers[i] \in Nat /\ history.replays[i] \in Nat
        /\ history.answers[i] <= history.replays[i] + (IF i = shown THEN 0 ELSE 1)
    BY <1>1 DEF AnswersInv, OneLeft, Counts
  <2>. QED
    BY <1>4, <2>2
<1>. QED
  BY <1>2, <1>5, <1>6, <1>7 DEF AnswersInv

-----------------------------------------------------------------------------
LEMMA FrameCounts ==
  ASSUME AnswersInv, InputNext
  PROVE  AnswersInv'
<1>1. ASSUME UNCHANGED <<asked, shown, history>>
      PROVE  AnswersInv'
  BY <1>1, AnswersKept
<1>2. ASSUME NEW act, NEW c, NEW p, shown # 0, Sends(act, c, p), UNCHANGED asked
      PROVE  AnswersInv'
  BY <1>2, SendsCounts
<1>3. CASE PassKey
  BY <1>2, <1>3 DEF PassKey, Showing
<1>4. CASE (\E fought \in BOOLEAN : PhaseChanged(fought)) \/ Polled \/ Board \/ LoadPrompt
  BY <1>1, <1>4 DEF PhaseChanged, Polled, Board, LoadPrompt, ClickOwn, RightClickOwn,
                    ClickTheirs, DropCard, LeaveBoard
<1>5. CASE PlayDragged
  BY <1>1, <1>2, <1>5 DEF PlayDragged, NotWritten, Castable, Playable, Showing
<1>6. CASE ActivateDragged
  BY <1>1, <1>2, <1>6 DEF ActivateDragged, NotWritten, Activatable, Showing
<1>7. CASE SendClicked
  <2>1. \/ UNCHANGED <<shown, history>>
        \/ shown # 0 /\ Written([kind |-> "target", target |-> combat_ui.clicked])
    BY <1>7 DEF SendClicked, NotWritten
  <2>2. UNCHANGED asked
    BY <1>7 DEF SendClicked
  <2>. QED
    BY <1>1, <2>1, <2>2, WrittenCounts
<1>8. CASE EndFrame
  BY <1>1, <1>8 DEF EndFrame
<1>9. ASSUME NEW kind, Button(kind), NEW act, NEW c, NEW p,
             Sends(act, c, p) \/ Answers(act, c, p)
      PROVE  AnswersInv'
  BY <1>2, <1>9 DEF Button, Showing, Answers
<1>10. ASSUME NEW kind, Button(kind), NotWritten \/ \E field, value : Picks(field, value)
       PROVE  AnswersInv'
  BY <1>1, <1>10 DEF Button, NotWritten, Picks
<1>11. CASE PriorityButtons
  BY <1>9, <1>11 DEF PriorityButtons
<1>12. CASE YesNoButtons \/ OrderButton \/ PayButton \/ BlockerButtons \/ ChoiceButtons
  BY <1>9, <1>12 DEF YesNoButtons, OrderButton, PayButton, BlockerButtons, ChoiceButtons
<1>13. CASE AttackerButtons \/ TargetButtons \/ DamageButtons
  BY <1>9, <1>10, <1>13 DEF AttackerButtons, TargetButtons, DamageButtons
<1>14. CASE DiscardButtons \/ ModeButtons
  BY <1>9, <1>10, <1>14 DEF DiscardButtons, ModeButtons, Toggles
<1>15. CASE Panel
  BY <1>8, <1>11, <1>12, <1>13, <1>14, <1>15 DEF Panel
<1>. QED
  BY <1>3, <1>4, <1>5, <1>6, <1>7, <1>15, AskedCounts, RedeliveredCounts DEF InputNext

(* A key, a drag, a click and a button of one frame, and the frames after   *)
(* it, answer a prompt at most once for every time it was delivered,        *)
(* whatever prompts take each other's place meanwhile.                      *)
THEOREM NoSecondAnswer == InputSpec => []AnsweredOnce
<1>1. InputInit => AnswersInv
  BY PromptsAreBounded, EmptySeq
     DEF InputInit, AnswersInv, Counted, NothingAhead, OneLeft, Counts
<1>2. ASSUME AnswersInv, [InputNext]_inputs
      PROVE  AnswersInv'
  BY <1>2, FrameCounts, AnswersKept DEF inputs
<1>3. AnswersInv => AnsweredOnce
  <2>1. SUFFICES ASSUME AnswersInv, NEW i \in 1..MaxPrompts
                 PROVE  history.answers[i] <= 1 + history.replays[i]
    BY DEF AnsweredOnce
  <2>2. /\ history.answers[i] \in Nat /\ history.replays[i] \in Nat
        /\ history.answers[i] <= history.replays[i] + (IF i = shown THEN 0 ELSE 1)
    BY <2>1 DEF AnswersInv, Counted, OneLeft, Counts
  <2>. QED
    BY <2>2
<1>. QED
  BY <1>1, <1>2, <1>3, PTL DEF InputSpec

-----------------------------------------------------------------------------
(* Sequences without some of their elements, sums, and the set of a sequence *)

(* Without(s, gone) is what s has at the positions of other elements. *)
LEMMA WithoutIs ==
  ASSUME NEW S, NEW s \in Seq(S), NEW gone
  PROVE  Without(s, gone) = AtPositions(s, {i \in 1 .. Len(s) : s[i] \notin gone})
<1>. DEFINE n == Len(s)
            I == {i \in 1 .. Len(s) : s[i] \notin gone}
            Kept == CHOOSE kept : kept = [i \in 0 .. Len(s) |->
                      IF i = 0 THEN <<>>
                      ELSE IF s[i] \in gone THEN kept[i - 1] ELSE Append(kept[i - 1], s[i])]
<1>1. PICK g \in [0 .. Len(s) -> Seq(S)] :
            /\ AtPositions(s, I) = g[Len(s)]
            /\ g[0] = <<>>
            /\ \A i \in 1 .. Len(s) : g[i] = IF i \in I THEN Append(g[i - 1], s[i]) ELSE g[i - 1]
  <2>. HIDE DEF I
  <2>. QED
    BY AtPositionsIs
<1>2. n \in Nat /\ n \in 0 .. n
  BY LenProperties
<1>3. \A i \in 0 .. n : g[i] = IF i = 0 THEN <<>>
                               ELSE IF s[i] \in gone THEN g[i - 1] ELSE Append(g[i - 1], s[i])
  <2>1. SUFFICES ASSUME NEW i \in 0 .. n
                 PROVE  g[i] = IF i = 0 THEN <<>>
                               ELSE IF s[i] \in gone THEN g[i - 1] ELSE Append(g[i - 1], s[i])
    OBVIOUS
  <2>2. i = 0 \/ i \in 1 .. n
    BY <1>2
  <2>3. i \in 1 .. n => i # 0 /\ (i \in I <=> s[i] \notin gone)
    BY <1>2
  <2>. HIDE DEF I
  <2>. QED
    BY <1>1, <2>2, <2>3
<1>4. g = [i \in 0 .. n |-> IF i = 0 THEN <<>>
                            ELSE IF s[i] \in gone THEN g[i - 1] ELSE Append(g[i - 1], s[i])]
  <2>1. g = [i \in 0 .. n |-> g[i]]
    OBVIOUS
  <2>. QED
    BY <1>3, <2>1, Zenon
<1>5. Kept = [i \in 0 .. n |-> IF i = 0 THEN <<>>
                               ELSE IF s[i] \in gone THEN Kept[i - 1]
                               ELSE Append(Kept[i - 1], s[i])]
  BY <1>4, Zenon
<1>6. Without(s, gone) = Kept[n]
  BY DEF Without
<1>. HIDE DEF Kept, I
<1>7. \A i \in 0 .. n : Kept[i] = g[i]
  <2>. DEFINE good == {i \in 0 .. n : Kept[i] = g[i]}
  <2>1. 0 \in good
    BY <1>1, <1>2, <1>5
  <2>2. ASSUME NEW k \in 0 .. n, k \in good, k < n
        PROVE  k + 1 \in good
    <3>1. k + 1 \in 0 .. n /\ (k + 1) - 1 = k /\ k + 1 # 0
      BY <1>2, <2>2
    <3>. QED
      BY <1>3, <1>5, <2>2, <3>1
  <2>. HIDE DEF good
  <2>3. \A k \in 0 .. n : k \in good
    BY <1>2, <2>1, <2>2, UpTo
  <2>. QED
    BY <2>3 DEF good
<1>. QED
  BY <1>1, <1>2, <1>6, <1>7 DEF I

(* pos shows where the elements of t, none of them in gone, come from in s. *)
ComesFrom(pos, t, s, gone) ==
  /\ pos \in [DOMAIN t -> DOMAIN s]
  /\ \A j \in DOMAIN t : t[j] = s[pos[j]] /\ s[pos[j]] \notin gone
  /\ \A i, j \in DOMAIN t : pos[i] = pos[j] => i = j

(* So its elements come from different places of s. *)
LEMMA WithoutFacts ==
  ASSUME NEW S, NEW s \in Seq(S), NEW gone
  PROVE  /\ Without(s, gone) \in Seq(S)
         /\ Len(Without(s, gone)) <= Len(s)
         /\ \E pos : ComesFrom(pos, Without(s, gone), s, gone)
<1>. DEFINE I == {i \in 1 .. Len(s) : s[i] \notin gone}
            t == AtPositions(s, I)
            n == Len(t)
<1>1. Without(s, gone) = t
  BY WithoutIs
<1>2. t \in Seq(S) /\ \E pos : PicksOut(pos, t, s, I, Len(s))
  <2>. HIDE DEF I
  <2>. QED
    BY AtPositionsPicks
<1>3. PICK pos : PicksOut(pos, t, s, I, Len(s))
  BY <1>2
<1>4. n \in Nat /\ DOMAIN t = 1 .. n /\ Len(s) \in Nat /\ DOMAIN s = 1 .. Len(s)
  <2>. HIDE DEF t
  <2>. QED
    BY <1>2, LenProperties
<1>5. /\ pos \in [1 .. n -> I] /\ I \subseteq 1 .. Len(s)
      /\ \A j \in 1 .. n : t[j] = s[pos[j]]
      /\ \A i, j \in 1 .. n : i < j => pos[i] < pos[j]
  BY <1>3 DEF PicksOut
<1>6. \A j \in 1 .. n : pos[j] \in 1 .. Len(s) /\ s[pos[j]] \notin gone
  <2>1. \A i \in I : i \in 1 .. Len(s) /\ s[i] \notin gone
    OBVIOUS
  <2>. HIDE DEF I, t, n
  <2>. QED
    BY <1>5, <2>1
<1>. HIDE DEF I, t, n
<1>7. \A i, j \in 1 .. n : pos[i] = pos[j] => i = j
  <2>1. SUFFICES ASSUME NEW i \in 1 .. n, NEW j \in 1 .. n, pos[i] = pos[j], i # j
                 PROVE  FALSE
    OBVIOUS
  <2>2. i < j \/ j < i
    BY <1>4, <2>1
  <2>3. pos[i] < pos[j] \/ pos[j] < pos[i]
    BY <1>5, <2>2
  <2>. QED
    BY <1>6, <1>4, <2>1, <2>3
<1>8. ComesFrom(pos, t, s, gone)
  BY <1>4, <1>5, <1>6, <1>7 DEF ComesFrom
<1>9. n <= Len(s)
  <2>. DEFINE good == {k \in 0 .. n : k = 0 \/ k <= pos[k]}
  <2>1. 0 \in good
    BY <1>4
  <2>2. ASSUME NEW k \in 0 .. n, k \in good, k < n
        PROVE  k + 1 \in good
    <3>1. k + 1 \in 1 .. n /\ k + 1 \in 0 .. n /\ pos[k + 1] \in 1 .. Len(s)
      BY <1>4, <1>6, <2>2
    <3>2. CASE k = 0
      BY <1>4, <3>1, <3>2
    <3>3. CASE k # 0
      <4>1. k \in 1 .. n /\ k < k + 1 /\ pos[k] \in 1 .. Len(s) /\ k <= pos[k]
        BY <1>4, <1>6, <2>2, <3>3
      <4>2. pos[k] < pos[k + 1]
        BY <1>5, <3>1, <4>1
      <4>. QED
        BY <1>4, <3>1, <4>1, <4>2
    <3>. QED
      BY <3>2, <3>3
  <2>. HIDE DEF good
  <2>3. n \in good
    <3>1. \A k \in 0 .. n : k \in good
      BY <1>4, <2>1, <2>2, UpTo
    <3>. QED
      BY <1>4, <3>1
  <2>4. n = 0 \/ n <= pos[n]
    BY <2>3 DEF good
  <2>. QED
    BY <1>4, <1>6, <2>4
<1>. QED
  BY <1>1, <1>2, <1>8, <1>9 DEF n

(* What a split deals out is a number, and changes with each of its parts. *)
LEMMA SplitSum ==
  ASSUME NEW s \in Seq(Nat)
  PROVE  Sum(s) \in Nat
<1>1. DOMAIN s = 1 .. Len(s) /\ Len(s) \in Nat /\ s \in [1 .. Len(s) -> Nat]
  BY LenProperties
<1>2. IsFiniteSet(DOMAIN s) /\ \A i \in DOMAIN s : s[i] \in Nat
  <2>. DEFINE n == Len(s)
  <2>1. n \in Int
    BY <1>1
  <2>. HIDE DEF n
  <2>2. IsFiniteSet(1 .. n)
    BY <2>1, FS_Interval
  <2>. QED
    BY <1>1, <2>2 DEF n
<1>. QED
  BY <1>2, SumNat DEF Sum, SumFunction

LEMMA SplitChanged ==
  ASSUME NEW s \in Seq(Nat), NEW i \in DOMAIN s, NEW x \in Nat
  PROVE  /\ [s EXCEPT ![i] = x] \in Seq(Nat) /\ Len([s EXCEPT ![i] = x]) = Len(s)
         /\ Sum([s EXCEPT ![i] = x]) = Sum(s) - s[i] + x
<1>. DEFINE t == [s EXCEPT ![i] = x]
            n == Len(s)
            D == 1 .. n
<1>1. DOMAIN s = D /\ n \in Nat /\ s \in [D -> Nat]
  BY LenProperties
<1>2. t \in [D -> Nat] /\ t[i] = x /\ i \in D /\ \A j \in D \ {i} : t[j] = s[j]
  BY <1>1
<1>3. DOMAIN t = D
  BY <1>2
<1>. HIDE DEF t
<1>4. t \in Seq(Nat) /\ Len(t) = n
  BY <1>1, <1>2, <1>3
<1>5. IsFiniteSet(D) /\ IsFiniteSet(D \ {i})
  <2>1. n \in Int
    BY <1>1
  <2>. HIDE DEF n
  <2>2. IsFiniteSet(1 .. n)
    BY <2>1, FS_Interval
  <2>. QED
    BY <2>2, FS_Subset
<1>. HIDE DEF D
<1>6. (\A j \in D : s[j] \in Int) /\ (\A j \in D : t[j] \in Int)
  BY <1>1, <1>2
<1>7. /\ SumFunctionOnSet(s, D) = s[i] + SumFunctionOnSet(s, D \ {i})
      /\ SumFunctionOnSet(t, D) = t[i] + SumFunctionOnSet(t, D \ {i})
  BY <1>2, <1>5, <1>6, SumRemove
<1>8. SumFunctionOnSet(s, D \ {i}) = SumFunctionOnSet(t, D \ {i})
  <2>1. \A j \in D \ {i} : s[j] \in Int /\ s[j] = t[j]
    BY <1>2, <1>6
  <2>. QED
    BY <1>5, <2>1, SumSame
<1>9. SumFunctionOnSet(s, D \ {i}) \in Int
  BY <1>5, <1>6, SumType
<1>10. Sum(s) = SumFunctionOnSet(s, D) /\ Sum(t) = SumFunctionOnSet(t, D)
  BY <1>1, <1>3 DEF Sum, SumFunction
<1>. QED
  BY <1>2, <1>4, <1>6, <1>7, <1>8, <1>9, <1>10 DEF t

LEMMA NothingSplit ==
  ASSUME NEW n \in Nat
  PROVE  /\ [i \in 1 .. n |-> 0] \in Seq(Nat) /\ Len([i \in 1 .. n |-> 0]) = n
         /\ Sum([i \in 1 .. n |-> 0]) = 0
<1>. DEFINE z == [i \in 1 .. n |-> 0]
            good == {k \in 0 .. n : SumFunctionOnSet(z, 1 .. k) = 0}
<1>1. z \in Seq(Nat) /\ Len(z) = n /\ DOMAIN z = 1 .. n /\ \A i \in 1 .. n : z[i] = 0
  OBVIOUS
<1>. HIDE DEF z
<1>2. 0 \in good
  <2>1. 1 .. 0 = {} /\ 0 \in 0 .. n
    OBVIOUS
  <2>. QED
    BY <2>1, SumEmpty
<1>3. ASSUME NEW k \in 0 .. n, k \in good, k < n
      PROVE  k + 1 \in good
  <2>1. /\ k + 1 \in 0 .. n /\ k + 1 \in 1 .. k + 1 /\ (1 .. k + 1) \ {k + 1} = 1 .. k
        /\ k + 1 \in 1 .. n /\ \A j \in 1 .. k + 1 : j \in 1 .. n
    BY <1>3
  <2>2. IsFiniteSet(1 .. k + 1)
    BY FS_Interval
  <2>3. \A j \in 1 .. k + 1 : z[j] \in Int
    BY <1>1, <2>1
  <2>4. SumFunctionOnSet(z, 1 .. k + 1) = z[k + 1] + SumFunctionOnSet(z, (1 .. k + 1) \ {k + 1})
    BY <2>1, <2>2, <2>3, SumRemove
  <2>5. z[k + 1] = 0 /\ SumFunctionOnSet(z, 1 .. k) = 0
    BY <1>1, <1>3, <2>1
  <2>6. SumFunctionOnSet(z, 1 .. k + 1) = 0 + 0
    BY <2>1, <2>4, <2>5, Zenon
  <2>. QED
    BY <2>1, <2>6
<1>. HIDE DEF good
<1>4. n \in good
  <2>1. \A k \in 0 .. n : k \in good
    BY <1>2, <1>3, UpTo
  <2>. QED
    BY <2>1
<1>5. SumFunctionOnSet(z, 1 .. n) = 0
  BY <1>4 DEF good
<1>. QED
  BY <1>1, <1>5 DEF Sum, SumFunction, z

(* A finite set can be listed without repetition. *)
LEMMA Listed ==
  ASSUME NEW S, IsFiniteSet(S)
  PROVE  SetToSeq(S) \in Seq(S) /\ IsInjective(SetToSeq(S))
<1>. DEFINE n == Cardinality(S)
<1>1. n \in Nat /\ \E f : f \in Bijection(1 .. n, S)
  BY FS_CardinalityType DEF ExistsBijection
<1>2. \E f \in [1 .. n -> S] : IsInjective(f)
  <2>1. PICK f : f \in Bijection(1 .. n, S)
    BY <1>1
  <2>2. f \in [1 .. n -> S] /\ IsInjective(f)
    BY <2>1 DEF Bijection, Injection, Surjection, IsInjective
  <2>. QED
    BY <2>2
<1>3. SetToSeq(S) \in [1 .. n -> S] /\ IsInjective(SetToSeq(S))
  BY <1>2 DEF SetToSeq
<1>. QED
  BY <1>1, <1>3

-----------------------------------------------------------------------------
(* What a frame keeps about the selection, the panel and the last answer.   *)
(* prompts: those asked; id: the one loaded; again: one was delivered again. *)

(* The prompt that the selection belongs to is of such a kind. *)
Loaded(prompts, id, kind) == id # 0 /\ prompts[id].kind = kind

(* The values of Combat_UI_State, and of what is picked in the panel. *)
Selections ==
  [mode : {"none", "attackers", "blockers"}, eligible : SUBSET Mine, chosen : Seq(Mine),
   blocks : Seq([blocker : Mine, attacker : Theirs]), blocker : Mine \union {Nothing},
   legal : SUBSET (Mine \union Theirs), clicked : Mine \union Theirs \union {Nothing}]

PanelPicks ==
  [target : Mine \union Theirs \union {Nothing}, split : Seq(Nat), discards : Seq(Hand),
   modes : Seq(Nat)]

(* A creature is chosen as an attacker at most twice. *)
AtMostTwice(s) ==
  \A i, j, k \in DOMAIN s : s[i] = s[j] /\ s[j] = s[k] => i = j \/ j = k \/ i = k

(* Creatures are chosen as attackers from those that may attack, *)
AttackersChosen(ui, prompts, id) ==
  /\ AtMostTwice(ui.chosen)
  /\ ui.mode = "attackers" => Loaded(prompts, id, "attackers")
  /\ Loaded(prompts, id, "attackers") =>
       Range(ui.chosen) \union ui.eligible \subseteq prompts[id].eligible

(* blocks are assigned to those that may block, and not to one twice, *)
BlocksChosen(ui, prompts, again, id) ==
  /\ ui.mode = "blockers" => Loaded(prompts, id, "blockers")
  /\ Loaded(prompts, id, "blockers") =>
       /\ BlocksFit(prompts, again, id, ui.blocks)
       /\ ui.eligible \union {ui.blocker} \subseteq prompts[id].eligible \union {Nothing}
       /\ \A i \in DOMAIN ui.blocks : ui.blocks[i].blocker # ui.blocker

(* and a clicked target is one that some prompt allows. *)
TargetChosen(ui, prompts, id) ==
  /\ ui.legal # {} => Loaded(prompts, id, "target") /\ ui.legal \subseteq prompts[id].legal
  /\ ui.clicked # Nothing =>
       \E i \in DOMAIN prompts : /\ prompts[i].kind = "target"
                                 /\ ui.clicked \in prompts[i].legal

Selected(ui, prompts, again, id) ==
  /\ ui \in Selections
  /\ AttackersChosen(ui, prompts, id)
  /\ BlocksChosen(ui, prompts, again, id)
  /\ TargetChosen(ui, prompts, id)

(* What is picked in the panel fits the prompt that is loaded. *)
Picked(p, prompts, id) ==
  /\ p \in PanelPicks
  /\ Loaded(prompts, id, "damage") => Sum(p.split) <= prompts[id].total
  /\ Loaded(prompts, id, "target") => p.target \in prompts[id].legal \union {Nothing}
  /\ Loaded(prompts, id, "discard") =>
       PicksFit(p.discards, prompts[id].hand, prompts[id].count)
  /\ Loaded(prompts, id, "modes") =>
       PicksFit(p.modes, 1..prompts[id].modes, prompts[id].most)

(* Whoever is flagged as attacking was named by a prompt, *)
Named(attacking, prompts) ==
  \A a \in attacking :
    \E i \in DOMAIN prompts : prompts[i].kind = "blockers" /\ a \in prompts[i].attackers

(* and as long as none was delivered again by this one, if it asks to block. *)
NamedBy(attacking, prompts, again, id) ==
  ~again /\ Loaded(prompts, id, "blockers") => attacking \subseteq prompts[id].attackers

(* What the alternatives of a prompt hold. *)
LEMMA OfferIs ==
  ASSUME NEW p \in Offers
  PROVE  /\ p.kind = "priority" => /\ p.castable \in SUBSET Hand /\ p.canLand \in BOOLEAN
                                   /\ p.activatable \in SUBSET Mine
         /\ p.kind = "attackers" => p.eligible \in SUBSET Mine
         /\ p.kind = "blockers" => p.eligible \in SUBSET Mine /\ p.attackers \in SUBSET Theirs
         /\ p.kind = "damage" => p.blockers \in Nat /\ p.total \in Nat
         /\ p.kind = "target" => p.legal \in SUBSET (Mine \union Theirs)
         /\ p.kind = "discard" => p.hand \in SUBSET Hand /\ p.count \in Nat
         /\ p.kind = "modes" => p.modes \in Nat /\ p.least \in Nat /\ p.most \in Nat
<1>1. p \in Prompts(p.kind)
  BY OffersArePrompts
<1>2. CASE p.kind = "priority"
  BY <1>1, <1>2 DEF Prompts
<1>3. CASE p.kind = "attackers"
  BY <1>1, <1>3 DEF Prompts
<1>4. CASE p.kind = "blockers"
  BY <1>1, <1>4 DEF Prompts
<1>5. CASE p.kind = "damage"
  BY <1>1, <1>5 DEF Prompts
<1>6. CASE p.kind = "target"
  BY <1>1, <1>6 DEF Prompts
<1>7. CASE p.kind = "discard"
  BY <1>1, <1>7 DEF Prompts
<1>8. CASE p.kind = "modes"
  BY <1>1, <1>8 DEF Prompts
<1>. QED
  BY <1>2, <1>3, <1>4, <1>5, <1>6, <1>7, <1>8

(* The prompts, and whether one was delivered again, later on. *)
Later(prompts, again, more, then) ==
  /\ \A i \in DOMAIN prompts : i \in DOMAIN more /\ more[i] = prompts[i]
  /\ again => then

(* An answer that fits goes on to fit, *)
LEMMA FitsLater ==
  ASSUME NEW qs, NEW again \in BOOLEAN, NEW rs, NEW then \in BOOLEAN,
         Later(qs, again, rs, then),
         NEW id \in DOMAIN qs, NEW act, Fits(qs, again, id, act)
  PROVE  Fits(rs, then, id, act)
<1>1. rs[id] = qs[id] /\ \A i \in DOMAIN qs : i \in DOMAIN rs /\ rs[i] = qs[i]
  BY DEF Later
<1>2. ASSUME NEW bs, BlocksFit(qs, again, id, bs)
      PROVE  BlocksFit(rs, then, id, bs)
  <2>1. ASSUME NEW a, AttackerFits(qs, again, id, a)
        PROVE  AttackerFits(rs, then, id, a)
    BY <1>1, <2>1 DEF AttackerFits, Later
  <2>. QED
    BY <1>1, <1>2, <2>1 DEF BlocksFit
<1>3. ASSUME NEW t, TargetFits(qs, id, t)
      PROVE  TargetFits(rs, id, t)
  BY <1>1, <1>3 DEF TargetFits
<1>. QED
  BY <1>1, <1>2, <1>3 DEF Fits

(* and so do the selection and what is picked. *)
LEMMA SelectedLater ==
  ASSUME NEW qs, NEW again \in BOOLEAN, NEW rs, NEW then \in BOOLEAN,
         Later(qs, again, rs, then),
         NEW id, id = 0 \/ id \in DOMAIN qs, NEW ui, Selected(ui, qs, again, id)
  PROVE  Selected(ui, rs, then, id)
<1>1. /\ \A i \in DOMAIN qs : i \in DOMAIN rs /\ rs[i] = qs[i]
      /\ id # 0 => rs[id] = qs[id]
  BY DEF Later
<1>2. \A kind : Loaded(rs, id, kind) <=> Loaded(qs, id, kind)
  BY <1>1 DEF Loaded
<1>3. AttackersChosen(ui, rs, id)
  BY <1>1, <1>2 DEF Selected, AttackersChosen, Loaded
<1>4. BlocksChosen(ui, rs, then, id)
  <2>1. ASSUME id # 0, NEW bs, BlocksFit(qs, again, id, bs)
        PROVE  BlocksFit(rs, then, id, bs)
    <3>1. ASSUME NEW a, AttackerFits(qs, again, id, a)
          PROVE  AttackerFits(rs, then, id, a)
      BY <1>1, <2>1, <3>1 DEF AttackerFits, Later
    <3>. QED
      BY <1>1, <2>1, <3>1 DEF BlocksFit
  <2>. QED
    BY <1>1, <1>2, <2>1 DEF Selected, BlocksChosen, Loaded
<1>5. TargetChosen(ui, rs, id)
  BY <1>1, <1>2 DEF Selected, TargetChosen, Loaded
<1>. QED
  BY <1>3, <1>4, <1>5 DEF Selected

LEMMA PickedLater ==
  ASSUME NEW qs, NEW again, NEW rs, NEW then, Later(qs, again, rs, then),
         NEW id, id = 0 \/ id \in DOMAIN qs, NEW p, Picked(p, qs, id)
  PROVE  Picked(p, rs, id)
<1>1. id # 0 => rs[id] = qs[id]
  BY DEF Later
<1>. QED
  BY <1>1 DEF Picked, Loaded

-----------------------------------------------------------------------------
(* Changes of the selection *)

LEMMA ChosenChanged ==
  ASSUME NEW ui, NEW qs, NEW again, NEW id, Selected(ui, qs, again, id),
         NEW s \in Seq(Mine), AtMostTwice(s),
         Loaded(qs, id, "attackers") => Range(s) \subseteq qs[id].eligible
  PROVE  Selected([ui EXCEPT !.chosen = s], qs, again, id)
<1>. DEFINE new == [ui EXCEPT !.chosen = s]
<1>1. /\ new \in Selections
      /\ new.chosen = s /\ new.mode = ui.mode /\ new.eligible = ui.eligible
      /\ new.blocks = ui.blocks /\ new.blocker = ui.blocker /\ new.legal = ui.legal
      /\ new.clicked = ui.clicked
  BY DEF Selected, Selections
<1>. HIDE DEF new
<1>2. AttackersChosen(new, qs, id)
  BY <1>1 DEF Selected, AttackersChosen
<1>3. BlocksChosen(new, qs, again, id) /\ TargetChosen(new, qs, id)
  BY <1>1 DEF Selected, BlocksChosen, TargetChosen
<1>. QED
  BY <1>1, <1>2, <1>3 DEF Selected, new

LEMMA BlocksChanged ==
  ASSUME NEW ui, NEW qs, NEW again, NEW id, Selected(ui, qs, again, id),
         NEW bs \in Seq([blocker : Mine, attacker : Theirs]), NEW b \in Mine \union {Nothing},
         Loaded(qs, id, "blockers") =>
           /\ BlocksFit(qs, again, id, bs) /\ b \in qs[id].eligible \union {Nothing}
           /\ \A i \in DOMAIN bs : bs[i].blocker # b
  PROVE  Selected([ui EXCEPT !.blocks = bs, !.blocker = b], qs, again, id)
<1>. DEFINE new == [ui EXCEPT !.blocks = bs, !.blocker = b]
<1>1. /\ new \in Selections
      /\ new.chosen = ui.chosen /\ new.mode = ui.mode /\ new.eligible = ui.eligible
      /\ new.blocks = bs /\ new.blocker = b /\ new.legal = ui.legal
      /\ new.clicked = ui.clicked
  BY DEF Selected, Selections
<1>. HIDE DEF new
<1>2. AttackersChosen(new, qs, id) /\ TargetChosen(new, qs, id)
  BY <1>1 DEF Selected, AttackersChosen, TargetChosen
<1>3. BlocksChosen(new, qs, again, id)
  BY <1>1 DEF Selected, BlocksChosen
<1>. QED
  BY <1>1, <1>2, <1>3 DEF Selected, new

LEMMA ClickedChanged ==
  ASSUME NEW ui, NEW qs, NEW again, NEW id \in DOMAIN qs \union {0},
         Selected(ui, qs, again, id), NEW t \in ui.legal \union {Nothing}
  PROVE  Selected([ui EXCEPT !.clicked = t], qs, again, id)
<1>. DEFINE new == [ui EXCEPT !.clicked = t]
<1>1. /\ new \in Selections
      /\ new.chosen = ui.chosen /\ new.mode = ui.mode /\ new.eligible = ui.eligible
      /\ new.blocks = ui.blocks /\ new.blocker = ui.blocker /\ new.legal = ui.legal
      /\ new.clicked = t
  BY DEF Selected, Selections
<1>. HIDE DEF new
<1>2. AttackersChosen(new, qs, id) /\ BlocksChosen(new, qs, again, id)
  BY <1>1 DEF Selected, AttackersChosen, BlocksChosen
<1>3. TargetChosen(new, qs, id)
  BY <1>1 DEF Selected, TargetChosen, Loaded
<1>. QED
  BY <1>1, <1>2, <1>3 DEF Selected, new

(* Nothing is chosen. *)
LEMMA NoneSelected ==
  ASSUME NEW qs, NEW again, NEW id
  PROVE  Selected(NoCombat, qs, again, id)
<1>1. NoCombat \in Selections
  BY DEF NoCombat, Selections
<1>. QED
  BY <1>1 DEF NoCombat, Selected, AttackersChosen, BlocksChosen, TargetChosen, BlocksFit,
              AtMostTwice, Range

(* The selection that a prompt starts with is a selection under it. *)
LEMMA SelectionFits ==
  ASSUME NEW qs \in Seq(Offers), NEW again, NEW id \in DOMAIN qs, id # 0
  PROVE  Selected(Selection(qs[id]), qs, again, id)
<1>. DEFINE p == qs[id]
<1>1. p \in Offers
  BY LenProperties, ElementOfSeq
<1>6. /\ NoCombat \in Selections /\ NoCombat.mode = "none" /\ NoCombat.eligible = {}
      /\ NoCombat.chosen = <<>> /\ NoCombat.blocks = <<>> /\ NoCombat.blocker = Nothing
      /\ NoCombat.legal = {} /\ NoCombat.clicked = Nothing
  <2>1. NoCombat \in Selections
    BY NoneSelected DEF Selected
  <2>. QED
    BY <2>1 DEF NoCombat
<1>2. CASE p.kind = "attackers"
  <2>. DEFINE ui == [NoCombat EXCEPT !.mode = "attackers", !.eligible = p.eligible]
  <2>1. Selection(p) = ui
    BY <1>2 DEF Selection
  <2>2. /\ ui \in Selections /\ ui.mode = "attackers" /\ ui.eligible = p.eligible
        /\ ui.chosen = <<>> /\ ui.legal = {} /\ ui.clicked = Nothing
    <3>1. p.eligible \in SUBSET Mine
      BY <1>1, <1>2, OfferIs
    <3>. HIDE DEF p
    <3>. QED
      BY <1>6, <3>1 DEF Selections
  <2>. HIDE DEF ui
  <2>3. AttackersChosen(ui, qs, id)
    BY <1>2, <2>2 DEF AttackersChosen, Loaded, AtMostTwice, Range
  <2>4. BlocksChosen(ui, qs, again, id) /\ TargetChosen(ui, qs, id)
    BY <1>2, <2>2 DEF BlocksChosen, TargetChosen, Loaded
  <2>. QED
    BY <2>1, <2>2, <2>3, <2>4 DEF Selected
<1>3. CASE p.kind = "blockers"
  <2>. DEFINE ui == [NoCombat EXCEPT !.mode = "blockers", !.eligible = p.eligible]
  <2>1. Selection(p) = ui
    BY <1>3 DEF Selection
  <2>2. /\ ui \in Selections /\ ui.mode = "blockers" /\ ui.eligible = p.eligible
        /\ ui.chosen = <<>> /\ ui.legal = {} /\ ui.clicked = Nothing
        /\ ui.blocks = <<>> /\ ui.blocker = Nothing
    <3>1. p.eligible \in SUBSET Mine
      BY <1>1, <1>3, OfferIs
    <3>. HIDE DEF p
    <3>. QED
      BY <1>6, <3>1 DEF Selections
  <2>. HIDE DEF ui
  <2>3. AttackersChosen(ui, qs, id) /\ TargetChosen(ui, qs, id)
    BY <1>3, <2>2 DEF AttackersChosen, TargetChosen, Loaded, AtMostTwice, Range
  <2>4. BlocksChosen(ui, qs, again, id)
    BY <1>3, <2>2 DEF BlocksChosen, BlocksFit, Loaded
  <2>. QED
    BY <2>1, <2>2, <2>3, <2>4 DEF Selected
<1>4. CASE p.kind = "target"
  <2>. DEFINE ui == [NoCombat EXCEPT !.legal = p.legal]
  <2>1. Selection(p) = ui
    BY <1>4 DEF Selection
  <2>2. /\ ui \in Selections /\ ui.mode = "none" /\ ui.legal = p.legal
        /\ ui.chosen = <<>> /\ ui.clicked = Nothing
    <3>1. p.legal \in SUBSET (Mine \union Theirs)
      BY <1>1, <1>4, OfferIs
    <3>. HIDE DEF p
    <3>. QED
      BY <1>6, <3>1 DEF Selections
  <2>. HIDE DEF ui
  <2>3. AttackersChosen(ui, qs, id) /\ BlocksChosen(ui, qs, again, id)
    BY <1>4, <2>2 DEF AttackersChosen, BlocksChosen, Loaded, AtMostTwice, Range
  <2>4. TargetChosen(ui, qs, id)
    BY <1>4, <2>2 DEF TargetChosen, Loaded
  <2>. QED
    BY <2>1, <2>2, <2>3, <2>4 DEF Selected
<1>5. CASE p.kind \notin {"attackers", "blockers", "target"}
  BY <1>5, NoneSelected DEF Selection
<1>. QED
  BY <1>2, <1>3, <1>4, <1>5

-----------------------------------------------------------------------------
(* The inductive invariant *)

(* The local variables of the frame. *)
InputShape ==
  /\ at \in {"keys", "poll", "board", "drag", "activate", "click", "load", "button"}
  /\ mouse \in BOOLEAN
  /\ loaded \in 0..Len(asked)
  /\ drag \in [play : Hand \union {Nothing}, activate : Mine \union {Nothing}]
  /\ marks \in [attacking : SUBSET Theirs, activated : SUBSET Mine]

Flagged ==
  /\ Named(marks.attacking, asked)
  /\ NamedBy(marks.attacking, asked, Replayed, shown)
  /\ NamedBy(marks.attacking, asked, Replayed, loaded)

(* A button is pressed on the panel of the prompt that was loaded. *)
PanelLoaded ==
  at = "button" /\ shown # 0 =>
    /\ loaded = shown
    /\ asked[shown].kind = "damage" => Len(picks.split) = asked[shown].blockers

(* The last answer fits the prompt it was sent under. *)
SentFits ==
  /\ sent.id \in 0..Len(asked)
  /\ sent.id # 0 => Fits(asked, Replayed, sent.id, sent.act)

InputInv ==
  /\ AnswersInv /\ InputShape
  /\ Selected(combat_ui, asked, Replayed, loaded)
  /\ Picked(picks, asked, loaded)
  /\ Flagged /\ PanelLoaded /\ SentFits

(* What all but the arrival of a prompt and its loading leave alone. *)
Steady ==
  /\ UNCHANGED <<asked, loaded>> /\ history'.replays = history.replays
  /\ shown' \in {0, shown}

LEMMA Numbers ==
  ASSUME InputInv
  PROVE  /\ asked \in Seq(Offers) /\ Len(asked) \in Nat /\ DOMAIN asked = 1..Len(asked)
         /\ shown \in 0..Len(asked) /\ loaded \in 0..Len(asked)
         /\ \A i \in DOMAIN asked : i # 0 /\ asked[i] \in Offers
         /\ shown # 0 => shown \in DOMAIN asked
         /\ loaded # 0 => loaded \in DOMAIN asked
         /\ Replayed \in BOOLEAN
         /\ combat_ui \in Selections /\ picks \in PanelPicks
<1>1. asked \in Seq(Offers) /\ shown \in 0..Len(asked) /\ loaded \in 0..Len(asked)
  BY DEF InputInv, AnswersInv, Counted, InputShape
<1>2. Len(asked) \in Nat /\ DOMAIN asked = 1..Len(asked)
  BY <1>1, LenProperties
<1>3. \A i \in DOMAIN asked : i # 0 /\ asked[i] \in Offers
  BY <1>1, <1>2, ElementOfSeq
<1>4. Replayed \in BOOLEAN
  BY DEF Replayed
<1>5. combat_ui \in Selections /\ picks \in PanelPicks
  BY DEF InputInv, Selected, Picked
<1>. QED
  BY <1>1, <1>2, <1>3, <1>4, <1>5

LEMMA SteadyReplays ==
  ASSUME Steady
  PROVE  Replayed' = Replayed
BY DEF Steady, Replayed

LEMMA SteadyKeeps ==
  ASSUME InputInv, Steady, AnswersInv', InputShape', at' # "button",
         marks'.attacking \subseteq marks.attacking,
         Selected(combat_ui', asked, Replayed, loaded), Picked(picks', asked, loaded),
         SentFits'
  PROVE  InputInv'
<1>1. asked' = asked /\ loaded' = loaded /\ Replayed' = Replayed /\ shown' \in {0, shown}
  BY SteadyReplays DEF Steady
<1>2. Selected(combat_ui', asked', Replayed', loaded') /\ Picked(picks', asked', loaded')
  BY <1>1
<1>3. Flagged'
  <2>1. Named(marks'.attacking, asked')
    BY <1>1 DEF InputInv, Flagged, Named
  <2>2. NamedBy(marks'.attacking, asked', Replayed', loaded')
    BY <1>1 DEF InputInv, Flagged, NamedBy
  <2>3. NamedBy(marks'.attacking, asked', Replayed', shown')
    BY <1>1 DEF InputInv, Flagged, NamedBy, Loaded
  <2>. QED
    BY <2>1, <2>2, <2>3 DEF Flagged
<1>4. PanelLoaded'
  BY DEF PanelLoaded
<1>. QED
  BY <1>2, <1>3, <1>4 DEF InputInv

(* Without an answer nothing is counted or sent. *)
LEMMA Unsent ==
  ASSUME InputInv, NotWritten, UNCHANGED <<asked, loaded>>
  PROVE  Steady /\ AnswersInv' /\ SentFits'
<1>1. Steady
  BY DEF NotWritten, Steady
<1>2. AnswersInv'
  BY AnswersKept DEF InputInv, NotWritten
<1>3. sent' = sent /\ asked' = asked /\ Replayed' = Replayed
  BY <1>1, SteadyReplays DEF NotWritten
<1>4. SentFits'
  BY <1>3 DEF InputInv, SentFits
<1>. QED
  BY <1>1, <1>2, <1>4

(* A fitting answer goes out under the prompt that is shown. *)
LEMMA Wrote ==
  ASSUME InputInv, shown # 0, NEW act, Fits(asked, Replayed, shown, act),
         Written(act), UNCHANGED <<asked, loaded>>
  PROVE  Steady /\ AnswersInv' /\ SentFits'
<1>1. Steady
  BY DEF Written, Clear, Steady, InputInv, AnswersInv, Counted
<1>2. AnswersInv'
  BY WrittenCounts DEF InputInv
<1>3. sent' = [id |-> shown, act |-> act] /\ asked' = asked /\ Replayed' = Replayed
  BY <1>1, SteadyReplays DEF Written
<1>4. SentFits'
  BY <1>3, Numbers DEF SentFits
<1>. QED
  BY <1>1, <1>2, <1>4

(* A step that sends a fitting answer and leaves the rest to a selection    *)
(* and picks that fit.                                                      *)
LEMMA SendKeeps ==
  ASSUME InputInv, shown # 0, NEW act, Fits(asked, Replayed, shown, act), NEW c, NEW p,
         Sends(act, c, p), UNCHANGED <<asked, loaded>>,
         Selected(c, asked, Replayed, loaded), Picked(p, asked, loaded),
         InputShape', at' # "button", marks'.attacking \subseteq marks.attacking
  PROVE  InputInv'
<1>1. CASE Written(act) /\ combat_ui' = c /\ picks' = p
  <2>1. Steady /\ AnswersInv' /\ SentFits'
    BY <1>1, Wrote
  <2>2. Selected(combat_ui', asked, Replayed, loaded) /\ Picked(picks', asked, loaded)
    BY <1>1
  <2>. QED
    BY <2>1, <2>2, SteadyKeeps
<1>2. CASE NotWritten /\ UNCHANGED <<combat_ui, picks>>
  <2>1. Steady /\ AnswersInv' /\ SentFits'
    BY <1>2, Unsent
  <2>2. Selected(combat_ui', asked, Replayed, loaded) /\ Picked(picks', asked, loaded)
    BY <1>2 DEF InputInv
  <2>. QED
    BY <2>1, <2>2, SteadyKeeps
<1>. QED
  BY <1>1, <1>2 DEF Sends

(* A step that sends nothing. *)
LEMMA QuietKeeps ==
  ASSUME InputInv, NotWritten, UNCHANGED <<asked, loaded>>,
         Selected(combat_ui', asked, Replayed, loaded), Picked(picks', asked, loaded),
         InputShape', at' # "button", marks'.attacking \subseteq marks.attacking
  PROVE  InputInv'
BY Unsent, SteadyKeeps

LEMMA UnchangedKeeps ==
  ASSUME InputInv, NotWritten, UNCHANGED <<asked, loaded, combat_ui, picks>>,
         InputShape', at' # "button", marks'.attacking \subseteq marks.attacking
  PROVE  InputInv'
BY QuietKeeps DEF InputInv

-----------------------------------------------------------------------------
(* Keys, events and drags *)

LEMMA PassKeyKeeps ==
  ASSUME InputInv, PassKey
  PROVE  InputInv'
<1>1. /\ shown # 0 /\ Sends([kind |-> "pass"], combat_ui, picks)
      /\ UNCHANGED <<asked, loaded>> /\ InputShape' /\ at' # "button" /\ marks' = marks
  BY DEF PassKey, Showing, InputInv, InputShape
<1>2. Fits(asked, Replayed, shown, [kind |-> "pass"])
  BY DEF PassKey, Showing, prompt, Fits, PriorityAnswer
<1>. QED
  BY <1>1, <1>2, SendKeeps DEF InputInv

LEMMA PollKeeps ==
  ASSUME InputInv, (\E fought \in BOOLEAN : PhaseChanged(fought)) \/ Polled
  PROVE  InputInv'
<1>1. /\ NotWritten /\ UNCHANGED <<asked, loaded, combat_ui, picks>>
      /\ InputShape' /\ at' # "button" /\ marks'.attacking \subseteq marks.attacking
  BY DEF PhaseChanged, Polls, Polled, NotWritten, InputInv, InputShape
<1>. QED
  BY <1>1, UnchangedKeeps

LEMMA AskedKeeps ==
  ASSUME InputInv, NEW p \in Offers, Asked(p)
  PROVE  InputInv'
<1>1. /\ asked' = Append(asked, p) /\ shown' = Len(asked') /\ at' = "poll"
      /\ UNCHANGED <<mouse, loaded, combat_ui, picks, drag, marks, sent, history>>
      /\ p.kind = "blockers" /\ ~Replayed => marks.attacking \subseteq p.attackers
  BY DEF Asked, Polls
<1>2. /\ asked' \in Seq(Offers) /\ Len(asked') = Len(asked) + 1
      /\ DOMAIN asked' = 1..(Len(asked) + 1)
      /\ asked'[Len(asked) + 1] = p
      /\ \A i \in DOMAIN asked : asked'[i] = asked[i]
  BY <1>1, Numbers, AppendProperties, LenProperties
<1>3. \A i \in DOMAIN asked : i \in DOMAIN asked' /\ asked'[i] = asked[i]
  BY <1>2, Numbers
<1>4. Later(asked, Replayed, asked', Replayed') /\ Replayed' \in BOOLEAN
  BY <1>1, <1>3 DEF Later, Replayed
<1>5. loaded' = loaded /\ loaded \in DOMAIN asked \union {0}
  BY <1>1, Numbers
<1>6. AnswersInv'
  BY AskedCounts DEF InputInv
<1>7. InputShape'
  BY <1>1, <1>2, Numbers DEF InputInv, InputShape
<1>8. Selected(combat_ui', asked', Replayed', loaded')
  BY <1>1, <1>4, <1>5, Numbers, SelectedLater DEF InputInv
<1>9. Picked(picks', asked', loaded')
  BY <1>1, <1>4, <1>5, PickedLater DEF InputInv
<1>10. Flagged'
  <2>1. Named(marks'.attacking, asked')
    BY <1>1, <1>3 DEF InputInv, Flagged, Named
  <2>2. NamedBy(marks'.attacking, asked', Replayed', loaded')
    BY <1>1, <1>3, <1>4, <1>5 DEF InputInv, Flagged, NamedBy, Loaded, Later
  <2>3. NamedBy(marks'.attacking, asked', Replayed', shown')
    BY <1>1, <1>2, <1>4 DEF NamedBy, Loaded, Later
  <2>. QED
    BY <2>1, <2>2, <2>3 DEF Flagged
<1>11. PanelLoaded'
  BY <1>1 DEF PanelLoaded
<1>12. SentFits'
  <2>1. sent.id \in 0..Len(asked) /\ (sent.id # 0 => Fits(asked, Replayed, sent.id, sent.act))
    BY DEF InputInv, SentFits
  <2>2. ASSUME sent.id # 0
        PROVE  Fits(asked', Replayed', sent.id, sent.act)
    <3>1. sent.id \in DOMAIN asked /\ Replayed \in BOOLEAN
      BY <2>1, <2>2, Numbers
    <3>. QED
      BY <1>4, <2>1, <2>2, <3>1, FitsLater
  <2>. QED
    BY <1>1, <1>2, <2>1, <2>2, Numbers DEF SentFits
<1>. QED
  BY <1>6, <1>7, <1>8, <1>9, <1>10, <1>11, <1>12 DEF InputInv

LEMMA RedeliveredKeeps ==
  ASSUME InputInv, NEW i \in DOMAIN asked, Redelivered(i)
  PROVE  InputInv'
<1>1. /\ shown' = i /\ history' = [history EXCEPT !.replays[i] = @ + 1] /\ at' = "poll"
      /\ UNCHANGED <<mouse, asked, loaded, combat_ui, picks, drag, marks, sent>>
  BY DEF Redelivered, Polls
<1>2. Replayed'
  <2>1. /\ history \in [answers : Counts, replays : Counts] /\ i \in 1..MaxPrompts
        /\ history.replays[i] \in Nat
    <3>1. /\ history \in [answers : Counts, replays : Counts] /\ Len(asked) <= MaxPrompts
          /\ i \in 1..Len(asked) /\ Len(asked) \in Nat
      BY Numbers DEF InputInv, AnswersInv, Counted
    <3>2. i \in 1..MaxPrompts
      BY <3>1, PromptsAreBounded
    <3>. QED
      BY <3>1, <3>2 DEF Counts
  <2>2. history'.replays[i] = history.replays[i] + 1
    BY <1>1, <2>1 DEF Counts
  <2>3. history'.replays[i] > 0
    BY <2>1, <2>2
  <2>. QED
    BY <1>1, <2>3 DEF Replayed
<1>3. Later(asked, Replayed, asked', Replayed') /\ Replayed' \in BOOLEAN
  BY <1>1, <1>2 DEF Later, Replayed
<1>4. loaded' = loaded /\ loaded \in DOMAIN asked \union {0}
  BY <1>1, Numbers
<1>5. AnswersInv'
  BY RedeliveredCounts DEF InputInv
<1>6. InputShape'
  BY <1>1 DEF InputInv, InputShape
<1>7. Selected(combat_ui', asked', Replayed', loaded')
  BY <1>1, <1>3, <1>4, Numbers, SelectedLater DEF InputInv
<1>8. Picked(picks', asked', loaded')
  BY <1>1 DEF InputInv
<1>9. Flagged'
  BY <1>1, <1>2 DEF InputInv, Flagged, Named, NamedBy
<1>10. PanelLoaded'
  BY <1>1 DEF PanelLoaded
<1>11. SentFits'
  <2>1. sent.id \in 0..Len(asked) /\ (sent.id # 0 => Fits(asked, Replayed, sent.id, sent.act))
    BY DEF InputInv, SentFits
  <2>2. sent.id # 0 => Fits(asked', Replayed', sent.id, sent.act)
    BY <1>3, <2>1, Numbers, FitsLater
  <2>. QED
    BY <1>1, <2>1, <2>2 DEF SentFits
<1>. QED
  BY <1>5, <1>6, <1>7, <1>8, <1>9, <1>10, <1>11 DEF InputInv

-----------------------------------------------------------------------------
(* The board *)

(* No creature is chosen more often because another is taken back, *)
LEMMA TwiceWithout ==
  ASSUME NEW S, NEW s \in Seq(S), AtMostTwice(s), NEW gone
  PROVE  /\ Without(s, gone) \in Seq(S) /\ AtMostTwice(Without(s, gone))
         /\ Range(Without(s, gone)) \subseteq Range(s)
<1>. DEFINE t == Without(s, gone)
<1>1. t \in Seq(S) /\ \E pos : ComesFrom(pos, t, s, gone)
  BY WithoutFacts
<1>2. PICK pos : ComesFrom(pos, t, s, gone)
  BY <1>1
<1>. HIDE DEF t
<1>3. \A j \in DOMAIN t : pos[j] \in DOMAIN s /\ t[j] = s[pos[j]]
  BY <1>2 DEF ComesFrom
<1>4. \A i, j \in DOMAIN t : pos[i] = pos[j] => i = j
  BY <1>2 DEF ComesFrom
<1>5. AtMostTwice(t)
  BY <1>3, <1>4 DEF AtMostTwice
<1>6. Range(t) \subseteq Range(s)
  BY <1>3 DEF Range
<1>. QED
  BY <1>1, <1>5, <1>6 DEF t

(* and one that is chosen and dropped is chosen twice. *)
LEMMA TwiceAdded ==
  ASSUME NEW S, NEW s \in Seq(S), AtMostTwice(s), NEW c \in S, c \notin Range(s),
         NEW d \in {<<c>>, <<c, c>>}
  PROVE  /\ s \o d \in Seq(S) /\ AtMostTwice(s \o d)
         /\ Range(s \o d) \subseteq Range(s) \union {c}
<1>. DEFINE n == Len(s)
            t == s \o d
<1>1. /\ d \in Seq(S) /\ Len(d) \in 1..2 /\ \A i \in 1..Len(d) : d[i] = c
  OBVIOUS
<1>2. n \in Nat /\ DOMAIN s = 1..n
  BY LenProperties
<1>3. /\ t \in Seq(S) /\ Len(t) = n + Len(d)
      /\ \A i \in 1..(n + Len(d)) : t[i] = IF i <= n THEN s[i] ELSE d[i - n]
  BY <1>1, ConcatProperties
<1>4. DOMAIN t = 1..(n + Len(d))
  <2>1. DOMAIN t = 1..Len(t)
    <3>. HIDE DEF t
    <3>. QED
      BY <1>3, LenProperties
  <2>. QED
    BY <1>3, <2>1
<1>. HIDE DEF t, n
<1>5. \A i \in DOMAIN t : \/ i \in DOMAIN s /\ t[i] = s[i] /\ t[i] # c
                          \/ i \in {n + 1, n + 2} /\ t[i] = c
  <2>1. SUFFICES ASSUME NEW i \in DOMAIN t
                 PROVE  \/ i \in DOMAIN s /\ t[i] = s[i] /\ t[i] # c
                        \/ i \in {n + 1, n + 2} /\ t[i] = c
    OBVIOUS
  <2>2. CASE i <= n
    <3>1. i \in DOMAIN s /\ t[i] = s[i]
      BY <1>1, <1>2, <1>3, <1>4, <2>2
    <3>. QED
      BY <3>1 DEF Range
  <2>3. CASE ~(i <= n)
    <3>1. i - n \in 1..Len(d) /\ t[i] = d[i - n]
      BY <1>1, <1>2, <1>3, <1>4, <2>3
    <3>2. t[i] = c
      BY <1>1, <3>1
    <3>3. i \in {n + 1, n + 2}
      BY <1>1, <1>2, <1>4, <2>3
    <3>. QED
      BY <3>2, <3>3
  <2>. QED
    BY <2>2, <2>3
<1>6. AtMostTwice(t)
  BY <1>5 DEF AtMostTwice
<1>7. Range(t) \subseteq Range(s) \union {c}
  BY <1>5 DEF Range
<1>. QED
  BY <1>3, <1>6, <1>7 DEF t

LEMMA ChooseAttackerFits ==
  ASSUME InputInv, NEW c \in Mine, NEW dropped \in BOOLEAN,
         combat_ui.mode = "attackers", MayChoose(c)
  PROVE  Selected(ChooseAttacker(c, dropped), asked, Replayed, loaded)
<1>1. /\ Selected(combat_ui, asked, Replayed, loaded)
      /\ combat_ui.chosen \in Seq(Mine) /\ AtMostTwice(combat_ui.chosen)
  BY DEF InputInv, Selected, Selections, AttackersChosen
<1>2. /\ Range(combat_ui.chosen) \subseteq asked[loaded].eligible
      /\ c \in asked[loaded].eligible
  BY DEF InputInv, Selected, AttackersChosen, MayChoose
<1>3. CASE c \in Range(combat_ui.chosen)
  <2>. DEFINE s == Without(combat_ui.chosen, {c})
  <2>1. s \in Seq(Mine) /\ AtMostTwice(s) /\ Range(s) \subseteq asked[loaded].eligible
    BY <1>1, <1>2, TwiceWithout
  <2>2. ChooseAttacker(c, dropped) = [combat_ui EXCEPT !.chosen = s]
    BY <1>3 DEF ChooseAttacker
  <2>. HIDE DEF s
  <2>. QED
    BY <1>1, <2>1, <2>2, ChosenChanged
<1>4. CASE c \notin Range(combat_ui.chosen)
  <2>. DEFINE d == IF dropped THEN <<c, c>> ELSE <<c>>
              s == combat_ui.chosen \o d
  <2>1. d \in {<<c>>, <<c, c>>}
    OBVIOUS
  <2>2. ChooseAttacker(c, dropped) = [combat_ui EXCEPT !.chosen = s]
    BY <1>4 DEF ChooseAttacker
  <2>. HIDE DEF d
  <2>3. s \in Seq(Mine) /\ AtMostTwice(s) /\ Range(s) \subseteq asked[loaded].eligible
    <3>1. /\ s \in Seq(Mine) /\ AtMostTwice(s)
          /\ Range(s) \subseteq Range(combat_ui.chosen) \union {c}
      BY <1>1, <1>4, <2>1, TwiceAdded
    <3>. HIDE DEF s
    <3>. QED
      BY <1>2, <3>1
  <2>. HIDE DEF s
  <2>. QED
    BY <1>1, <2>2, <2>3, ChosenChanged
<1>. QED
  BY <1>3, <1>4

LEMMA ChooseBlockerFits ==
  ASSUME InputInv, NEW c \in Mine, combat_ui.mode = "blockers",
         c \in combat_ui.eligible \/ Blocking(c)
  PROVE  Selected(ChooseBlocker(c), asked, Replayed, loaded)
<1>. DEFINE R == [blocker : Mine, attacker : Theirs]
            old == combat_ui.blocks
<1>1. /\ Selected(combat_ui, asked, Replayed, loaded) /\ combat_ui \in Selections
      /\ old \in Seq(R) /\ combat_ui.blocker \in Mine \union {Nothing}
  BY DEF InputInv, Selected, Selections
<1>2. /\ BlocksFit(asked, Replayed, loaded, old)
      /\ combat_ui.eligible \union {combat_ui.blocker}
           \subseteq asked[loaded].eligible \union {Nothing}
      /\ \A i \in DOMAIN old : old[i].blocker # combat_ui.blocker
  BY DEF InputInv, Selected, BlocksChosen
<1>3. CASE Blocking(c)
  <2>. DEFINE gone == {b \in Range(old) : b.blocker = c}
              bs == Without(old, gone)
  <2>1. ChooseBlocker(c) = [combat_ui EXCEPT !.blocks = bs]
    BY <1>3 DEF ChooseBlocker
  <2>. HIDE DEF gone, R
  <2>2. bs \in Seq(R) /\ \E pos : ComesFrom(pos, bs, old, gone)
    BY <1>1, WithoutFacts
  <2>. PICK pos : ComesFrom(pos, bs, old, gone)
    BY <2>2
  <2>. HIDE DEF bs
  <2>3. /\ \A i \in DOMAIN bs : pos[i] \in DOMAIN old /\ bs[i] = old[pos[i]]
        /\ \A i, j \in DOMAIN bs : pos[i] = pos[j] => i = j
    BY DEF ComesFrom
  <2>4. BlocksFit(asked, Replayed, loaded, bs)
    BY <1>2, <2>3 DEF BlocksFit
  <2>5. \A i \in DOMAIN bs : bs[i].blocker # combat_ui.blocker
    BY <1>2, <2>3
  <2>6. combat_ui.blocker \in asked[loaded].eligible \union {Nothing}
    BY <1>2
  <2>7. Selected([combat_ui EXCEPT !.blocks = bs, !.blocker = combat_ui.blocker],
                 asked, Replayed, loaded)
    BY <1>1, <2>2, <2>4, <2>5, <2>6, BlocksChanged DEF R, bs
  <2>8. [combat_ui EXCEPT !.blocks = bs, !.blocker = combat_ui.blocker]
          = [combat_ui EXCEPT !.blocks = bs]
    BY <1>1 DEF Selections
  <2>. QED
    BY <2>1, <2>7, <2>8
<1>4. CASE ~Blocking(c)
  <2>1. ChooseBlocker(c) = [combat_ui EXCEPT !.blocker = c]
    BY <1>4 DEF ChooseBlocker
  <2>2. \A i \in DOMAIN old : old[i].blocker # c
    BY <1>4 DEF Blocking
  <2>3. c \in asked[loaded].eligible \union {Nothing}
    BY <1>2, <1>4
  <2>4. Selected([combat_ui EXCEPT !.blocks = old, !.blocker = c],
                 asked, Replayed, loaded)
    BY <1>1, <1>2, <2>2, <2>3, BlocksChanged
  <2>5. [combat_ui EXCEPT !.blocks = old, !.blocker = c] = [combat_ui EXCEPT !.blocker = c]
    BY <1>1 DEF Selections
  <2>. QED
    BY <2>1, <2>4, <2>5
<1>. QED
  BY <1>3, <1>4

LEMMA ClickOwnKeeps ==
  ASSUME InputInv, NEW c \in Mine, NEW dropped \in BOOLEAN, ClickOwn(c, dropped)
  PROVE  InputInv'
<1>1. /\ UNCHANGED <<asked, shown, loaded, picks, drag, marks, sent, history>>
      /\ at' = "drag" /\ mouse' = FALSE
  BY DEF ClickOwn, Drawn
<1>2. InputShape' /\ NotWritten
  BY <1>1 DEF InputInv, InputShape, NotWritten
<1>3. Selected(combat_ui', asked, Replayed, loaded)
  <2>1. CASE HandlesCombat(c) /\ combat_ui.mode = "attackers"
    <3>1. combat_ui' = ChooseAttacker(c, dropped) /\ MayChoose(c)
      BY <2>1 DEF ClickOwn, HandlesCombat
    <3>. QED
      BY <2>1, <3>1, ChooseAttackerFits
  <2>2. CASE HandlesCombat(c) /\ combat_ui.mode # "attackers"
    <3>1. /\ combat_ui' = ChooseBlocker(c) /\ combat_ui.mode = "blockers"
          /\ c \in combat_ui.eligible \/ Blocking(c)
      BY <2>2 DEF ClickOwn, HandlesCombat
    <3>. QED
      BY <3>1, ChooseBlockerFits
  <2>3. CASE ~HandlesCombat(c) /\ c \in combat_ui.legal
    <3>1. combat_ui' = [combat_ui EXCEPT !.clicked = c]
      BY <2>3 DEF ClickOwn
    <3>. QED
      BY <2>3, <3>1, Numbers, ClickedChanged DEF InputInv
  <2>4. CASE ~HandlesCombat(c) /\ c \notin combat_ui.legal
    BY <2>4 DEF ClickOwn, InputInv
  <2>. QED
    BY <2>1, <2>2, <2>3, <2>4
<1>. QED
  BY <1>1, <1>2, <1>3, QuietKeeps DEF InputInv

LEMMA ClickTheirsKeeps ==
  ASSUME InputInv, NEW a \in Theirs, ClickTheirs(a)
  PROVE  InputInv'
<1>. DEFINE assigns == /\ combat_ui.mode = "blockers" /\ a \in marks.attacking
                       /\ combat_ui.blocker # Nothing
            R == [blocker : Mine, attacker : Theirs]
            bs == IF assigns
                  THEN Append(combat_ui.blocks, [blocker |-> combat_ui.blocker, attacker |-> a])
                  ELSE combat_ui.blocks
            b == IF assigns THEN Nothing ELSE combat_ui.blocker
            ui == [combat_ui EXCEPT !.blocks = bs, !.blocker = b]
<1>1. /\ UNCHANGED <<asked, shown, loaded, picks, drag, marks, sent, history>>
      /\ at' = "drag" /\ mouse' = FALSE
      /\ combat_ui' = [combat_ui EXCEPT !.blocks = bs, !.blocker = b,
                         !.clicked = IF a \in combat_ui.legal THEN a ELSE @]
  BY DEF ClickTheirs, Drawn
<1>2. InputShape' /\ NotWritten
  BY <1>1 DEF InputInv, InputShape, NotWritten
<1>3. /\ Selected(combat_ui, asked, Replayed, loaded) /\ combat_ui \in Selections
      /\ combat_ui.blocks \in Seq(R) /\ combat_ui.blocker \in Mine \union {Nothing}
  BY DEF InputInv, Selected, Selections
<1>4. Selected(ui, asked, Replayed, loaded)
  <2>1. CASE assigns
    <3>. DEFINE new == [blocker |-> combat_ui.blocker, attacker |-> a]
                n == Len(combat_ui.blocks)
    <3>1. new \in R /\ bs = Append(combat_ui.blocks, new) /\ b = Nothing
      BY <1>3, <2>1
    <3>2. /\ Loaded(asked, loaded, "blockers") /\ BlocksFit(asked, Replayed, loaded, combat_ui.blocks)
          /\ combat_ui.blocker \in asked[loaded].eligible
          /\ \A i \in DOMAIN combat_ui.blocks : combat_ui.blocks[i].blocker # combat_ui.blocker
      BY <1>3, <2>1 DEF Selected, BlocksChosen
    <3>3. AttackerFits(asked, Replayed, loaded, a)
      <4>1. CASE Replayed
        BY <2>1, <4>1 DEF InputInv, Flagged, Named, AttackerFits
      <4>2. CASE ~Replayed
        BY <2>1, <3>2, <4>2 DEF InputInv, Flagged, NamedBy, AttackerFits
      <4>. QED
        BY <4>1, <4>2
    <3>. HIDE DEF R
    <3>4. /\ bs \in Seq(R) /\ n \in Nat /\ DOMAIN combat_ui.blocks = 1..n
          /\ Len(bs) = n + 1 /\ bs[n + 1] = new /\ \A i \in 1..n : bs[i] = combat_ui.blocks[i]
      BY <1>3, <3>1, AppendProperties, LenProperties
    <3>5. DOMAIN bs = 1..(n + 1)
      <4>. HIDE DEF bs
      <4>. QED
        BY <3>4, LenProperties
    <3>6. new.blocker = combat_ui.blocker /\ new.attacker = a
      OBVIOUS
    <3>7. \A i \in DOMAIN bs : \/ i \in DOMAIN combat_ui.blocks /\ bs[i] = combat_ui.blocks[i]
                               \/ i = n + 1 /\ bs[i] = new
      <4>. HIDE DEF bs, n, new
      <4>. QED
        BY <3>4, <3>5
    <3>. HIDE DEF bs, n, new
    <3>8. BlocksFit(asked, Replayed, loaded, bs)
      BY <3>2, <3>3, <3>6, <3>7 DEF BlocksFit
    <3>9. \A i \in DOMAIN bs : bs[i].blocker # Nothing
      <4>1. \A i \in DOMAIN bs : bs[i] \in R
        BY <3>4, ElementOfSeq, LenProperties
      <4>2. \A r \in R : r.blocker # Nothing
        BY NothingIsNoId DEF R
      <4>. QED
        BY <4>1, <4>2
    <3>10. Selected([combat_ui EXCEPT !.blocks = bs, !.blocker = Nothing],
                    asked, Replayed, loaded)
      BY <1>3, <3>4, <3>8, <3>9, BlocksChanged DEF R
    <3>. QED
      BY <3>1, <3>10
  <2>2. CASE ~assigns
    <3>1. bs = combat_ui.blocks /\ b = combat_ui.blocker
      BY <2>2
    <3>2. ui = combat_ui
      BY <1>3, <3>1 DEF Selections
    <3>. QED
      BY <1>3, <3>2
  <2>. QED
    BY <2>1, <2>2
<1>5. ui \in Selections /\ ui.legal = combat_ui.legal /\ ui.clicked = combat_ui.clicked
  <2>1. ui \in Selections
    BY <1>4 DEF Selected
  <2>. QED
    BY <1>3, <2>1 DEF Selections
<1>6. combat_ui' = [ui EXCEPT !.clicked = IF a \in combat_ui.legal THEN a ELSE @]
  <2>. HIDE DEF bs, b
  <2>. QED
    BY <1>1, <1>3 DEF Selections
<1>. HIDE DEF ui
<1>7. Selected(combat_ui', asked, Replayed, loaded)
  <2>1. CASE a \in combat_ui.legal
    <3>1. combat_ui' = [ui EXCEPT !.clicked = a] /\ a \in ui.legal \union {Nothing}
      BY <1>5, <1>6, <2>1
    <3>. QED
      BY <1>4, <3>1, Numbers, ClickedChanged
  <2>2. CASE a \notin combat_ui.legal
    <3>1. combat_ui' = ui
      BY <1>5, <1>6, <2>2 DEF Selections
    <3>. QED
      BY <1>4, <3>1
  <2>. QED
    BY <2>1, <2>2
<1>. QED
  BY <1>1, <1>2, <1>7, QuietKeeps DEF InputInv

LEMMA BoardKeeps ==
  ASSUME InputInv, Board
  PROVE  InputInv'
<1>1. ASSUME NEW c \in Mine, RightClickOwn(c)
      PROVE  InputInv'
  <2>1. /\ NotWritten /\ UNCHANGED <<asked, loaded, combat_ui, picks>>
        /\ InputShape' /\ at' # "button" /\ marks' = marks
    BY <1>1 DEF RightClickOwn, Drawn, NotWritten, InputInv, InputShape
  <2>. QED
    BY <2>1, UnchangedKeeps
<1>2. ASSUME NEW c \in Hand, DropCard(c)
      PROVE  InputInv'
  <2>1. /\ NotWritten /\ UNCHANGED <<asked, loaded, combat_ui, picks>>
        /\ InputShape' /\ at' # "button" /\ marks' = marks
    BY <1>2 DEF DropCard, Drawn, NotWritten, InputInv, InputShape
  <2>. QED
    BY <2>1, UnchangedKeeps
<1>3. CASE LeaveBoard
  <2>1. /\ NotWritten /\ UNCHANGED <<asked, loaded, combat_ui, picks>>
        /\ InputShape' /\ at' # "button" /\ marks' = marks
    BY <1>3 DEF LeaveBoard, Drawn, NotWritten, InputInv, InputShape
  <2>. QED
    BY <2>1, UnchangedKeeps
<1>. QED
  BY <1>1, <1>2, <1>3, ClickOwnKeeps, ClickTheirsKeeps DEF Board

-----------------------------------------------------------------------------
(* Drags and clicked targets *)

LEMMA TargetPicked ==
  ASSUME NEW p, NEW qs, NEW id, Picked(p, qs, id),
         NEW t \in Mine \union Theirs \union {Nothing},
         Loaded(qs, id, "target") => t \in qs[id].legal \union {Nothing}
  PROVE  Picked([p EXCEPT !.target = t], qs, id)
<1>. DEFINE new == [p EXCEPT !.target = t]
<1>1. /\ new \in PanelPicks /\ new.target = t /\ new.split = p.split
      /\ new.discards = p.discards /\ new.modes = p.modes
  BY DEF Picked, PanelPicks
<1>. HIDE DEF new
<1>2. Picked(new, qs, id)
  BY <1>1 DEF Picked
<1>. QED
  BY <1>2 DEF new

LEMMA SplitPicked ==
  ASSUME NEW p, NEW qs, NEW id, Picked(p, qs, id), NEW s \in Seq(Nat),
         Loaded(qs, id, "damage") => Sum(s) <= qs[id].total
  PROVE  Picked([p EXCEPT !.split = s], qs, id)
<1>. DEFINE new == [p EXCEPT !.split = s]
<1>1. /\ new \in PanelPicks /\ new.target = p.target /\ new.split = s
      /\ new.discards = p.discards /\ new.modes = p.modes
  BY DEF Picked, PanelPicks
<1>. HIDE DEF new
<1>2. Picked(new, qs, id)
  BY <1>1 DEF Picked
<1>. QED
  BY <1>2 DEF new

LEMMA DiscardsPicked ==
  ASSUME NEW p, NEW qs, NEW id, Picked(p, qs, id), NEW s \in Seq(Hand),
         Loaded(qs, id, "discard") => PicksFit(s, qs[id].hand, qs[id].count)
  PROVE  Picked([p EXCEPT !.discards = s], qs, id)
<1>. DEFINE new == [p EXCEPT !.discards = s]
<1>1. /\ new \in PanelPicks /\ new.target = p.target /\ new.split = p.split
      /\ new.discards = s /\ new.modes = p.modes
  BY DEF Picked, PanelPicks
<1>. HIDE DEF new
<1>2. Picked(new, qs, id)
  BY <1>1 DEF Picked
<1>. QED
  BY <1>2 DEF new

LEMMA ModesPicked ==
  ASSUME NEW p, NEW qs, NEW id, Picked(p, qs, id), NEW s \in Seq(Nat),
         Loaded(qs, id, "modes") => PicksFit(s, 1..qs[id].modes, qs[id].most)
  PROVE  Picked([p EXCEPT !.modes = s], qs, id)
<1>. DEFINE new == [p EXCEPT !.modes = s]
<1>1. /\ new \in PanelPicks /\ new.target = p.target /\ new.split = p.split
      /\ new.discards = p.discards /\ new.modes = s
  BY DEF Picked, PanelPicks
<1>. HIDE DEF new
<1>2. Picked(new, qs, id)
  BY <1>1 DEF Picked
<1>. QED
  BY <1>2 DEF new

LEMMA PlayDraggedKeeps ==
  ASSUME InputInv, PlayDragged
  PROVE  InputInv'
<1>. DEFINE c == drag.play
            act == IF Castable(c) THEN [kind |-> "cast", card |-> c]
                   ELSE [kind |-> "land", card |-> c]
<1>1. /\ UNCHANGED <<asked, loaded>> /\ InputShape' /\ at' # "button" /\ marks' = marks
  BY DEF PlayDragged, InputInv, InputShape
<1>2. CASE c # Nothing /\ (Castable(c) \/ Playable(c))
  <2>1. Sends(act, combat_ui, picks)
    BY <1>2 DEF PlayDragged
  <2>2. shown # 0 /\ Fits(asked, Replayed, shown, act)
    BY <1>2 DEF Castable, Playable, Showing, prompt, Fits, PriorityAnswer
  <2>. HIDE DEF act
  <2>. QED
    BY <1>1, <2>1, <2>2, SendKeeps DEF InputInv
<1>3. CASE ~(c # Nothing /\ (Castable(c) \/ Playable(c)))
  <2>1. NotWritten /\ UNCHANGED <<combat_ui, picks>>
    BY <1>3 DEF PlayDragged
  <2>. QED
    BY <1>1, <2>1, UnchangedKeeps
<1>. QED
  BY <1>2, <1>3

LEMMA ActivateDraggedKeeps ==
  ASSUME InputInv, ActivateDragged
  PROVE  InputInv'
<1>. DEFINE c == drag.activate
            act == [kind |-> "activate", permanent |-> c]
<1>1. /\ UNCHANGED <<asked, loaded, mouse>> /\ at' = "click"
      /\ drag' = [drag EXCEPT !.activate = Nothing]
  BY DEF ActivateDragged
<1>2. c \in Mine \union {Nothing}
  BY DEF InputInv, InputShape
<1>3. CASE c # Nothing /\ Activatable(c)
  <2>1. /\ Sends(act, combat_ui, picks)
        /\ marks' = [marks EXCEPT !.activated = @ \union {c}]
    BY <1>3 DEF ActivateDragged
  <2>2. InputShape' /\ marks'.attacking = marks.attacking
    <3>1. c \in Mine
      BY <1>2, <1>3
    <3>. QED
      BY <1>1, <2>1, <3>1 DEF InputInv, InputShape
  <2>3. shown # 0 /\ Fits(asked, Replayed, shown, act)
    BY <1>3 DEF Activatable, Showing, prompt, Fits, PriorityAnswer
  <2>. HIDE DEF act
  <2>. QED
    BY <1>1, <2>1, <2>2, <2>3, SendKeeps DEF InputInv
<1>4. CASE ~(c # Nothing /\ Activatable(c))
  <2>1. NotWritten /\ UNCHANGED <<combat_ui, picks, marks>>
    BY <1>4 DEF ActivateDragged
  <2>2. InputShape'
    BY <1>1, <2>1 DEF InputInv, InputShape
  <2>. QED
    BY <1>1, <2>1, <2>2, UnchangedKeeps
<1>. QED
  BY <1>3, <1>4

LEMMA SendClickedKeeps ==
  ASSUME InputInv, SendClicked
  PROVE  InputInv'
<1>. DEFINE used == [combat_ui EXCEPT !.clicked = Nothing]
            act == [kind |-> "target", target |-> combat_ui.clicked]
<1>1. /\ UNCHANGED <<asked, loaded>> /\ InputShape' /\ at' # "button" /\ marks' = marks
  BY DEF SendClicked, InputInv, InputShape
<1>2. Selected(used, asked, Replayed, loaded)
  BY Numbers, ClickedChanged DEF InputInv
<1>3. CASE NotWritten /\ combat_ui' \in {combat_ui, used} /\ picks' = picks
  <2>1. Selected(combat_ui', asked, Replayed, loaded) /\ Picked(picks', asked, loaded)
    BY <1>2, <1>3 DEF InputInv
  <2>. QED
    BY <1>1, <1>3, <2>1, QuietKeeps
<1>4. CASE /\ combat_ui.clicked # Nothing /\ Showing("target")
           /\ Written(act) /\ combat_ui' = used /\ picks' = [picks EXCEPT !.target = Nothing]
  <2>1. shown # 0 /\ asked[shown].kind = "target"
    BY <1>4 DEF Showing, prompt
  <2>2. TargetFits(asked, shown, combat_ui.clicked)
    BY <1>4 DEF InputInv, Selected, TargetChosen, TargetFits
  <2>3. Fits(asked, Replayed, shown, act)
    BY <2>1, <2>2 DEF Fits
  <2>4. Picked([picks EXCEPT !.target = Nothing], asked, loaded)
    BY TargetPicked DEF InputInv
  <2>5. Sends(act, used, [picks EXCEPT !.target = Nothing])
    BY <1>4 DEF Sends
  <2>. HIDE DEF act, used
  <2>. QED
    BY <1>1, <1>2, <2>1, <2>3, <2>4, <2>5, SendKeeps
<1>. QED
  BY <1>3, <1>4 DEF SendClicked

-----------------------------------------------------------------------------
(* The panel *)

(* A damage prompt starts with nothing dealt out. *)
LEMMA SplitsFit ==
  ASSUME NEW qs \in Seq(Offers), NEW id \in DOMAIN qs, id # 0, NEW p, Picked(p, qs, id)
  PROVE  /\ Picked([p EXCEPT !.split = Splits(qs[id], @)], qs, id)
         /\ qs[id].kind = "damage" => Len(Splits(qs[id], p.split)) = qs[id].blockers
<1>. DEFINE q == qs[id]
<1>1. q \in Offers /\ (q.kind = "damage" => q.blockers \in Nat /\ q.total \in Nat)
  BY LenProperties, ElementOfSeq, OfferIs
<1>2. /\ p.split \in Seq(Nat)
      /\ q.kind = "damage" => Sum(p.split) <= q.total
  BY DEF Picked, PanelPicks, Loaded
<1>3. CASE q.kind = "damage" /\ Len(p.split) # q.blockers
  <2>. DEFINE s == [i \in 1..q.blockers |-> 0]
  <2>1. Splits(q, p.split) = s
    BY <1>3 DEF Splits
  <2>2. s \in Seq(Nat) /\ Len(s) = q.blockers /\ Sum(s) = 0 /\ 0 <= q.total
    BY <1>1, <1>3, NothingSplit
  <2>. HIDE DEF s
  <2>3. Picked([p EXCEPT !.split = s], qs, id)
    BY <2>2, SplitPicked
  <2>. QED
    BY <2>1, <2>2, <2>3
<1>4. CASE ~(q.kind = "damage" /\ Len(p.split) # q.blockers)
  <2>1. Splits(q, p.split) = p.split
    BY <1>4 DEF Splits
  <2>2. Picked([p EXCEPT !.split = p.split], qs, id)
    BY <1>2, SplitPicked DEF Loaded
  <2>. QED
    BY <1>4, <2>1, <2>2
<1>. QED
  BY <1>3, <1>4

LEMMA NothingPicked ==
  ASSUME NEW qs \in Seq(Offers), NEW id \in DOMAIN qs
  PROVE  Picked(NoPicks, qs, id)
<1>1. /\ NoPicks \in PanelPicks /\ NoPicks.split = <<>> /\ NoPicks.target = Nothing
      /\ NoPicks.discards = <<>> /\ NoPicks.modes = <<>>
  BY EmptySeq DEF NoPicks, PanelPicks
<1>2. /\ qs[id] \in Offers
      /\ qs[id].kind = "damage" => qs[id].total \in Nat
      /\ qs[id].kind = "discard" => qs[id].count \in Nat
      /\ qs[id].kind = "modes" => qs[id].most \in Nat
  BY LenProperties, ElementOfSeq, OfferIs
<1>3. Sum(<<>>) = 0
  BY SumEmpty DEF Sum, SumFunction
<1>4. \A from, most : most \in Nat => PicksFit(<<>>, from, most)
  BY DEF PicksFit, Range, IsInjective
<1>. QED
  BY <1>1, <1>2, <1>3, <1>4 DEF Picked, Loaded

LEMMA LoadPromptKeeps ==
  ASSUME InputInv, LoadPrompt
  PROVE  InputInv'
<1>1. /\ UNCHANGED <<mouse, asked, shown, drag, sent, history>> /\ at' = "button"
  BY DEF LoadPrompt
<1>2. AnswersInv' /\ Replayed' = Replayed
  BY <1>1, AnswersKept DEF InputInv, Replayed
<1>3. SentFits'
  BY <1>1, <1>2 DEF InputInv, SentFits
<1>4. CASE shown # 0 /\ shown # loaded
  <2>. DEFINE p == asked[shown]
  <2>1. /\ loaded' = shown /\ combat_ui' = Selection(p)
        /\ picks' = [NoPicks EXCEPT !.split = Splits(p, @)]
        /\ marks' = IF p.kind = "blockers"
                    THEN [marks EXCEPT !.attacking = @ \union p.attackers] ELSE marks
    BY <1>4 DEF LoadPrompt, FreshPicks, prompt
  <2>2. shown \in DOMAIN asked /\ asked \in Seq(Offers) /\ p \in Offers
    BY <1>4, Numbers
  <2>3. p.kind = "blockers" => p.attackers \in SUBSET Theirs
    BY <2>2, OfferIs
  <2>4. InputShape'
    <3>1. loaded' \in 0..Len(asked)
      BY <2>1, Numbers
    <3>2. marks' \in [attacking : SUBSET Theirs, activated : SUBSET Mine]
      <4>. HIDE DEF p
      <4>. QED
        BY <2>1, <2>3 DEF InputInv, InputShape
    <3>. QED
      BY <1>1, <3>1, <3>2 DEF InputInv, InputShape
  <2>5. Selected(combat_ui', asked, Replayed, shown)
    BY <1>4, <2>1, <2>2, SelectionFits
  <2>6. /\ Picked([NoPicks EXCEPT !.split = Splits(p, @)], asked, shown)
        /\ p.kind = "damage" => Len(Splits(p, NoPicks.split)) = p.blockers
    BY <1>4, <2>2, NothingPicked, SplitsFit
  <2>7. picks'.split = Splits(p, NoPicks.split)
    <3>. HIDE DEF p
    <3>. QED
      BY <2>1 DEF NoPicks
  <2>8. PanelLoaded'
    BY <1>1, <2>1, <2>6, <2>7 DEF PanelLoaded
  <2>9. marks'.attacking = IF p.kind = "blockers" THEN marks.attacking \union p.attackers
                           ELSE marks.attacking
    <3>. HIDE DEF p
    <3>. QED
      BY <2>1 DEF InputInv, InputShape
  <2>10. Named(marks'.attacking, asked)
    BY <2>2, <2>9 DEF InputInv, Flagged, Named
  <2>11. NamedBy(marks'.attacking, asked, Replayed, shown)
    BY <2>9 DEF InputInv, Flagged, NamedBy, Loaded
  <2>12. Flagged'
    BY <1>1, <1>2, <2>1, <2>10, <2>11 DEF Flagged
  <2>. QED
    BY <1>1, <1>2, <1>3, <2>1, <2>4, <2>5, <2>6, <2>8, <2>12 DEF InputInv
<1>5. CASE shown = 0 \/ shown = loaded
  <2>1. /\ picks' = IF shown = 0 THEN picks
                    ELSE [picks EXCEPT !.split = Splits(asked[shown], @)]
        /\ UNCHANGED <<loaded, combat_ui, marks>>
    BY <1>5 DEF LoadPrompt, prompt
  <2>2. InputShape'
    BY <1>1, <2>1 DEF InputInv, InputShape
  <2>3. CASE shown = 0
    <3>1. PanelLoaded' /\ Flagged' /\ picks' = picks
      BY <1>1, <1>2, <2>1, <2>3 DEF PanelLoaded, Flagged, InputInv
    <3>. QED
      BY <1>1, <1>2, <1>3, <2>1, <2>2, <3>1 DEF InputInv
  <2>4. CASE shown # 0 /\ shown = loaded
    <3>. DEFINE new == Splits(asked[shown], picks.split)
    <3>1. /\ Picked([picks EXCEPT !.split = new], asked, shown)
          /\ asked[shown].kind = "damage" => Len(new) = asked[shown].blockers
      BY <2>4, Numbers, SplitsFit DEF InputInv
    <3>2. picks' = [picks EXCEPT !.split = new]
      BY <2>1, <2>4
    <3>3. picks'.split = new
      <4>. HIDE DEF new
      <4>. QED
        BY <3>2, Numbers DEF PanelPicks
    <3>. HIDE DEF new
    <3>4. PanelLoaded'
      BY <1>1, <2>1, <2>4, <3>1, <3>3 DEF PanelLoaded
    <3>5. Flagged' /\ Picked(picks', asked, loaded)
      BY <1>1, <1>2, <2>1, <2>4, <3>1, <3>2 DEF Flagged, InputInv
    <3>. QED
      BY <1>1, <1>2, <1>3, <2>1, <2>2, <3>4, <3>5 DEF InputInv
  <2>. QED
    BY <1>5, <2>3, <2>4
<1>. QED
  BY <1>4, <1>5

-----------------------------------------------------------------------------
(* The buttons *)

(* A button is pressed under the prompt that was loaded. *)
LEMMA ButtonIs ==
  ASSUME InputInv, NEW kind, Button(kind)
  PROVE  /\ shown # 0 /\ loaded = shown /\ shown \in DOMAIN asked
         /\ prompt = asked[shown] /\ asked[shown] \in Offers /\ asked[shown].kind = kind
         /\ Loaded(asked, loaded, kind)
         /\ at' # "button" /\ UNCHANGED <<asked, loaded>>
         /\ kind = "damage" => Len(picks.split) = asked[shown].blockers
         /\ marks' = marks => InputShape'
<1>1. /\ shown # 0 /\ asked[shown].kind = kind /\ at = "button" /\ prompt = asked[shown]
      /\ at' = "keys" /\ UNCHANGED <<mouse, asked, loaded, drag>>
  BY DEF Button, Showing, prompt
<1>2. loaded = shown /\ (kind = "damage" => Len(picks.split) = asked[shown].blockers)
  BY <1>1 DEF InputInv, PanelLoaded
<1>3. shown \in DOMAIN asked /\ asked[shown] \in Offers
  BY <1>1, Numbers
<1>4. marks' = marks => InputShape'
  BY <1>1 DEF InputInv, InputShape
<1>. QED
  BY <1>1, <1>2, <1>3, <1>4 DEF Loaded

(* A button that answers, *)
LEMMA AnswerKeeps ==
  ASSUME InputInv, NEW kind, Button(kind), NEW act, NEW c, NEW p, Answers(act, c, p),
         Fits(asked, Replayed, shown, act),
         Selected(c, asked, Replayed, loaded), Picked(p, asked, loaded)
  PROVE  InputInv'
<1>1. Sends(act, c, p) /\ marks' = marks
  BY DEF Answers
<1>2. /\ shown # 0 /\ at' # "button" /\ UNCHANGED <<asked, loaded>> /\ InputShape'
      /\ marks'.attacking \subseteq marks.attacking
  BY <1>1, ButtonIs
<1>. QED
  BY <1>1, <1>2, SendKeeps

(* and one that picks something. *)
LEMMA PickKeeps ==
  ASSUME InputInv, NEW kind, Button(kind), NotWritten, UNCHANGED marks,
         Selected(combat_ui', asked, Replayed, loaded), Picked(picks', asked, loaded)
  PROVE  InputInv'
<1>1. /\ at' # "button" /\ UNCHANGED <<asked, loaded>> /\ InputShape'
      /\ marks'.attacking \subseteq marks.attacking
  BY ButtonIs
<1>. QED
  BY <1>1, QuietKeeps

LEMMA EndFrameKeeps ==
  ASSUME InputInv, EndFrame
  PROVE  InputInv'
<1>1. /\ NotWritten /\ UNCHANGED <<asked, loaded, combat_ui, picks>>
      /\ InputShape' /\ at' # "button" /\ marks' = marks
  BY DEF EndFrame, NotWritten, InputInv, InputShape
<1>. QED
  BY <1>1, UnchangedKeeps

LEMMA PriorityKeeps ==
  ASSUME InputInv, PriorityButtons
  PROVE  InputInv'
<1>1. Button("priority")
  BY DEF PriorityButtons
<1>2. asked[shown].kind = "priority" /\ prompt = asked[shown]
  BY <1>1, ButtonIs
<1>3. ASSUME NEW act, PriorityAnswer(asked[shown], act), Answers(act, combat_ui, picks)
      PROVE  InputInv'
  <2>1. Fits(asked, Replayed, shown, act)
    BY <1>2, <1>3 DEF Fits
  <2>. QED
    BY <1>1, <1>3, <2>1, AnswerKeeps DEF InputInv
<1>4. ASSUME NEW c \in Hand, Playable(c),
             Answers([kind |-> "land", card |-> c], combat_ui, picks)
      PROVE  InputInv'
  <2>1. PriorityAnswer(asked[shown], [kind |-> "land", card |-> c])
    BY <1>2, <1>4 DEF Playable, PriorityAnswer
  <2>. QED
    BY <1>3, <1>4, <2>1
<1>5. ASSUME NEW c \in prompt.castable,
             Answers([kind |-> "cast", card |-> c], combat_ui, picks)
      PROVE  InputInv'
  <2>1. PriorityAnswer(asked[shown], [kind |-> "cast", card |-> c])
    BY <1>2, <1>5 DEF PriorityAnswer
  <2>. QED
    BY <1>3, <1>5, <2>1
<1>6. ASSUME Answers([kind |-> "pass"], combat_ui, picks)
      PROVE  InputInv'
  <2>1. PriorityAnswer(asked[shown], [kind |-> "pass"])
    BY DEF PriorityAnswer
  <2>. QED
    BY <1>3, <1>6, <2>1
<1>7. ASSUME NEW c \in Mine, Activatable(c),
             marks' = [marks EXCEPT !.activated = @ \union {c}],
             Sends([kind |-> "activate", permanent |-> c], combat_ui, picks)
      PROVE  InputInv'
  <2>. DEFINE act == [kind |-> "activate", permanent |-> c]
  <2>1. Fits(asked, Replayed, shown, act)
    BY <1>2, <1>7 DEF Activatable, Fits, PriorityAnswer
  <2>2. shown # 0 /\ at' # "button" /\ UNCHANGED <<asked, loaded>>
    BY <1>1, ButtonIs
  <2>3. InputShape' /\ marks'.attacking = marks.attacking
    BY <1>1, <1>7 DEF Button, InputInv, InputShape
  <2>. HIDE DEF act
  <2>. QED
    BY <1>7, <2>1, <2>2, <2>3, SendKeeps DEF InputInv, act
<1>. QED
  BY <1>4, <1>5, <1>6, <1>7 DEF PriorityButtons

(* Prompts whose answer depends on nothing that was picked. *)
LEMMA PlainKeeps ==
  ASSUME InputInv, YesNoButtons \/ OrderButton \/ PayButton \/ ChoiceButtons
  PROVE  InputInv'
<1>1. ASSUME NEW kind, Button(kind), NEW act, Fits(asked, Replayed, shown, act),
             Answers(act, combat_ui, picks)
      PROVE  InputInv'
  BY <1>1, AnswerKeeps DEF InputInv
<1>2. CASE YesNoButtons
  <2>1. Button("yes_no") /\ asked[shown].kind = "yes_no"
    BY <1>2, ButtonIs DEF YesNoButtons
  <2>. PICK yes \in BOOLEAN : Answers([kind |-> "yes_no", yes |-> yes], combat_ui, picks)
    BY <1>2 DEF YesNoButtons
  <2>2. Fits(asked, Replayed, shown, [kind |-> "yes_no", yes |-> yes])
    BY <2>1 DEF Fits
  <2>. QED
    BY <1>1, <2>1, <2>2
<1>3. CASE OrderButton
  <2>. DEFINE act == [kind |-> "order", blockers |-> asked[shown].blockers]
  <2>1. Button("order") /\ asked[shown].kind = "order" /\ prompt = asked[shown]
    BY <1>3, ButtonIs DEF OrderButton
  <2>2. Answers(act, combat_ui, picks)
    BY <1>3, <2>1 DEF OrderButton
  <2>3. Fits(asked, Replayed, shown, act)
    BY <2>1 DEF Fits
  <2>. QED
    BY <1>1, <2>1, <2>2, <2>3
<1>4. CASE PayButton
  <2>1. Button("pay") /\ asked[shown].kind = "pay"
    BY <1>4, ButtonIs DEF PayButton
  <2>2. Answers([kind |-> "pay"], combat_ui, picks)
    BY <1>4 DEF PayButton
  <2>3. Fits(asked, Replayed, shown, [kind |-> "pay"])
    BY <2>1 DEF Fits
  <2>. QED
    BY <1>1, <2>1, <2>2, <2>3
<1>5. CASE ChoiceButtons
  <2>1. Button("choice") /\ asked[shown].kind = "choice"
    BY <1>5, ButtonIs DEF ChoiceButtons
  <2>. PICK o \in 1..prompt.options :
         Answers([kind |-> "choice", option |-> o], combat_ui, picks)
    BY <1>5 DEF ChoiceButtons
  <2>2. Fits(asked, Replayed, shown, [kind |-> "choice", option |-> o])
    BY <2>1 DEF Fits
  <2>. QED
    BY <1>1, <2>1, <2>2
<1>. QED
  BY <1>2, <1>3, <1>4, <1>5

LEMMA AttackersKeep ==
  ASSUME InputInv, AttackerButtons
  PROVE  InputInv'
<1>1. Button("attackers")
  BY DEF AttackerButtons
<1>2. /\ asked[shown].kind = "attackers" /\ prompt = asked[shown] /\ loaded = shown
      /\ Loaded(asked, loaded, "attackers") /\ asked[shown] \in Offers
  BY <1>1, ButtonIs
<1>3. asked[shown].eligible \in SUBSET Mine
  BY <1>2, OfferIs
<1>4. ASSUME combat_ui' = [combat_ui EXCEPT !.chosen = SetToSeq(prompt.eligible)],
             NotWritten, UNCHANGED <<picks, marks>>
      PROVE  InputInv'
  <2>. DEFINE S == asked[shown].eligible
              s == SetToSeq(S)
  <2>1. s \in Seq(S) /\ IsInjective(s)
    <3>1. IsFiniteSet(S)
      BY <1>3, MineAreFinite, FS_Subset
    <3>. HIDE DEF S
    <3>. QED
      BY <3>1, Listed
  <2>2. combat_ui' = [combat_ui EXCEPT !.chosen = s]
    BY <1>2, <1>4
  <2>. HIDE DEF s
  <2>3. \A i \in DOMAIN s : s[i] \in S
    <3>. HIDE DEF S
    <3>. QED
      BY <2>1, LenProperties, ElementOfSeq
  <2>4. Range(s) \subseteq S
    <3>. HIDE DEF S
    <3>. QED
      BY <2>3 DEF Range
  <2>5. AtMostTwice(s)
    BY <2>1 DEF AtMostTwice, IsInjective
  <2>6. s \in Seq(Mine)
    <3>1. S \subseteq Mine
      BY <1>3
    <3>. HIDE DEF S
    <3>. QED
      BY <2>1, <3>1, WiderSeq
  <2>7. Selected(combat_ui', asked, Replayed, loaded)
    BY <1>2, <2>2, <2>4, <2>5, <2>6, ChosenChanged DEF InputInv
  <2>. QED
    BY <1>1, <1>4, <2>7, PickKeeps DEF InputInv
<1>5. ASSUME NEW chosen \in {combat_ui.chosen, <<>>},
             Answers([kind |-> "attackers", attackers |-> chosen], NoCombat, picks)
      PROVE  InputInv'
  <2>1. Range(chosen) \subseteq asked[shown].eligible
    <3>1. Range(combat_ui.chosen) \subseteq asked[shown].eligible
      BY <1>2 DEF InputInv, Selected, AttackersChosen
    <3>2. Range(<<>>) = {}
      BY DEF Range
    <3>. QED
      BY <3>1, <3>2
  <2>2. Fits(asked, Replayed, shown, [kind |-> "attackers", attackers |-> chosen])
    BY <1>2, <2>1 DEF Fits
  <2>. QED
    BY <1>1, <1>5, <2>2, NoneSelected, AnswerKeeps DEF InputInv
<1>. QED
  BY <1>4, <1>5 DEF AttackerButtons

LEMMA BlockersKeep ==
  ASSUME InputInv, BlockerButtons
  PROVE  InputInv'
<1>1. Button("blockers")
  BY DEF BlockerButtons
<1>2. /\ asked[shown].kind = "blockers" /\ loaded = shown
      /\ Loaded(asked, loaded, "blockers")
  BY <1>1, ButtonIs
<1>. PICK blocks \in {combat_ui.blocks, <<>>} :
       Answers([kind |-> "blockers", blocks |-> blocks], NoCombat, picks)
  BY DEF BlockerButtons
<1>3. BlocksFit(asked, Replayed, shown, blocks)
  <2>1. BlocksFit(asked, Replayed, shown, combat_ui.blocks)
    BY <1>2 DEF InputInv, Selected, BlocksChosen
  <2>2. BlocksFit(asked, Replayed, shown, <<>>)
    BY DEF BlocksFit
  <2>. QED
    BY <2>1, <2>2
<1>4. Fits(asked, Replayed, shown, [kind |-> "blockers", blocks |-> blocks])
  BY <1>2, <1>3 DEF Fits
<1>. QED
  BY <1>1, <1>4, NoneSelected, AnswerKeeps DEF InputInv

LEMMA DamageKeeps ==
  ASSUME InputInv, DamageButtons
  PROVE  InputInv'
<1>. DEFINE s == picks.split
            q == asked[shown]
<1>1. Button("damage")
  BY DEF DamageButtons
<1>2. /\ q.kind = "damage" /\ prompt = q /\ loaded = shown
      /\ Loaded(asked, loaded, "damage") /\ q \in Offers /\ Len(s) = q.blockers
  BY <1>1, ButtonIs
<1>3. /\ q.total \in Nat /\ s \in Seq(Nat) /\ Sum(s) <= q.total /\ Sum(s) \in Nat
      /\ Picked(picks, asked, loaded)
  <2>1. q.total \in Nat
    BY <1>2, OfferIs
  <2>2. s \in Seq(Nat) /\ Sum(s) <= q.total /\ Picked(picks, asked, loaded)
    BY <1>2 DEF InputInv, Picked, PanelPicks
  <2>. QED
    BY <2>1, <2>2, SplitSum
<1>4. ASSUME NEW i \in DOMAIN s, NEW x \in Nat, Sum(s) - s[i] + x <= q.total,
             Picks("split", [s EXCEPT ![i] = x])
      PROVE  InputInv'
  <2>. DEFINE new == [s EXCEPT ![i] = x]
  <2>1. new \in Seq(Nat) /\ Sum(new) <= q.total
    <3>. HIDE DEF s
    <3>. QED
      BY <1>3, <1>4, SplitChanged
  <2>2. /\ picks' = [picks EXCEPT !.split = new] /\ NotWritten
        /\ UNCHANGED <<combat_ui, marks>>
    BY <1>4 DEF Picks
  <2>. HIDE DEF new
  <2>3. Picked(picks', asked, loaded)
    BY <1>2, <1>3, <2>1, <2>2, SplitPicked
  <2>. QED
    BY <1>1, <2>2, <2>3, PickKeeps DEF InputInv
<1>5. ASSUME NEW i \in DOMAIN s, MoreDamage, Picks("split", [s EXCEPT ![i] = @ + 1])
      PROVE  InputInv'
  <2>1. s[i] \in Nat
    BY <1>3, LenProperties
  <2>2. Sum(s) < q.total
    BY <1>2, <1>5 DEF MoreDamage
  <2>3. Sum(s) - s[i] + (s[i] + 1) <= q.total /\ s[i] + 1 \in Nat
    <3>. DEFINE sum == Sum(s)
                total == q.total
    <3>1. sum \in Nat /\ total \in Nat /\ sum < total
      BY <1>3, <2>2
    <3>. HIDE DEF sum, total
    <3>2. sum - s[i] + (s[i] + 1) <= total /\ s[i] + 1 \in Nat
      BY <2>1, <3>1
    <3>. QED
      BY <3>2 DEF sum, total
  <2>4. Picks("split", [s EXCEPT ![i] = s[i] + 1])
    BY <1>5
  <2>. QED
    BY <1>4, <2>3, <2>4
<1>6. ASSUME NEW i \in DOMAIN s, s[i] > 0, Picks("split", [s EXCEPT ![i] = @ - 1])
      PROVE  InputInv'
  <2>1. s[i] \in Nat
    BY <1>3, LenProperties
  <2>2. Sum(s) - s[i] + (s[i] - 1) <= q.total /\ s[i] - 1 \in Nat
    <3>. DEFINE sum == Sum(s)
                total == q.total
    <3>1. sum \in Nat /\ total \in Nat /\ sum <= total
      BY <1>3
    <3>. HIDE DEF sum, total
    <3>2. sum - s[i] + (s[i] - 1) <= total /\ s[i] - 1 \in Nat
      BY <1>6, <2>1, <3>1
    <3>. QED
      BY <3>2 DEF sum, total
  <2>3. Picks("split", [s EXCEPT ![i] = s[i] - 1])
    BY <1>6
  <2>. QED
    BY <1>4, <2>2, <2>3
<1>7. ASSUME Answers([kind |-> "damage", split |-> s, player |-> prompt.total - Sum(s)],
                     combat_ui, [picks EXCEPT !.split = <<>>])
      PROVE  InputInv'
  <2>. DEFINE act == [kind |-> "damage", split |-> s, player |-> q.total - Sum(s)]
  <2>1. q.total - Sum(s) >= 0 /\ Sum(s) + (q.total - Sum(s)) = q.total
    BY <1>3
  <2>2. Fits(asked, Replayed, shown, act)
    BY <1>2, <2>1 DEF Fits
  <2>3. <<>> \in Seq(Nat) /\ Sum(<<>>) = 0
    BY EmptySeq, SumEmpty DEF Sum, SumFunction
  <2>4. Picked([picks EXCEPT !.split = <<>>], asked, loaded)
    <3>1. Sum(<<>>) <= q.total
      BY <1>3, <2>3
    <3>. QED
      BY <1>2, <1>3, <2>3, <3>1, SplitPicked
  <2>5. Answers(act, combat_ui, [picks EXCEPT !.split = <<>>])
    BY <1>2, <1>7
  <2>. HIDE DEF act
  <2>. QED
    BY <1>1, <2>2, <2>4, <2>5, AnswerKeeps DEF InputInv
<1>. QED
  BY <1>5, <1>6, <1>7 DEF DamageButtons

LEMMA TargetKeeps ==
  ASSUME InputInv, TargetButtons
  PROVE  InputInv'
<1>1. Button("target")
  BY DEF TargetButtons
<1>2. /\ asked[shown].kind = "target" /\ prompt = asked[shown] /\ loaded = shown
      /\ Loaded(asked, loaded, "target") /\ asked[shown] \in Offers
  BY <1>1, ButtonIs
<1>3. /\ asked[shown].legal \in SUBSET (Mine \union Theirs)
      /\ Picked(picks, asked, loaded)
      /\ picks.target \in asked[shown].legal \union {Nothing}
  BY <1>2, OfferIs DEF InputInv, Picked
<1>4. ASSUME NEW t \in prompt.legal, Picks("target", t)
      PROVE  InputInv'
  <2>1. /\ picks' = [picks EXCEPT !.target = t] /\ NotWritten
        /\ UNCHANGED <<combat_ui, marks>>
    BY <1>4 DEF Picks
  <2>2. Picked(picks', asked, loaded)
    BY <1>2, <1>3, <1>4, <2>1, TargetPicked
  <2>. QED
    BY <1>1, <2>1, <2>2, PickKeeps DEF InputInv
<1>5. ASSUME NEW t \in IF picks.target # Nothing THEN {picks.target} ELSE prompt.legal,
             Answers([kind |-> "target", target |-> t], combat_ui,
                     [picks EXCEPT !.target = Nothing])
      PROVE  InputInv'
  <2>1. t \in asked[shown].legal
    BY <1>2, <1>3, <1>5
  <2>2. Fits(asked, Replayed, shown, [kind |-> "target", target |-> t])
    BY <1>2, <2>1 DEF Fits, TargetFits
  <2>3. Picked([picks EXCEPT !.target = Nothing], asked, loaded)
    BY <1>3, TargetPicked
  <2>. QED
    BY <1>1, <1>5, <2>2, <2>3, AnswerKeeps DEF InputInv
<1>. QED
  BY <1>4, <1>5 DEF TargetButtons

(* A picked item is taken back, or another one picked while there is room. *)
LEMMA Toggled ==
  ASSUME NEW S, NEW s \in Seq(S), NEW from, NEW most \in Nat, PicksFit(s, from, most)
  PROVE  /\ \A x : Without(s, {x}) \in Seq(S) /\ PicksFit(Without(s, {x}), from, most)
         /\ \A x \in S \cap from : x \notin Range(s) /\ Len(s) < most =>
              Append(s, x) \in Seq(S) /\ PicksFit(Append(s, x), from, most)
<1>1. Len(s) \in Nat /\ DOMAIN s = 1..Len(s)
  BY LenProperties
<1>2. /\ \A i \in DOMAIN s : s[i] \in from
      /\ \A i, j \in DOMAIN s : s[i] = s[j] => i = j
      /\ Len(s) <= most
  BY DEF PicksFit, IsInjective, Range
<1>3. ASSUME NEW x
      PROVE  Without(s, {x}) \in Seq(S) /\ PicksFit(Without(s, {x}), from, most)
  <2>. DEFINE t == Without(s, {x})
  <2>1. t \in Seq(S) /\ Len(t) <= Len(s) /\ \E pos : ComesFrom(pos, t, s, {x})
    BY WithoutFacts
  <2>. HIDE DEF t
  <2>. PICK pos : ComesFrom(pos, t, s, {x})
    BY <2>1
  <2>2. /\ \A j \in DOMAIN t : pos[j] \in DOMAIN s /\ t[j] = s[pos[j]]
        /\ \A i, j \in DOMAIN t : pos[i] = pos[j] => i = j
    BY DEF ComesFrom
  <2>3. Range(t) \subseteq from
    BY <1>2, <2>2 DEF Range
  <2>4. IsInjective(t)
    BY <1>2, <2>2 DEF IsInjective
  <2>5. Len(t) <= most
    <3>1. Len(t) \in Nat
      BY <2>1, LenProperties
    <3>. QED
      BY <1>1, <1>2, <2>1, <3>1
  <2>. QED
    BY <2>1, <2>3, <2>4, <2>5 DEF PicksFit, t
<1>4. ASSUME NEW x \in S \cap from, x \notin Range(s), Len(s) < most
      PROVE  Append(s, x) \in Seq(S) /\ PicksFit(Append(s, x), from, most)
  <2>. DEFINE t == Append(s, x)
              n == Len(s)
  <2>1. /\ t \in Seq(S) /\ Len(t) = n + 1 /\ t[n + 1] = x
        /\ \A i \in 1..n : t[i] = s[i]
    BY AppendProperties
  <2>. HIDE DEF t
  <2>2. DOMAIN t = 1..(n + 1)
    BY <2>1, LenProperties
  <2>3. \A i \in DOMAIN t : \/ i \in DOMAIN s /\ t[i] = s[i] /\ t[i] # x
                            \/ i = n + 1 /\ t[i] = x
    <3>1. \A i \in DOMAIN s : s[i] # x
      BY <1>4 DEF Range
    <3>. QED
      BY <1>1, <2>1, <2>2, <3>1
  <2>4. Range(t) \subseteq from
    BY <1>2, <2>3 DEF Range
  <2>5. IsInjective(t)
    BY <1>2, <2>3 DEF IsInjective
  <2>6. Len(t) <= most
    BY <1>1, <1>4, <2>1
  <2>. QED
    BY <2>1, <2>4, <2>5, <2>6 DEF PicksFit, t
<1>. QED
  BY <1>3, <1>4

LEMMA DiscardKeeps ==
  ASSUME InputInv, DiscardButtons
  PROVE  InputInv'
<1>. DEFINE s == picks.discards
            q == asked[shown]
<1>1. Button("discard")
  BY DEF DiscardButtons
<1>2. /\ q.kind = "discard" /\ prompt = q /\ loaded = shown
      /\ Loaded(asked, loaded, "discard") /\ q \in Offers
  BY <1>1, ButtonIs
<1>3. /\ q.hand \in SUBSET Hand /\ q.count \in Nat /\ s \in Seq(Hand)
      /\ PicksFit(s, q.hand, q.count) /\ Picked(picks, asked, loaded)
  BY <1>2, OfferIs DEF InputInv, Picked, PanelPicks
<1>4. ASSUME NEW c \in q.hand, Toggles("discards", c, q.count)
      PROVE  InputInv'
  <2>. PICK t : /\ \/ t = Without(s, {c})
                   \/ c \notin Range(s) /\ Len(s) < q.count /\ t = Append(s, c)
                /\ Picks("discards", t)
    BY <1>4 DEF Toggles
  <2>1. c \in Hand \cap q.hand
    BY <1>3, <1>4
  <2>2. t \in Seq(Hand) /\ PicksFit(t, q.hand, q.count)
    <3>. HIDE DEF s, q
    <3>1. Without(s, {c}) \in Seq(Hand) /\ PicksFit(Without(s, {c}), q.hand, q.count)
      BY <1>3, Toggled
    <3>2. c \notin Range(s) /\ Len(s) < q.count =>
            Append(s, c) \in Seq(Hand) /\ PicksFit(Append(s, c), q.hand, q.count)
      BY <1>3, <2>1, Toggled
    <3>. QED
      BY <3>1, <3>2
  <2>3. picks' = [picks EXCEPT !.discards = t] /\ NotWritten /\ UNCHANGED <<combat_ui, marks>>
    BY DEF Picks
  <2>4. Picked(picks', asked, loaded)
    BY <1>2, <1>3, <2>2, <2>3, DiscardsPicked
  <2>. QED
    BY <1>1, <2>3, <2>4, PickKeeps DEF InputInv
<1>5. ASSUME Answers([kind |-> "discard", cards |-> s], combat_ui,
                     [picks EXCEPT !.discards = <<>>])
      PROVE  InputInv'
  <2>1. Fits(asked, Replayed, shown, [kind |-> "discard", cards |-> s])
    BY <1>2, <1>3 DEF Fits
  <2>2. <<>> \in Seq(Hand) /\ PicksFit(<<>>, q.hand, q.count)
    BY <1>3, EmptySeq DEF PicksFit, Range, IsInjective
  <2>3. Picked([picks EXCEPT !.discards = <<>>], asked, loaded)
    BY <1>2, <1>3, <2>2, DiscardsPicked
  <2>. QED
    BY <1>1, <1>5, <2>1, <2>3, AnswerKeeps DEF InputInv
<1>. QED
  BY <1>2, <1>4, <1>5 DEF DiscardButtons

LEMMA ModesKeep ==
  ASSUME InputInv, ModeButtons
  PROVE  InputInv'
<1>. DEFINE s == picks.modes
            q == asked[shown]
<1>1. Button("modes")
  BY DEF ModeButtons
<1>2. /\ q.kind = "modes" /\ prompt = q /\ loaded = shown
      /\ Loaded(asked, loaded, "modes") /\ q \in Offers
  BY <1>1, ButtonIs
<1>3. /\ q.modes \in Nat /\ q.most \in Nat /\ s \in Seq(Nat)
      /\ PicksFit(s, 1..q.modes, q.most) /\ Picked(picks, asked, loaded)
  BY <1>2, OfferIs DEF InputInv, Picked, PanelPicks
<1>4. ASSUME NEW m \in 1..q.modes, Toggles("modes", m, q.most)
      PROVE  InputInv'
  <2>. PICK t : /\ \/ t = Without(s, {m})
                   \/ m \notin Range(s) /\ Len(s) < q.most /\ t = Append(s, m)
                /\ Picks("modes", t)
    BY <1>4 DEF Toggles
  <2>1. m \in Nat \cap (1..q.modes)
    BY <1>3, <1>4
  <2>2. t \in Seq(Nat) /\ PicksFit(t, 1..q.modes, q.most)
    <3>. HIDE DEF s, q
    <3>1. Without(s, {m}) \in Seq(Nat) /\ PicksFit(Without(s, {m}), 1..q.modes, q.most)
      BY <1>3, Toggled
    <3>2. m \notin Range(s) /\ Len(s) < q.most =>
            Append(s, m) \in Seq(Nat) /\ PicksFit(Append(s, m), 1..q.modes, q.most)
      BY <1>3, <2>1, Toggled
    <3>. QED
      BY <3>1, <3>2
  <2>3. picks' = [picks EXCEPT !.modes = t] /\ NotWritten /\ UNCHANGED <<combat_ui, marks>>
    BY DEF Picks
  <2>4. Picked(picks', asked, loaded)
    BY <1>2, <1>3, <2>2, <2>3, ModesPicked
  <2>. QED
    BY <1>1, <2>3, <2>4, PickKeeps DEF InputInv
<1>5. ASSUME Len(s) >= q.least,
             Answers([kind |-> "modes", modes |-> s], combat_ui,
                     [picks EXCEPT !.modes = <<>>])
      PROVE  InputInv'
  <2>1. Fits(asked, Replayed, shown, [kind |-> "modes", modes |-> s])
    BY <1>2, <1>3, <1>5 DEF Fits
  <2>2. <<>> \in Seq(Nat) /\ PicksFit(<<>>, 1..q.modes, q.most)
    BY <1>3, EmptySeq DEF PicksFit, Range, IsInjective
  <2>3. Picked([picks EXCEPT !.modes = <<>>], asked, loaded)
    BY <1>2, <1>3, <2>2, ModesPicked
  <2>. QED
    BY <1>1, <1>5, <2>1, <2>3, AnswerKeeps DEF InputInv
<1>. QED
  BY <1>2, <1>4, <1>5 DEF ModeButtons

-----------------------------------------------------------------------------
(* The theorems *)

LEMMA InputStarts ==
  ASSUME InputInit
  PROVE  InputInv
<1>2. AnswersInv
  BY PromptsAreBounded, EmptySeq
     DEF InputInit, AnswersInv, Counted, NothingAhead, OneLeft, Counts
<1>3. asked = <<>> /\ Len(asked) = 0 /\ shown = 0 /\ loaded = 0 /\ sent.id = 0
      /\ at = "keys" /\ marks.attacking = {}
  BY DEF InputInit
<1>4. InputShape
  BY <1>3 DEF InputInit, NoDrag, InputShape
<1>5. Selected(combat_ui, asked, Replayed, loaded)
  BY NoneSelected DEF InputInit
<1>6. Picked(picks, asked, loaded)
  <2>1. NoPicks \in PanelPicks
    BY EmptySeq DEF NoPicks, PanelPicks
  <2>. QED
    BY <1>3, <2>1 DEF InputInit, Picked, Loaded
<1>7. Flagged /\ PanelLoaded /\ SentFits
  BY <1>3 DEF Flagged, Named, NamedBy, Loaded, PanelLoaded, SentFits
<1>. QED
  BY <1>2, <1>4, <1>5, <1>6, <1>7 DEF InputInv

LEMMA InputStandsStill ==
  ASSUME InputInv, UNCHANGED inputs
  PROVE  InputInv'
<1>1. UNCHANGED <<at, mouse, asked, shown, loaded, combat_ui, picks, drag, marks, sent, history>>
  BY DEF inputs
<1>2. AnswersInv' /\ Replayed' = Replayed
  BY <1>1, AnswersKept DEF InputInv, Replayed
<1>3. InputShape' /\ Flagged' /\ PanelLoaded' /\ SentFits'
  BY <1>1, <1>2 DEF InputInv, InputShape, Flagged, PanelLoaded, SentFits
<1>. QED
  BY <1>1, <1>2, <1>3 DEF InputInv

LEMMA InputStepsKeep ==
  ASSUME InputInv, InputNext
  PROVE  InputInv'
<1>1. ASSUME Panel
      PROVE  InputInv'
  BY <1>1, EndFrameKeeps, PriorityKeeps, PlainKeeps, AttackersKeep, BlockersKeep,
     DamageKeeps, TargetKeeps, DiscardKeeps, ModesKeep DEF Panel
<1>. QED
  BY <1>1, PassKeyKeeps, AskedKeeps, RedeliveredKeeps, PollKeeps, BoardKeeps,
     PlayDraggedKeeps, ActivateDraggedKeeps, SendClickedKeeps, LoadPromptKeeps
     DEF InputNext

THEOREM InputInvariant == InputSpec => []InputInv
<1>1. ASSUME InputInv, [InputNext]_inputs
      PROVE  InputInv'
  BY <1>1, InputStepsKeep, InputStandsStill
<1>. QED
  BY <1>1, InputStarts, PTL DEF InputSpec

(* No three places of a sequence hold the same, if at most two do. *)
LEMMA CountsToTwo ==
  ASSUME NEW S, NEW s \in Seq(S), AtMostTwice(s), NEW c
  PROVE  Cardinality({i \in DOMAIN s : s[i] = c}) <= 2
<1>. DEFINE T == {i \in DOMAIN s : s[i] = c}
<1>1. \A i, j, k \in T : i = j \/ j = k \/ i = k
  BY DEF AtMostTwice
<1>. HIDE DEF T
<1>2. \E x, y : T \subseteq {x, y}
  <2>1. CASE T = {}
    BY <2>1
  <2>2. CASE T # {}
    <3>. PICK x \in T : TRUE
      BY <2>2
    <3>1. CASE T \subseteq {x, x}
      BY <3>1
    <3>2. CASE ~(T \subseteq {x, x})
      <4>. PICK y \in T : y # x
        BY <3>2
      <4>1. T \subseteq {x, y}
        BY <1>1
      <4>. QED
        BY <4>1
    <3>. QED
      BY <3>1, <3>2
  <2>. QED
    BY <2>1, <2>2
<1>. PICK x, y : T \subseteq {x, y}
  BY <1>2
<1>3. IsFiniteSet({x, y}) /\ Cardinality({x, y}) <= 2 /\ Cardinality({x, y}) \in Nat
  <2>1. IsFiniteSet({x}) /\ Cardinality({x}) = 1
    BY FS_Singleton
  <2>2. {x, y} = {x} \cup {y}
    OBVIOUS
  <2>3. IsFiniteSet({x} \cup {y}) /\ Cardinality({x} \cup {y}) \in {1, 1 + 1}
    <3>. DEFINE X == {x}
    <3>1. IsFiniteSet(X) /\ Cardinality(X) = 1
      BY <2>1
    <3>. HIDE DEF X
    <3>2. IsFiniteSet(X \cup {y}) /\ Cardinality(X \cup {y}) \in {1, 1 + 1}
      BY <3>1, FS_AddElement
    <3>. QED
      BY <3>2 DEF X
  <2>. DEFINE n == Cardinality({x} \cup {y})
  <2>4. n <= 2 /\ n \in Nat
    <3>1. n \in {1, 1 + 1}
      BY <2>3
    <3>. HIDE DEF n
    <3>. QED
      BY <3>1
  <2>. QED
    BY <2>2, <2>3, <2>4, Zenon
<1>4. IsFiniteSet(T) /\ Cardinality(T) <= Cardinality({x, y}) /\ Cardinality(T) \in Nat
  BY <1>3, FS_Subset, FS_CardinalityType
<1>. QED
  BY <1>3, <1>4 DEF T

(* Type correctness of the match scene's local variables and of the         *)
(* selection, a creature being chosen at most twice.                        *)
THEOREM InputTypes == InputSpec => []InputTypeOK
<1>1. InputInv => InputTypeOK
  <2>1. SUFFICES ASSUME InputInv
                 PROVE  InputTypeOK
    OBVIOUS
  <2>2. /\ asked \in Seq(Offers) /\ Len(asked) <= MaxPrompts /\ shown \in 0..Len(asked)
        /\ history.answers \in Counts /\ history.replays \in Counts
    BY <2>1 DEF InputInv, AnswersInv, Counted
  <2>3. /\ at \in {"keys", "poll", "board", "drag", "activate", "click", "load", "button"}
        /\ mouse \in BOOLEAN /\ loaded \in 0..Len(asked)
        /\ drag.play \in Hand \union {Nothing} /\ drag.activate \in Mine \union {Nothing}
        /\ marks.attacking \subseteq Theirs /\ marks.activated \subseteq Mine
    BY <2>1 DEF InputInv, InputShape
  <2>4. /\ combat_ui \in Selections /\ AtMostTwice(combat_ui.chosen)
    BY <2>1 DEF InputInv, Selected, AttackersChosen
  <2>5. /\ combat_ui.eligible \subseteq Mine /\ combat_ui.legal \subseteq Mine \union Theirs
        /\ combat_ui.chosen \in Seq(Mine)
        /\ combat_ui.blocks \in Seq([blocker : Mine, attacker : Theirs])
        /\ combat_ui.blocker \in Mine \union {Nothing}
        /\ combat_ui.clicked \in Mine \union Theirs \union {Nothing}
    BY <2>4 DEF Selections
  <2>6. \A c \in Mine :
          Cardinality({i \in DOMAIN combat_ui.chosen : combat_ui.chosen[i] = c}) <= 2
    BY <2>4, <2>5, CountsToTwo
  <2>7. /\ picks.target \in Mine \union Theirs \union {Nothing}
        /\ picks.split \in Seq(Nat) /\ picks.modes \in Seq(Nat) /\ picks.discards \in Seq(Hand)
    BY <2>1, Numbers DEF PanelPicks
  <2>8. sent.id \in 0..Len(asked)
    BY <2>1 DEF InputInv, SentFits
  <2>. QED
    BY <2>2, <2>3, <2>5, <2>6, <2>7, <2>8 DEF InputTypeOK, Counts
<1>. QED
  BY <1>1, InputInvariant, PTL

(* Whatever the client answers is something that the prompt asked for, with *)
(* every order of frames, prompts, keys, drags, clicks and lost answers.    *)
THEOREM AnswersFitPrompts == InputSpec => []AnswerFits
<1>1. InputInv => AnswerFits
  BY DEF InputInv, SentFits, AnswerFits
<1>. QED
  BY <1>1, InputInvariant, PTL

-----------------------------------------------------------------------------
(* Mana: sums over a pool, and what a payment takes from it *)

LEMMA KindsAre ==
  /\ Colours = {"W", "U", "B", "R", "G"}
  /\ Kinds = {"W", "U", "B", "R", "G", "C"}
  /\ \A i \in 1 .. 5 : Wubrg[i] \in Colours
  /\ \A c \in Colours : \E i \in 1 .. 5 : Wubrg[i] = c
<1>1. Colours = {Wubrg[i] : i \in 1 .. 5}
  BY DEF Colours, Range, Wubrg
<1>2. {Wubrg[i] : i \in 1 .. 5} = {"W", "U", "B", "R", "G"}
  BY DEF Wubrg
<1>. QED
  BY <1>1, <1>2 DEF Kinds

(* The total of a pool is a number, 0 when it is empty. *)
LEMMA TotalType ==
  /\ \A p \in [Kinds -> Int] : Total(p) \in Int
  /\ \A p \in [Kinds -> Nat] : Total(p) \in Nat
  /\ Empty \in [Kinds -> Nat] /\ Total(Empty) = 0
BY KindsAre DEF Total, Empty

(* It changes by what one kind changes. *)
LEMMA TotalChanges ==
  ASSUME NEW p \in [Kinds -> Int], NEW c \in Kinds, NEW d \in Int, NEW q \in [Kinds -> Int],
         q[c] = p[c] + d, \A e \in Kinds \ {c} : q[e] = p[e]
  PROVE  Total(q) = Total(p) + d
<1>1. c \in {"W", "U", "B", "R", "G", "C"}
  BY KindsAre
<1>2. \A e \in Kinds : p[e] \in Int
  OBVIOUS
<1>. QED
  BY <1>1, <1>2, KindsAre DEF Total

LEMMA TotalExcept ==
  ASSUME NEW p \in [Kinds -> Int], NEW c \in Kinds, NEW d \in Int
  PROVE  /\ [p EXCEPT ![c] = @ + d] \in [Kinds -> Int]
         /\ Total([p EXCEPT ![c] = @ + d]) = Total(p) + d
<1>. DEFINE q == [p EXCEPT ![c] = @ + d]
<1>1. q \in [Kinds -> Int] /\ q[c] = p[c] + d /\ \A e \in Kinds \ {c} : q[e] = p[e]
  OBVIOUS
<1>. HIDE DEF q
<1>2. Total(q) = Total(p) + d
  BY <1>1, TotalChanges
<1>. QED
  BY <1>1, <1>2 DEF q

(* Totals add up. *)
LEMMA TotalAdds ==
  ASSUME NEW p \in [Kinds -> Int], NEW q \in [Kinds -> Int], NEW r \in [Kinds -> Int],
         \A c \in Kinds : p[c] + q[c] = r[c]
  PROVE  Total(p) + Total(q) = Total(r)
BY KindsAre DEF Total

(* Where there is mana, there is a kind of which there is some, *)
LEMMA TotalSome ==
  ASSUME NEW p \in [Kinds -> Int], Total(p) > 0
  PROVE  \E c \in Kinds : p[c] > 0
<1>1. \A c \in {"W", "U", "B", "R", "G", "C"} : p[c] \in Int
  BY KindsAre
<1>. QED
  BY <1>1, KindsAre DEF Total

(* and a colour of which there is most. *)
LEMMA LargestColour ==
  ASSUME NEW p \in [Kinds -> Int]
  PROVE  \E c \in Colours : \A d \in Colours : p[d] <= p[c]
<1>1. p["W"] \in Int /\ p["U"] \in Int /\ p["B"] \in Int /\ p["R"] \in Int /\ p["G"] \in Int
  BY KindsAre
<1>. QED
  BY <1>1, KindsAre

(* FirstOf finds a colour when there is one. *)
LEMMA FirstOfIn ==
  ASSUME NEW S \in SUBSET Colours, S # {}
  PROVE  FirstOf(S) \in S
<1>. DEFINE I == {i \in 1 .. Len(Wubrg) : Wubrg[i] \in S}
<1>1. Len(Wubrg) = 5
  BY DEF Wubrg
<1>2. I # {} /\ I \subseteq Nat
  <2>1. PICK c \in S : c \in Colours
    OBVIOUS
  <2>2. PICK i \in 1 .. 5 : Wubrg[i] = c
    BY <2>1, KindsAre
  <2>3. i \in I
    BY <1>1, <2>1, <2>2
  <2>4. \A j \in I : j \in Nat
    BY <1>1
  <2>. HIDE DEF I
  <2>. QED
    BY <2>3, <2>4
<1>3. PICK i \in I : \A j \in I : <<j, i>> \notin OpToRel(<, Nat)
  <2>. HIDE DEF I
  <2>. QED
    BY <1>2, WFMin, NatLessThanWellFounded
<1>4. i \in I /\ \A j \in I : i <= j
  <2>. HIDE DEF I
  <2>1. \A j \in I : ~(j < i)
    BY <1>2, <1>3 DEF OpToRel
  <2>. QED
    BY <1>2, <2>1
<1>5. Min(I) \in I
  <2>. HIDE DEF I
  <2>. QED
    BY <1>4, Zenon DEF Min
<1>6. FirstOf(S) = Wubrg[Min(I)]
  BY <1>2, Zenon DEF FirstOf, SelectInSeq
<1>. QED
  BY <1>5, <1>6

Payings == [ok : BOOLEAN, left : [Kinds -> Int], pay : [Kinds -> Nat]]

(* What is left and what is paid are together what was there. *)
PayingFrom(p) == {s \in Payings : \A c \in Kinds : s.left[c] + s.pay[c] = p[c]}

LEMMA SpendFits ==
  ASSUME NEW p, NEW s \in PayingFrom(p), NEW c \in Kinds
  PROVE  /\ Spend(s, c) \in PayingFrom(p) /\ Spend(s, c).ok = s.ok
         /\ Total(Spend(s, c).pay) = Total(s.pay) + 1
         /\ Total(Spend(s, c).left) = Total(s.left) - 1
<1>1. s.ok \in BOOLEAN /\ s.left \in [Kinds -> Int] /\ s.pay \in [Kinds -> Nat]
  BY DEF PayingFrom, Payings
<1>2. s.pay \in [Kinds -> Int]
  BY <1>1
<1>3. [s.left EXCEPT ![c] = @ - 1] = [s.left EXCEPT ![c] = @ + (-1)]
  BY <1>1
<1>4. Total([s.left EXCEPT ![c] = @ - 1]) = Total(s.left) - 1
  <2>1. Total([s.left EXCEPT ![c] = @ + (-1)]) = Total(s.left) + (-1)
    BY <1>1, TotalExcept
  <2>2. Total(s.left) \in Int
    BY <1>1, TotalType
  <2>. QED
    BY <1>3, <2>1, <2>2
<1>5. Total([s.pay EXCEPT ![c] = @ + 1]) = Total(s.pay) + 1
  BY <1>2, TotalExcept
<1>6. [s.pay EXCEPT ![c] = @ + 1] \in [Kinds -> Nat] /\ [s.left EXCEPT ![c] = @ - 1] \in [Kinds -> Int]
  BY <1>1
<1>7. \A e \in Kinds : [s.left EXCEPT ![c] = @ - 1][e] + [s.pay EXCEPT ![c] = @ + 1][e] = p[e]
  <2>1. SUFFICES ASSUME NEW e \in Kinds
                 PROVE  [s.left EXCEPT ![c] = @ - 1][e] + [s.pay EXCEPT ![c] = @ + 1][e] = p[e]
    OBVIOUS
  <2>2. s.left[e] + s.pay[e] = p[e] /\ s.left[e] \in Int /\ s.pay[e] \in Int
    BY <1>1, <1>2 DEF PayingFrom
  <2>. QED
    BY <1>1, <2>2
<1>. QED
  BY <1>1, <1>4, <1>5, <1>6, <1>7 DEF Spend, PayingFrom, Payings

(* A function that starts and goes on like another one is the same. *)
LEMMA SameWalk ==
  ASSUME NEW n \in Nat, NEW f, NEW g, f[0] = g[0],
         \A k \in 0 .. n : k < n /\ f[k] = g[k] => f[k + 1] = g[k + 1]
  PROVE  \A k \in 0 .. n : f[k] = g[k]
<1>. DEFINE good == {k \in 0 .. n : f[k] = g[k]}
<1>1. 0 \in good
  OBVIOUS
<1>2. \A k \in 0 .. n : k \in good /\ k < n => k + 1 \in good
  OBVIOUS
<1>. HIDE DEF good
<1>3. \A k \in 0 .. n : k \in good
  BY <1>1, <1>2, UpTo
<1>. QED
  BY <1>3 DEF good

HybridsNext(p, hyb) ==
  [q \in (1 .. Len(hyb)) \X PayingFrom(p) |-> Spend(q[2], Half(q[2], hyb[q[1]]))]

(* Each hybrid symbol is paid by one of its halves. *)
LEMMA HalfKind ==
  ASSUME NEW s, NEW h \in Kinds \X Kinds
  PROVE  Half(s, h) \in {h[1], h[2]} /\ Half(s, h) \in Kinds
BY DEF Half

LEMMA HybridsPaidIs ==
  ASSUME NEW p, NEW s \in PayingFrom(p), NEW hyb \in Seq(Kinds \X Kinds)
  PROVE  \E g \in [0 .. Len(hyb) -> PayingFrom(p)] :
           /\ HybridsPaid(s, hyb) = g[Len(hyb)] /\ g[0] = s
           /\ \A i \in 1 .. Len(hyb) : g[i] = Spend(g[i - 1], Half(g[i - 1], hyb[i]))
<1>. DEFINE n == Len(hyb)
            D == PayingFrom(p)
            paid == CHOOSE f : f = [i \in 0 .. Len(hyb) |->
                      IF i = 0 THEN s ELSE Spend(f[i - 1], Half(f[i - 1], hyb[i]))]
<1>1. n \in Nat /\ \A i \in 1 .. n : hyb[i] \in Kinds \X Kinds
  BY ElementOfSeq, LenProperties
<1>2. HybridsNext(p, hyb) \in [(1 .. n) \X D -> D]
  <2>1. ASSUME NEW q \in (1 .. n) \X D
        PROVE  Spend(q[2], Half(q[2], hyb[q[1]])) \in D
    <3>1. q[1] \in 1 .. n /\ q[2] \in D
      OBVIOUS
    <3>2. Half(q[2], hyb[q[1]]) \in Kinds
      BY <1>1, <3>1, HalfKind
    <3>. QED
      BY <3>1, <3>2, SpendFits
  <2>. QED
    BY <2>1 DEF HybridsNext
<1>3. PICK g \in [0 .. n -> D] : Follows(g, n, s, HybridsNext(p, hyb))
  <2>. HIDE DEF n, D
  <2>1. s \in D
    BY DEF D
  <2>. QED
    BY <1>1, <1>2, <2>1, FollowsExists
<1>4. \A i \in 1 .. n : /\ i - 1 \in 0 .. n /\ i # 0
                        /\ g[i] = Spend(g[i - 1], Half(g[i - 1], hyb[i]))
  <2>1. SUFFICES ASSUME NEW i \in 1 .. n
                 PROVE  /\ i - 1 \in 0 .. n /\ i # 0
                        /\ g[i] = Spend(g[i - 1], Half(g[i - 1], hyb[i]))
    OBVIOUS
  <2>2. i - 1 \in 0 .. n /\ i # 0
    BY <1>1
  <2>3. <<i, g[i - 1]>> \in (1 .. n) \X D
    BY <2>2
  <2>4. g[i] = HybridsNext(p, hyb)[<<i, g[i - 1]>>]
    BY <1>3 DEF Follows
  <2>. QED
    BY <2>2, <2>3, <2>4 DEF HybridsNext
<1>5. g = [i \in 0 .. n |-> IF i = 0 THEN s ELSE Spend(g[i - 1], Half(g[i - 1], hyb[i]))]
  <2>1. \A i \in 0 .. n : g[i] = IF i = 0 THEN s ELSE Spend(g[i - 1], Half(g[i - 1], hyb[i]))
    <3>1. g[0] = s
      BY <1>3 DEF Follows
    <3>2. \A i \in 0 .. n : i = 0 \/ i \in 1 .. n
      BY <1>1
    <3>. HIDE DEF n, D
    <3>. QED
      BY <1>4, <3>1, <3>2
  <2>2. g = [i \in 0 .. n |-> g[i]]
    OBVIOUS
  <2>. QED
    BY <2>1, <2>2, Zenon
<1>6. paid = [i \in 0 .. n |-> IF i = 0 THEN s ELSE Spend(paid[i - 1], Half(paid[i - 1], hyb[i]))]
  BY <1>5, Zenon
<1>7. HybridsPaid(s, hyb) = paid[n]
  BY DEF HybridsPaid
<1>. HIDE DEF paid
<1>8. \A i \in 0 .. n : paid[i] = g[i]
  <2>1. paid[0] = g[0]
    BY <1>1, <1>3, <1>6 DEF Follows
  <2>2. ASSUME NEW k \in 0 .. n, k < n, paid[k] = g[k]
        PROVE  paid[k + 1] = g[k + 1]
    <3>1. k + 1 \in 1 .. n /\ k + 1 \in 0 .. n /\ (k + 1) - 1 = k /\ k + 1 # 0
      BY <1>1, <2>2
    <3>2. paid[k + 1] = Spend(paid[k], Half(paid[k], hyb[k + 1]))
      BY <1>6, <3>1
    <3>3. g[k + 1] = Spend(g[k], Half(g[k], hyb[k + 1]))
      BY <1>4, <3>1
    <3>. QED
      BY <2>2, <3>2, <3>3
  <2>. HIDE DEF n
  <2>3. \A k \in 0 .. n : k < n /\ paid[k] = g[k] => paid[k + 1] = g[k + 1]
    BY <2>2
  <2>4. n \in Nat
    BY <1>1
  <2>. QED
    BY <2>1, <2>3, <2>4, SameWalk, Zenon
<1>9. n \in 0 .. n
  BY <1>1
<1>. QED
  BY <1>3, <1>4, <1>7, <1>8, <1>9 DEF Follows

(* MostOf: what generic mana is taken from is there. *)
LEMMA MostIs ==
  ASSUME NEW s, s.left \in [Kinds -> Int]
  PROVE  /\ Most(s) \in Kinds \cup {"none"}
         /\ Most(s) # "none" => s.left[Most(s)] > 0
         /\ (\E c \in Kinds : s.left[c] > 0) => Most(s) # "none"
<1>. DEFINE best == {c \in Colours : s.left[c] > 0 /\ \A d \in Colours : s.left[d] <= s.left[c]}
<1>1. Kinds = Colours \cup {"C"} /\ "none" \notin Kinds /\ "C" \in Kinds
  BY KindsAre
<1>2. CASE s.left["C"] > 0
  BY <1>1, <1>2 DEF Most
<1>3. CASE ~(s.left["C"] > 0) /\ best = {}
  <2>1. Most(s) = "none"
    BY <1>3 DEF Most
  <2>2. PICK c \in Colours : \A d \in Colours : s.left[d] <= s.left[c]
    BY LargestColour
  <2>3. ~(s.left[c] > 0)
    BY <1>3, <2>2
  <2>4. \A d \in Kinds : s.left[d] \in Int
    OBVIOUS
  <2>5. \A d \in Kinds : ~(s.left[d] > 0)
    <3>1. SUFFICES ASSUME NEW d \in Kinds
                   PROVE  ~(s.left[d] > 0)
      OBVIOUS
    <3>2. CASE d = "C"
      BY <1>3, <3>2
    <3>3. CASE d # "C"
      <4>1. d \in Colours /\ c \in Kinds
        BY <1>1, <3>3
      <4>2. s.left[d] <= s.left[c] /\ s.left[d] \in Int /\ s.left[c] \in Int
        BY <2>2, <2>4, <4>1
      <4>. QED
        BY <2>3, <4>2
    <3>. QED
      BY <3>2, <3>3
  <2>. QED
    BY <2>1, <2>5
<1>4. CASE ~(s.left["C"] > 0) /\ best # {}
  <2>1. Most(s) = FirstOf(best)
    BY <1>4 DEF Most
  <2>2. best \in SUBSET Colours
    OBVIOUS
  <2>3. FirstOf(best) \in best
    <3>. HIDE DEF best
    <3>. QED
      BY <1>4, <2>2, FirstOfIn
  <2>4. Most(s) \in Colours /\ s.left[Most(s)] > 0
    BY <2>1, <2>3
  <2>. QED
    BY <1>1, <2>4
<1>. QED
  BY <1>2, <1>3, <1>4

(* One generic mana. *)
LEMMA GenericFits ==
  ASSUME NEW p, NEW s \in PayingFrom(p)
  PROVE  /\ Generic(s) \in PayingFrom(p)
         /\ Generic(s).ok => s.ok /\ Total(Generic(s).pay) = Total(s.pay) + 1
         /\ s.ok /\ (\A c \in Kinds : s.left[c] >= 0) /\ Total(s.left) > 0
              => /\ Generic(s).ok /\ \A c \in Kinds : Generic(s).left[c] >= 0
                 /\ Total(Generic(s).left) = Total(s.left) - 1
<1>1. s \in Payings /\ s.left \in [Kinds -> Int] /\ s.ok \in BOOLEAN
  BY DEF PayingFrom, Payings
<1>2. CASE ~s.ok
  BY <1>2 DEF Generic
<1>3. CASE s.ok /\ Most(s) = "none"
  <2>1. Generic(s) = [s EXCEPT !.ok = FALSE]
    BY <1>3 DEF Generic
  <2>2. Generic(s).ok = FALSE /\ Generic(s).left = s.left /\ Generic(s).pay = s.pay
        /\ Generic(s) \in Payings
    BY <1>1, <2>1 DEF Payings
  <2>3. Generic(s) \in PayingFrom(p)
    BY <2>2 DEF PayingFrom
  <2>4. ~(Total(s.left) > 0)
    BY <1>1, <1>3, MostIs, TotalSome
  <2>. QED
    BY <2>2, <2>3, <2>4
<1>4. CASE s.ok /\ Most(s) # "none"
  <2>. DEFINE m == Most(s)
  <2>1. Generic(s) = Spend(s, m) /\ m \in Kinds /\ s.left[m] > 0
    BY <1>1, <1>4, MostIs DEF Generic
  <2>2. Spend(s, m).left = [s.left EXCEPT ![m] = @ - 1]
    BY DEF Spend
  <2>. HIDE DEF m
  <2>3. (\A c \in Kinds : s.left[c] >= 0) => \A c \in Kinds : Spend(s, m).left[c] >= 0
    BY <1>1, <2>1, <2>2
  <2>. QED
    BY <1>4, <2>1, <2>3, SpendFits
<1>. QED
  BY <1>1, <1>2, <1>3, <1>4

GenericNext(p, m) == [q \in (1 .. m) \X PayingFrom(p) |-> Generic(q[2])]

GenericWalk(g, p, s, m) ==
  /\ g \in [0 .. m -> PayingFrom(p)] /\ GenericPaid(s, m) = g[m] /\ g[0] = s
  /\ \A i \in 1 .. m : g[i] = Generic(g[i - 1])

(* Generic mana is paid one by one. *)
LEMMA GenericPaidIs ==
  ASSUME NEW p, NEW s \in PayingFrom(p), NEW m, m \in Nat
  PROVE  \E g : GenericWalk(g, p, s, m)
<1>. DEFINE n == m
            D == PayingFrom(p)
            paid == CHOOSE f : f = [i \in 0 .. m |->
                      IF i = 0 THEN s ELSE Generic(f[i - 1])]
<1>1. n \in Nat
  OBVIOUS
<1>2. GenericNext(p, m) \in [(1 .. n) \X D -> D]
  <2>1. ASSUME NEW q \in (1 .. n) \X D
        PROVE  Generic(q[2]) \in D
    BY <2>1, GenericFits
  <2>. QED
    BY <2>1 DEF GenericNext
<1>3. PICK g \in [0 .. n -> D] : Follows(g, n, s, GenericNext(p, m))
  <2>. HIDE DEF n, D
  <2>1. s \in D
    BY DEF D
  <2>. QED
    BY <1>1, <1>2, <2>1, FollowsExists
<1>4. \A i \in 1 .. n : /\ i - 1 \in 0 .. n /\ i # 0
                        /\ g[i] = Generic(g[i - 1])
  <2>1. SUFFICES ASSUME NEW i \in 1 .. n
                 PROVE  /\ i - 1 \in 0 .. n /\ i # 0
                        /\ g[i] = Generic(g[i - 1])
    OBVIOUS
  <2>2. i - 1 \in 0 .. n /\ i # 0
    BY <1>1
  <2>3. <<i, g[i - 1]>> \in (1 .. n) \X D
    BY <2>2
  <2>4. g[i] = GenericNext(p, m)[<<i, g[i - 1]>>]
    BY <1>3 DEF Follows
  <2>. QED
    BY <2>2, <2>3, <2>4 DEF GenericNext
<1>5. g = [i \in 0 .. n |-> IF i = 0 THEN s ELSE Generic(g[i - 1])]
  <2>1. \A i \in 0 .. n : g[i] = IF i = 0 THEN s ELSE Generic(g[i - 1])
    <3>1. g[0] = s
      BY <1>3 DEF Follows
    <3>2. \A i \in 0 .. n : i = 0 \/ i \in 1 .. n
      BY <1>1
    <3>. HIDE DEF n, D
    <3>. QED
      BY <1>4, <3>1, <3>2
  <2>2. g = [i \in 0 .. n |-> g[i]]
    OBVIOUS
  <2>. QED
    BY <2>1, <2>2, Zenon
<1>6. paid = [i \in 0 .. n |-> IF i = 0 THEN s ELSE Generic(paid[i - 1])]
  BY <1>5, Zenon
<1>7. GenericPaid(s, m) = paid[n]
  BY DEF GenericPaid
<1>. HIDE DEF paid
<1>8. \A i \in 0 .. n : paid[i] = g[i]
  <2>1. paid[0] = g[0]
    BY <1>1, <1>3, <1>6 DEF Follows
  <2>2. ASSUME NEW k \in 0 .. n, k < n, paid[k] = g[k]
        PROVE  paid[k + 1] = g[k + 1]
    <3>1. k + 1 \in 1 .. n /\ k + 1 \in 0 .. n /\ (k + 1) - 1 = k /\ k + 1 # 0
      BY <1>1, <2>2
    <3>2. paid[k + 1] = Generic(paid[k])
      BY <1>6, <3>1
    <3>3. g[k + 1] = Generic(g[k])
      BY <1>4, <3>1
    <3>. QED
      BY <2>2, <3>2, <3>3
  <2>. HIDE DEF n
  <2>3. \A k \in 0 .. n : k < n /\ paid[k] = g[k] => paid[k + 1] = g[k + 1]
    BY <2>2
  <2>4. n \in Nat
    BY <1>1
  <2>. QED
    BY <2>1, <2>3, <2>4, SameWalk, Zenon
<1>9. n \in 0 .. n
  BY <1>1
<1>. QED
  BY <1>3, <1>4, <1>7, <1>8, <1>9 DEF Follows, GenericWalk

(* The hybrid symbols cost one mana each. *)
LEMMA HybridsFit ==
  ASSUME NEW p, NEW s \in PayingFrom(p), NEW hyb \in Seq(Kinds \X Kinds)
  PROVE  /\ HybridsPaid(s, hyb) \in PayingFrom(p) /\ HybridsPaid(s, hyb).ok = s.ok
         /\ Total(HybridsPaid(s, hyb).pay) = Total(s.pay) + Len(hyb)
         /\ Total(HybridsPaid(s, hyb).left) = Total(s.left) - Len(hyb)
         /\ Len(hyb) = 0 => HybridsPaid(s, hyb) = s
         /\ Len(hyb) = 1 => HybridsPaid(s, hyb) = Spend(s, Half(s, hyb[1]))
<1>1. PICK g \in [0 .. Len(hyb) -> PayingFrom(p)] :
           /\ HybridsPaid(s, hyb) = g[Len(hyb)] /\ g[0] = s
           /\ \A i \in 1 .. Len(hyb) : g[i] = Spend(g[i - 1], Half(g[i - 1], hyb[i]))
  BY HybridsPaidIs
<1>. DEFINE n == Len(hyb)
            good == {k \in 0 .. n : /\ g[k].ok = s.ok
                                    /\ Total(g[k].pay) = Total(s.pay) + k
                                    /\ Total(g[k].left) = Total(s.left) - k}
<1>2. n \in Nat /\ n \in 0 .. n /\ 0 \in 0 .. n /\ \A i \in 1 .. n : hyb[i] \in Kinds \X Kinds
  BY ElementOfSeq, LenProperties
<1>3. \A x \in PayingFrom(p) : Total(x.pay) \in Nat /\ Total(x.left) \in Int
  BY TotalType DEF PayingFrom, Payings
<1>4. 0 \in good
  BY <1>1, <1>2, <1>3
<1>5. ASSUME NEW k \in 0 .. n, k \in good, k < n
      PROVE  k + 1 \in good
  <2>1. k + 1 \in 1 .. n /\ k + 1 \in 0 .. n /\ (k + 1) - 1 = k
    BY <1>2, <1>5
  <2>2. g[k + 1] = Spend(g[k], Half(g[k], hyb[k + 1]))
    BY <1>1, <2>1
  <2>3. Half(g[k], hyb[k + 1]) \in Kinds /\ g[k] \in PayingFrom(p)
    BY <1>2, <2>1, HalfKind
  <2>4. /\ g[k + 1].ok = g[k].ok /\ Total(g[k + 1].pay) = Total(g[k].pay) + 1
        /\ Total(g[k + 1].left) = Total(g[k].left) - 1
    BY <2>2, <2>3, SpendFits
  <2>5. /\ g[k].ok = s.ok /\ Total(g[k].pay) = Total(s.pay) + k
        /\ Total(g[k].left) = Total(s.left) - k
    BY <1>5
  <2>6. Total(s.pay) \in Nat /\ Total(s.left) \in Int /\ k \in Nat
    BY <1>3
  <2>7. /\ g[k + 1].ok = s.ok /\ Total(g[k + 1].pay) = Total(s.pay) + (k + 1)
        /\ Total(g[k + 1].left) = Total(s.left) - (k + 1)
    BY <2>4, <2>5, <2>6
  <2>. QED
    BY <2>1, <2>7
<1>6. n \in good
  <2>. HIDE DEF good
  <2>1. \A k \in 0 .. n : k \in good
    BY <1>2, <1>4, <1>5, UpTo
  <2>. QED
    BY <1>2, <2>1
<1>7. Len(hyb) = 1 => g[1] = Spend(g[0], Half(g[0], hyb[1]))
  <2>1. SUFFICES ASSUME n = 1
                 PROVE  g[1] = Spend(g[0], Half(g[0], hyb[1]))
    OBVIOUS
  <2>2. 1 \in 1 .. Len(hyb) /\ 1 - 1 = 0
    BY <2>1
  <2>. QED
    BY <1>1, <2>2
<1>. QED
  BY <1>1, <1>2, <1>6, <1>7

(* Generic mana costs one mana each, and is paid when there is enough left. *)
LEMMA GenericPaidFits ==
  ASSUME NEW p, NEW s \in PayingFrom(p), NEW m \in Nat
  PROVE  /\ GenericPaid(s, m) \in PayingFrom(p)
         /\ GenericPaid(s, m).ok => Total(GenericPaid(s, m).pay) = Total(s.pay) + m
         /\ s.ok /\ (\A c \in Kinds : s.left[c] >= 0) /\ Total(s.left) >= m
              => GenericPaid(s, m).ok /\ \A c \in Kinds : GenericPaid(s, m).left[c] >= 0
<1>0. PICK g : GenericWalk(g, p, s, m)
  BY GenericPaidIs
<1>1. /\ g \in [0 .. m -> PayingFrom(p)] /\ GenericPaid(s, m) = g[m] /\ g[0] = s
      /\ \A i \in 1 .. m : g[i] = Generic(g[i - 1])
  BY <1>0 DEF GenericWalk
<1>. DEFINE enough == s.ok /\ (\A c \in Kinds : s.left[c] >= 0) /\ Total(s.left) >= m
            good == {k \in 0 .. m :
                       /\ g[k].ok => Total(g[k].pay) = Total(s.pay) + k
                       /\ enough => /\ g[k].ok /\ \A c \in Kinds : g[k].left[c] >= 0
                                    /\ Total(g[k].left) = Total(s.left) - k}
<1>2. m \in 0 .. m /\ 0 \in 0 .. m
  OBVIOUS
<1>3. \A x \in PayingFrom(p) : Total(x.pay) \in Nat /\ Total(x.left) \in Int
  BY TotalType DEF PayingFrom, Payings
<1>4. 0 \in good
  BY <1>1, <1>2, <1>3
<1>5. ASSUME NEW k \in 0 .. m, k \in good, k < m
      PROVE  k + 1 \in good
  <2>1. k + 1 \in 1 .. m /\ k + 1 \in 0 .. m /\ (k + 1) - 1 = k
    BY <1>5
  <2>2. g[k + 1] = Generic(g[k]) /\ g[k] \in PayingFrom(p)
    BY <1>1, <2>1
  <2>3. Total(s.pay) \in Nat /\ Total(s.left) \in Int /\ k \in Nat
        /\ Total(g[k].left) \in Int
    BY <1>3, <2>2
  <2>4. g[k + 1].ok => g[k].ok /\ Total(g[k + 1].pay) = Total(g[k].pay) + 1
    BY <2>2, GenericFits
  <2>5. g[k].ok => Total(g[k].pay) = Total(s.pay) + k
    BY <1>5
  <2>6. g[k + 1].ok => Total(g[k + 1].pay) = Total(s.pay) + (k + 1)
    BY <2>3, <2>4, <2>5
  <2>7. enough => /\ g[k + 1].ok /\ \A c \in Kinds : g[k + 1].left[c] >= 0
                  /\ Total(g[k + 1].left) = Total(s.left) - (k + 1)
    <3>1. SUFFICES ASSUME enough
                   PROVE  /\ g[k + 1].ok /\ \A c \in Kinds : g[k + 1].left[c] >= 0
                          /\ Total(g[k + 1].left) = Total(s.left) - (k + 1)
      OBVIOUS
    <3>2. /\ g[k].ok /\ \A c \in Kinds : g[k].left[c] >= 0
          /\ Total(g[k].left) = Total(s.left) - k
      BY <1>5, <3>1
    <3>3. Total(g[k].left) > 0
      BY <1>5, <2>3, <3>1, <3>2
    <3>4. /\ g[k + 1].ok /\ \A c \in Kinds : g[k + 1].left[c] >= 0
          /\ Total(g[k + 1].left) = Total(g[k].left) - 1
      BY <2>2, <3>2, <3>3, GenericFits
    <3>. QED
      BY <2>3, <3>2, <3>4
  <2>. HIDE DEF enough
  <2>. QED
    BY <2>1, <2>6, <2>7
<1>6. m \in good
  <2>. HIDE DEF good
  <2>1. \A k \in 0 .. m : k \in good
    BY <1>4, <1>5, UpTo
  <2>. QED
    BY <1>2, <2>1
<1>. QED
  BY <1>1, <1>6

(* What a cost takes in its colours. *)
LEMMA ColoursFit ==
  ASSUME NEW p \in [Kinds -> Nat], NEW cost \in Costs
  PROVE  /\ ColoursPaid(p, cost) \in PayingFrom(p)
         /\ ColoursPaid(p, cost).ok = CanPay(p, cost)
         /\ ColoursPaid(p, cost).left = LeftOver(p, cost)
         /\ Total(ColoursPaid(p, cost).pay) + cost.gen + Len(cost.hyb) = ManaValue(cost)
         /\ cost.gen \in Nat /\ cost.hyb \in Seq(Kinds \X Kinds)
<1>. DEFINE pay == [c \in Kinds |-> IF c = "C" THEN 0 ELSE cost.col[c]]
<1>1. /\ cost.col \in [Colours -> Nat] /\ cost.gen \in Nat /\ cost.hyb \in Seq(Kinds \X Kinds)
      /\ Len(cost.hyb) \in Nat
  BY LenProperties DEF Costs
<1>2. \A c \in Kinds : c = "C" \/ c \in Colours
  BY KindsAre
<1>3. \A c \in Kinds : pay[c] \in Nat /\ LeftOver(p, cost)[c] \in Int
                       /\ LeftOver(p, cost)[c] + pay[c] = p[c]
  BY <1>1, <1>2 DEF LeftOver
<1>4. pay \in [Kinds -> Nat]
  BY <1>3
<1>5. LeftOver(p, cost) \in [Kinds -> Int]
  <2>1. LeftOver(p, cost) = [c \in Kinds |-> LeftOver(p, cost)[c]]
    BY DEF LeftOver
  <2>. QED
    BY <1>3, <2>1
<1>6. CanPay(p, cost) \in BOOLEAN
  BY DEF CanPay
<1>7. ColoursPaid(p, cost) = [ok |-> CanPay(p, cost), left |-> LeftOver(p, cost), pay |-> pay]
  BY DEF ColoursPaid
<1>8. Total(pay) = cost.col["W"] + cost.col["U"] + cost.col["B"] + cost.col["R"] + cost.col["G"]
  BY <1>1, KindsAre DEF Total
<1>9. /\ cost.col["W"] \in Nat /\ cost.col["U"] \in Nat /\ cost.col["B"] \in Nat
      /\ cost.col["R"] \in Nat /\ cost.col["G"] \in Nat
  BY <1>1, KindsAre
<1>. HIDE DEF pay
<1>10. Total(pay) + cost.gen + Len(cost.hyb) = ManaValue(cost)
  <2>. DEFINE w == cost.col["W"]
              u == cost.col["U"]
              b == cost.col["B"]
              r == cost.col["R"]
              g == cost.col["G"]
              gen == cost.gen
              len == Len(cost.hyb)
  <2>1. /\ w \in Nat /\ u \in Nat /\ b \in Nat /\ r \in Nat /\ g \in Nat
        /\ gen \in Nat /\ len \in Nat
    BY <1>1, <1>9
  <2>2. Total(pay) = w + u + b + r + g
    BY <1>8
  <2>3. ManaValue(cost) = gen + len + w + u + b + r + g
    BY DEF ManaValue
  <2>. HIDE DEF w, u, b, r, g, gen, len
  <2>4. Total(pay) + gen + len = ManaValue(cost)
    BY <2>1, <2>2, <2>3
  <2>. QED
    BY <2>4 DEF gen, len
<1>. QED
  BY <1>1, <1>3, <1>4, <1>5, <1>6, <1>7, <1>10 DEF PayingFrom, Payings

(* A payment costs what the cost asks for. *)
LEMMA PaymentFits ==
  ASSUME NEW p \in [Kinds -> Nat], NEW cost \in Costs
  PROVE  /\ Payment(p, cost) \in PayingFrom(p)
         /\ Payment(p, cost).ok => Total(Payment(p, cost).pay) = ManaValue(cost)
<1>. DEFINE s == ColoursPaid(p, cost)
            h == HybridsPaid(s, cost.hyb)
<1>1. /\ s \in PayingFrom(p) /\ Total(s.pay) + cost.gen + Len(cost.hyb) = ManaValue(cost)
      /\ cost.gen \in Nat /\ cost.hyb \in Seq(Kinds \X Kinds) /\ Len(cost.hyb) \in Nat
  BY ColoursFit, LenProperties
<1>2. CASE ~s.ok
  BY <1>1, <1>2 DEF Payment
<1>3. CASE s.ok
  <2>1. Payment(p, cost) = GenericPaid(h, cost.gen)
    BY <1>3 DEF Payment
  <2>2. h \in PayingFrom(p) /\ Total(h.pay) = Total(s.pay) + Len(cost.hyb)
    BY <1>1, HybridsFit
  <2>3. Total(s.pay) \in Nat
    BY <1>1, TotalType DEF PayingFrom, Payings
  <2>. HIDE DEF h, s
  <2>4. /\ GenericPaid(h, cost.gen) \in PayingFrom(p)
        /\ GenericPaid(h, cost.gen).ok
             => Total(GenericPaid(h, cost.gen).pay) = Total(h.pay) + cost.gen
    BY <1>1, <2>2, GenericPaidFits
  <2>. QED
    BY <1>1, <2>1, <2>2, <2>3, <2>4
<1>. QED
  BY <1>2, <1>3

(* So a pool that pays is left with that much less. *)
LEMMA PaidFits ==
  ASSUME NEW p \in [Kinds -> Nat], NEW cost \in Costs, Payable(p, cost)
  PROVE  /\ Paid(p, cost) \in [Kinds -> Nat]
         /\ Total(Paid(p, cost)) = Total(p) - ManaValue(cost)
         /\ Total(Paid(p, cost)) \in Nat /\ Total(p) \in Nat /\ ManaValue(cost) \in Nat
<1>. DEFINE pay == Payment(p, cost).pay
<1>1. /\ pay \in [Kinds -> Nat] /\ Total(pay) = ManaValue(cost)
      /\ \A c \in Kinds : pay[c] <= p[c]
  BY PaymentFits DEF Payable, PayingFrom, Payings
<1>2. Paid(p, cost) = [c \in Kinds |-> p[c] - pay[c]]
  BY DEF Paid
<1>. HIDE DEF pay
<1>3. Paid(p, cost) \in [Kinds -> Nat] /\ \A c \in Kinds : Paid(p, cost)[c] + pay[c] = p[c]
  BY <1>1, <1>2
<1>4. Paid(p, cost) \in [Kinds -> Int] /\ pay \in [Kinds -> Int] /\ p \in [Kinds -> Int]
  BY <1>1, <1>3
<1>5. Total(Paid(p, cost)) + Total(pay) = Total(p)
  BY <1>3, <1>4, TotalAdds
<1>6. Total(Paid(p, cost)) \in Nat /\ Total(pay) \in Nat /\ Total(p) \in Nat
  BY <1>1, <1>3, TotalType
<1>. QED
  BY <1>1, <1>3, <1>5, <1>6

(* With at most one hybrid symbol, compute_optimal_payment finds a payment, *)
(* and one that the pool has, whenever can_pay_cost says there is one.      *)
LEMMA CanPayIsPayable ==
  ASSUME NEW p \in [Kinds -> Nat], NEW cost \in Costs, OneChoice(cost), CanPay(p, cost)
  PROVE  Payable(p, cost)
<1>. DEFINE s == ColoursPaid(p, cost)
            h == HybridsPaid(s, cost.hyb)
            left == LeftOver(p, cost)
<1>1. /\ s \in PayingFrom(p) /\ s.ok /\ s.left = left
      /\ cost.gen \in Nat /\ cost.hyb \in Seq(Kinds \X Kinds)
      /\ Len(cost.hyb) \in Nat /\ Len(cost.hyb) <= 1
  BY ColoursFit, LenProperties DEF OneChoice
<1>2. left \in [Kinds -> Int]
  BY <1>1 DEF PayingFrom, Payings
<1>3. \A c \in Kinds : left[c] >= 0
  <2>1. \A c \in Colours : left[c] >= 0
    BY DEF CanPay
  <2>2. left["C"] = p["C"] - 0 /\ p["C"] \in Nat
    BY KindsAre DEF LeftOver
  <2>. QED
    BY <2>1, <2>2, KindsAre
<1>4. Total(left) \in Int /\ Total(left) - Len(cost.hyb) >= cost.gen
  BY <1>2, TotalType DEF CanPay
<1>5. h \in PayingFrom(p) /\ h.ok /\ Total(h.left) = Total(left) - Len(cost.hyb)
  BY <1>1, HybridsFit
<1>6. \A c \in Kinds : h.left[c] >= 0
  <2>1. CASE Len(cost.hyb) = 0
    BY <1>1, <1>3, <2>1, HybridsFit
  <2>2. CASE Len(cost.hyb) = 1
    <3>. DEFINE half == Half(s, cost.hyb[1])
    <3>1. 1 \in DOMAIN cost.hyb /\ DOMAIN cost.hyb = {1} /\ cost.hyb[1] \in Kinds \X Kinds
      <4>1. DOMAIN cost.hyb = 1 .. Len(cost.hyb)
        BY <1>1, LenProperties
      <4>2. 1 .. 1 = {1}
        OBVIOUS
      <4>3. cost.hyb[1] \in Kinds \X Kinds
        BY <1>1, <2>2, ElementOfSeq
      <4>. QED
        BY <2>2, <4>1, <4>2, <4>3
    <3>2. h = Spend(s, half)
      BY <1>1, <2>2, HybridsFit
    <3>3. half \in Kinds
      BY <3>1, HalfKind
    <3>4. PICK f \in [DOMAIN cost.hyb -> {1, 2}] : ChoicePays(left, cost.hyb, f)
      BY DEF CanPay
    <3>. DEFINE c1 == cost.hyb[1][f[1]]
    <3>5. f[1] \in {1, 2} /\ c1 \in Kinds
      BY <3>1, <3>4
    <3>6. {i \in DOMAIN cost.hyb : cost.hyb[i][f[i]] = c1} = {1}
      BY <3>1
    <3>7. Cardinality({1}) = 1
      BY FS_Singleton
    <3>8. left[c1] >= 1
      <4>1. Cardinality({i \in DOMAIN cost.hyb : cost.hyb[i][f[i]] = c1}) <= left[c1]
        BY <3>4, <3>5 DEF ChoicePays
      <4>2. 1 <= left[c1] /\ left[c1] \in Int
        BY <1>2, <3>5, <3>6, <3>7, <4>1
      <4>. QED
        BY <4>2
    <3>9. left[half] >= left[c1]
      <4>1. left[cost.hyb[1][1]] \in Int /\ left[cost.hyb[1][2]] \in Int
        BY <1>2, <3>1
      <4>2. c1 = cost.hyb[1][1] \/ c1 = cost.hyb[1][2]
        BY <3>5
      <4>. QED
        BY <1>1, <4>1, <4>2 DEF Half
    <3>10. left[half] >= 1 /\ left[half] \in Int
      BY <1>2, <3>3, <3>5, <3>8, <3>9
    <3>11. h.left = [left EXCEPT ![half] = @ - 1]
      BY <1>1, <3>2 DEF Spend
    <3>. HIDE DEF h, half, left
    <3>. QED
      BY <1>2, <1>3, <3>3, <3>10, <3>11
  <2>3. Len(cost.hyb) = 0 \/ Len(cost.hyb) = 1
    <3>. DEFINE n == Len(cost.hyb)
    <3>1. n \in Nat /\ n <= 1
      BY <1>1
    <3>. HIDE DEF n
    <3>2. n = 0 \/ n = 1
      BY <3>1
    <3>. QED
      BY <3>2 DEF n
  <2>. QED
    BY <2>1, <2>2, <2>3
<1>7. Payment(p, cost) = GenericPaid(h, cost.gen)
  BY <1>1 DEF Payment
<1>. DEFINE g == GenericPaid(h, cost.gen)
<1>8. g \in PayingFrom(p) /\ g.ok /\ \A c \in Kinds : g.left[c] >= 0
  <2>1. Total(h.left) >= cost.gen
    BY <1>1, <1>4, <1>5
  <2>. HIDE DEF h
  <2>. QED
    BY <1>1, <1>5, <1>6, <2>1, GenericPaidFits
<1>9. \A c \in Kinds : g.pay[c] <= p[c]
  <2>. HIDE DEF g
  <2>1. SUFFICES ASSUME NEW c \in Kinds
                 PROVE  g.pay[c] <= p[c]
    OBVIOUS
  <2>2. /\ g.left[c] + g.pay[c] = p[c] /\ g.left[c] >= 0
        /\ g.left[c] \in Int /\ g.pay[c] \in Int /\ p[c] \in Int
    BY <1>8 DEF PayingFrom, Payings
  <2>. QED
    BY <2>2
<1>. QED
  BY <1>7, <1>8, <1>9 DEF Payable

-----------------------------------------------------------------------------
(* Mana: lands tapped for a cost *)

(* The lands give a colour or colourless mana. *)
LEMMA LandsGive ==
  \A l \in LandCards : produces[l] \in Kinds
BY CardsAreCards

(* A land gives one mana. *)
LEMMA TapGives ==
  ASSUME NEW p, p \in [Kinds -> Nat], NEW l, produces[l] \in Kinds
  PROVE  Tap(p, l) \in [Kinds -> Nat] /\ Total(Tap(p, l)) = Total(p) + 1
<1>1. p \in [Kinds -> Int]
  OBVIOUS
<1>2. Tap(p, l) = [p EXCEPT ![produces[l]] = @ + 1]
  BY DEF Tap
<1>3. Tap(p, l) \in [Kinds -> Nat]
  BY <1>2
<1>4. Total(Tap(p, l)) = Total(p) + 1
  <2>. DEFINE c == produces[l]
              q == Tap(p, l)
  <2>1. c \in Kinds /\ q \in [Kinds -> Int] /\ 1 \in Int
    BY <1>3
  <2>2. q[c] = p[c] + 1 /\ \A e \in Kinds \ {c} : q[e] = p[e]
    BY <1>2
  <2>. HIDE DEF c, q
  <2>3. Total(q) = Total(p) + 1
    BY <1>1, <2>1, <2>2, TotalChanges
  <2>. QED
    BY <2>3 DEF q
<1>. QED
  BY <1>3, <1>4

Tappings == [pool : [Kinds -> Nat], tapped : SUBSET LandCards]

LEMMA TapFits ==
  ASSUME NEW s \in Tappings, NEW l \in LandCards, NEW cost
  PROVE  /\ TapNext(s, l, cost) \in Tappings
         /\ TapNext(s, l, cost).tapped \in {s.tapped, s.tapped \cup {l}}
         /\ TapNext(s, l, cost) # s
              => /\ TapNext(s, l, cost).tapped = s.tapped \cup {l}
                 /\ Total(TapNext(s, l, cost).pool) = Total(s.pool) + 1
<1>1. CASE CanPay(s.pool, cost)
  BY <1>1 DEF TapNext
<1>2. CASE ~CanPay(s.pool, cost)
  <2>1. TapNext(s, l, cost) = [pool |-> Tap(s.pool, l), tapped |-> s.tapped \cup {l}]
    BY <1>2 DEF TapNext
  <2>2. s.pool \in [Kinds -> Nat] /\ s.tapped \in SUBSET LandCards /\ produces[l] \in Kinds
    BY LandsGive DEF Tappings
  <2>3. Tap(s.pool, l) \in [Kinds -> Nat] /\ Total(Tap(s.pool, l)) = Total(s.pool) + 1
    BY <2>2, TapGives
  <2>. QED
    BY <2>1, <2>2, <2>3 DEF Tappings
<1>. QED
  BY <1>1, <1>2

TapsNext(order, cost) ==
  [q \in (1 .. Len(order)) \X Tappings |-> TapNext(q[2], order[q[1]], cost)]

(* Lands are tapped one after another. *)
LEMMA AutoTapIs ==
  ASSUME NEW order \in Seq(LandCards), NEW cost, pool \in [Kinds -> Nat]
  PROVE  \E g \in [0 .. Len(order) -> Tappings] :
           /\ AutoTap(order, cost) = g[Len(order)] /\ g[0] = [pool |-> pool, tapped |-> {}]
           /\ \A i \in 1 .. Len(order) : g[i] = TapNext(g[i - 1], order[i], cost)
<1>. DEFINE n == Len(order)
            D == Tappings
            after == CHOOSE f : f = [i \in 0 .. Len(order) |->
                      IF i = 0 THEN [pool |-> pool, tapped |-> {}] ELSE TapNext(f[i - 1], order[i], cost)]
<1>1. n \in Nat /\ \A i \in 1 .. n : order[i] \in LandCards
  BY ElementOfSeq, LenProperties
<1>2. TapsNext(order, cost) \in [(1 .. n) \X D -> D]
  <2>1. ASSUME NEW q \in (1 .. n) \X D
        PROVE  TapNext(q[2], order[q[1]], cost) \in D
    <3>1. q[2] \in D /\ order[q[1]] \in LandCards
      BY <1>1
    <3>. QED
      BY <3>1, TapFits
  <2>. QED
    BY <2>1 DEF TapsNext
<1>3. PICK g \in [0 .. n -> D] : Follows(g, n, [pool |-> pool, tapped |-> {}], TapsNext(order, cost))
  <2>. HIDE DEF n, D
  <2>1. [pool |-> pool, tapped |-> {}] \in D
    BY DEF D, Tappings
  <2>. QED
    BY <1>1, <1>2, <2>1, FollowsExists
<1>4. \A i \in 1 .. n : /\ i - 1 \in 0 .. n /\ i # 0
                        /\ g[i] = TapNext(g[i - 1], order[i], cost)
  <2>1. SUFFICES ASSUME NEW i \in 1 .. n
                 PROVE  /\ i - 1 \in 0 .. n /\ i # 0
                        /\ g[i] = TapNext(g[i - 1], order[i], cost)
    OBVIOUS
  <2>2. i - 1 \in 0 .. n /\ i # 0
    BY <1>1
  <2>3. <<i, g[i - 1]>> \in (1 .. n) \X D
    BY <2>2
  <2>4. g[i] = TapsNext(order, cost)[<<i, g[i - 1]>>]
    BY <1>3 DEF Follows
  <2>. QED
    BY <2>2, <2>3, <2>4 DEF TapsNext
<1>5. g = [i \in 0 .. n |-> IF i = 0 THEN [pool |-> pool, tapped |-> {}] ELSE TapNext(g[i - 1], order[i], cost)]
  <2>1. \A i \in 0 .. n : g[i] = IF i = 0 THEN [pool |-> pool, tapped |-> {}] ELSE TapNext(g[i - 1], order[i], cost)
    <3>1. g[0] = [pool |-> pool, tapped |-> {}]
      BY <1>3 DEF Follows
    <3>2. \A i \in 0 .. n : i = 0 \/ i \in 1 .. n
      BY <1>1
    <3>. HIDE DEF n, D
    <3>. QED
      BY <1>4, <3>1, <3>2
  <2>2. g = [i \in 0 .. n |-> g[i]]
    OBVIOUS
  <2>. QED
    BY <2>1, <2>2, Zenon
<1>6. after = [i \in 0 .. n |-> IF i = 0 THEN [pool |-> pool, tapped |-> {}] ELSE TapNext(after[i - 1], order[i], cost)]
  BY <1>5, Zenon
<1>7. AutoTap(order, cost) = after[n]
  BY DEF AutoTap
<1>. HIDE DEF after
<1>8. \A i \in 0 .. n : after[i] = g[i]
  <2>1. after[0] = g[0]
    BY <1>1, <1>3, <1>6 DEF Follows
  <2>2. ASSUME NEW k \in 0 .. n, k < n, after[k] = g[k]
        PROVE  after[k + 1] = g[k + 1]
    <3>1. k + 1 \in 1 .. n /\ k + 1 \in 0 .. n /\ (k + 1) - 1 = k /\ k + 1 # 0
      BY <1>1, <2>2
    <3>2. after[k + 1] = TapNext(after[k], order[k + 1], cost)
      BY <1>6, <3>1
    <3>3. g[k + 1] = TapNext(g[k], order[k + 1], cost)
      BY <1>4, <3>1
    <3>. QED
      BY <2>2, <3>2, <3>3
  <2>. HIDE DEF n
  <2>3. \A k \in 0 .. n : k < n /\ after[k] = g[k] => after[k + 1] = g[k + 1]
    BY <2>2
  <2>4. n \in Nat
    BY <1>1
  <2>. QED
    BY <2>1, <2>3, <2>4, SameWalk, Zenon
<1>9. n \in 0 .. n
  BY <1>1
<1>. QED
  BY <1>3, <1>4, <1>7, <1>8, <1>9 DEF Follows

(* The lands are tapped at most once each, and give one mana each. *)
LEMMA AutoTapFits ==
  ASSUME NEW S \in SUBSET LandCards, IsFiniteSet(S), NEW order \in SetToSeqs(S), NEW cost,
         pool \in [Kinds -> Nat]
  PROVE  LET s == AutoTap(order, cost)
         IN /\ s.pool \in [Kinds -> Nat] /\ s.tapped \subseteq S
            /\ Total(s.pool) = Total(pool) + Cardinality(s.tapped)
<1>. DEFINE n == Cardinality(S)
<1>1. /\ n \in Nat /\ order \in [1 .. n -> S]
      /\ \A i, j \in 1 .. n : i # j => order[i] # order[j]
  BY FS_CardinalityType DEF SetToSeqs
<1>2. order \in Seq(LandCards) /\ Len(order) = n
  <2>1. order \in [1 .. n -> LandCards]
    BY <1>1
  <2>. HIDE DEF n
  <2>2. order = [i \in 1 .. n |-> order[i]] /\ \A i \in 1 .. n : order[i] \in LandCards
    BY <2>1
  <2>3. DOMAIN order = 1 .. n
    BY <2>1
  <2>4. order \in Seq(LandCards)
    BY <1>1, <2>1, SeqDef
  <2>. QED
    BY <1>1, <2>3, <2>4, LenProperties
<1>3. PICK g \in [0 .. Len(order) -> Tappings] :
           /\ AutoTap(order, cost) = g[Len(order)] /\ g[0] = [pool |-> pool, tapped |-> {}]
           /\ \A i \in 1 .. Len(order) : g[i] = TapNext(g[i - 1], order[i], cost)
  BY <1>2, AutoTapIs
<1>. HIDE DEF n
<1>. DEFINE Sofar(k) == {order[i] : i \in 1 .. k}
            good == {k \in 0 .. n : /\ g[k].tapped \subseteq Sofar(k) /\ IsFiniteSet(g[k].tapped)
                                    /\ Total(g[k].pool) = Total(pool) + Cardinality(g[k].tapped)}
<1>4. n \in 0 .. n /\ 0 \in 0 .. n
  BY <1>1
<1>5. Total(pool) \in Nat
  BY TotalType
<1>6. 0 \in good
  <2>1. g[0].tapped = {} /\ g[0].pool = pool
    BY <1>3
  <2>2. IsFiniteSet({}) /\ Cardinality({}) = 0
    BY FS_EmptySet
  <2>. QED
    BY <1>4, <1>5, <2>1, <2>2
<1>7. ASSUME NEW k \in 0 .. n, k \in good, k < n
      PROVE  k + 1 \in good
  <2>1. k + 1 \in 1 .. n /\ k + 1 \in 0 .. n /\ (k + 1) - 1 = k /\ k \in Nat
    BY <1>1, <1>7
  <2>. DEFINE l == order[k + 1]
  <2>2. g[k + 1] = TapNext(g[k], l, cost) /\ g[k] \in Tappings /\ l \in S /\ l \in LandCards
    BY <1>1, <1>2, <1>3, <2>1
  <2>3. /\ g[k].tapped \subseteq Sofar(k) /\ IsFiniteSet(g[k].tapped)
        /\ Total(g[k].pool) = Total(pool) + Cardinality(g[k].tapped)
    BY <1>7
  <2>4. Sofar(k) \subseteq Sofar(k + 1) /\ l \in Sofar(k + 1)
    BY <2>1
  <2>5. l \notin Sofar(k)
    <3>1. \A i \in 1 .. k : i \in 1 .. n /\ i # k + 1
      BY <1>1, <2>1
    <3>. QED
      BY <1>1, <2>1, <3>1
  <2>. HIDE DEF l, Sofar
  <2>6. CASE g[k + 1] = g[k]
    BY <2>1, <2>3, <2>4, <2>6
  <2>7. CASE g[k + 1] # g[k]
    <3>1. g[k + 1].tapped = g[k].tapped \cup {l} /\ Total(g[k + 1].pool) = Total(g[k].pool) + 1
      BY <2>2, <2>7, TapFits
    <3>2. /\ IsFiniteSet(g[k].tapped \cup {l})
          /\ Cardinality(g[k].tapped \cup {l}) = Cardinality(g[k].tapped) + 1
          /\ Cardinality(g[k].tapped) \in Nat
      BY <2>3, <2>5, FS_AddElement, FS_CardinalityType
    <3>3. Total(g[k + 1].pool) = Total(pool) + Cardinality(g[k + 1].tapped)
      BY <1>5, <2>3, <3>1, <3>2
    <3>4. g[k + 1].tapped \subseteq Sofar(k + 1) /\ IsFiniteSet(g[k + 1].tapped)
      BY <2>3, <2>4, <3>1, <3>2
    <3>. QED
      BY <2>1, <3>3, <3>4
  <2>. QED
    BY <2>6, <2>7
<1>8. n \in good
  <2>. HIDE DEF good
  <2>1. \A k \in 0 .. n : k \in good
    BY <1>1, <1>6, <1>7, UpTo
  <2>. QED
    BY <1>4, <2>1
<1>9. Sofar(n) \subseteq S
  BY <1>1
<1>10. AutoTap(order, cost) = g[n] /\ g[n] \in Tappings
  BY <1>2, <1>3, <1>4
<1>. QED
  BY <1>8, <1>9, <1>10 DEF Tappings

(* What paying a cost may come to: the mana of the pool and of the lands,  *)
(* less the cost when it was paid, is in the pool.                         *)
SettlementOf(r, cost) ==
  /\ r.ok \in BOOLEAN /\ r.pool \in [Kinds -> Nat]
  /\ r.lands \subseteq UntappedLands /\ IsFiniteSet(r.lands)
  /\ Total(r.pool) = Total(pool) + Cardinality(r.lands) - IF r.ok THEN ManaValue(cost) ELSE 0
  /\ ManaValue(cost) \in Nat

LEMMA CostValue ==
  ASSUME NEW cost \in Costs
  PROVE  ManaValue(cost) \in Nat
<1>1. cost.col \in [Colours -> Nat] /\ cost.gen \in Nat /\ Len(cost.hyb) \in Nat
  BY LenProperties DEF Costs
<1>2. /\ cost.col["W"] \in Nat /\ cost.col["U"] \in Nat /\ cost.col["B"] \in Nat
      /\ cost.col["R"] \in Nat /\ cost.col["G"] \in Nat
  BY <1>1, KindsAre
<1>. DEFINE w == cost.col["W"]
            u == cost.col["U"]
            b == cost.col["B"]
            r == cost.col["R"]
            g == cost.col["G"]
            gen == cost.gen
            len == Len(cost.hyb)
<1>3. ManaValue(cost) = gen + len + w + u + b + r + g
  BY DEF ManaValue
<1>4. /\ w \in Nat /\ u \in Nat /\ b \in Nat /\ r \in Nat /\ g \in Nat
      /\ gen \in Nat /\ len \in Nat
  BY <1>1, <1>2
<1>. HIDE DEF w, u, b, r, g, gen, len
<1>. QED
  BY <1>3, <1>4

LEMMA SettlementsFit ==
  ASSUME NEW cost \in Costs, pool \in [Kinds -> Nat], NEW r \in Settlements(cost)
  PROVE  SettlementOf(r, cost)
<1>1. PICK o \in Orders(cost) :
        r = LET s == AutoTap(o, cost)
                ok == Payable(s.pool, cost)
            IN [ok |-> ok, lands |-> s.tapped, pool |-> IF ok THEN Paid(s.pool, cost) ELSE s.pool]
  BY DEF Settlements
<1>. DEFINE s == AutoTap(o, cost)
<1>2. o \in SetToSeqs(UntappedLands) /\ UntappedLands \in SUBSET LandCards /\ IsFiniteSet(UntappedLands)
  <2>1. UntappedLands \subseteq LandCards
    BY DEF UntappedLands
  <2>. QED
    BY <2>1, FS_Subset, CardsAreCards DEF Orders
<1>3. /\ s.pool \in [Kinds -> Nat] /\ s.tapped \subseteq UntappedLands
      /\ Total(s.pool) = Total(pool) + Cardinality(s.tapped)
  BY <1>2, AutoTapFits
<1>4. IsFiniteSet(s.tapped) /\ Cardinality(s.tapped) \in Nat /\ Total(pool) \in Nat
      /\ Total(s.pool) \in Nat /\ ManaValue(cost) \in Nat
  BY <1>2, <1>3, FS_Subset, FS_CardinalityType, TotalType, CostValue
<1>5. /\ r.ok = Payable(s.pool, cost) /\ r.lands = s.tapped
      /\ r.pool = IF r.ok THEN Paid(s.pool, cost) ELSE s.pool
  BY <1>1
<1>. HIDE DEF s
<1>6. r.ok \in BOOLEAN
  BY <1>5 DEF Payable
<1>7. CASE r.ok
  <2>1. Paid(s.pool, cost) \in [Kinds -> Nat] /\ Total(Paid(s.pool, cost)) = Total(s.pool) - ManaValue(cost)
    BY <1>3, <1>5, <1>7, PaidFits
  <2>. QED
    BY <1>3, <1>4, <1>5, <1>6, <1>7, <2>1 DEF SettlementOf
<1>8. CASE ~r.ok
  BY <1>3, <1>4, <1>5, <1>6, <1>8 DEF SettlementOf
<1>. QED
  BY <1>7, <1>8

-----------------------------------------------------------------------------
(* Mana: what a card costs *)

(* The mana of a cost is a sum of numbers. *)
LEMMA ValueOf ==
  ASSUME NEW cost \in Costs
  PROVE  /\ cost.col \in [Colours -> Nat] /\ cost.gen \in Nat /\ Len(cost.hyb) \in Nat
         /\ cost.hyb \in Seq(Kinds \X Kinds) /\ cost.x \in Nat
         /\ cost.col["W"] \in Nat /\ cost.col["U"] \in Nat /\ cost.col["B"] \in Nat
         /\ cost.col["R"] \in Nat /\ cost.col["G"] \in Nat
<1>1. cost.col \in [Colours -> Nat] /\ cost.gen \in Nat /\ cost.hyb \in Seq(Kinds \X Kinds)
      /\ cost.x \in Nat
  BY DEF Costs
<1>. QED
  BY <1>1, LenProperties, KindsAre

LEMMA GenericLess ==
  ASSUME NEW cost, cost \in Costs, NEW n, n \in Nat, n <= cost.gen
  PROVE  /\ [cost EXCEPT !.gen = @ - n] \in Costs
         /\ ManaValue([cost EXCEPT !.gen = @ - n]) = ManaValue(cost) - n
<1>. DEFINE rest == [cost EXCEPT !.gen = @ - n]
<1>1. cost.gen \in Nat
  BY ValueOf
<1>2. rest.gen = cost.gen - n /\ rest.col = cost.col /\ rest.hyb = cost.hyb /\ rest \in Costs
  BY <1>1 DEF Costs
<1>. HIDE DEF rest
<1>3. ManaValue(rest) = ManaValue(cost) - n
  <2>. DEFINE w == cost.col["W"]
              u == cost.col["U"]
              b == cost.col["B"]
              r == cost.col["R"]
              g == cost.col["G"]
              gen == cost.gen
              len == Len(cost.hyb)
  <2>1. ManaValue(cost) = gen + len + w + u + b + r + g
    BY DEF ManaValue
  <2>2. ManaValue(rest) = (gen - n) + len + w + u + b + r + g
    BY <1>2 DEF ManaValue
  <2>3. /\ w \in Nat /\ u \in Nat /\ b \in Nat /\ r \in Nat /\ g \in Nat
        /\ gen \in Nat /\ len \in Nat
    BY ValueOf
  <2>. HIDE DEF w, u, b, r, g, gen, len
  <2>. QED
    BY <2>1, <2>2, <2>3
<1>. QED
  BY <1>2, <1>3 DEF rest

LEMMA ColourLess ==
  ASSUME NEW cost \in Costs, NEW c \in Colours, cost.col[c] > 0
  PROVE  /\ [cost EXCEPT !.col[c] = @ - 1] \in Costs
         /\ ManaValue([cost EXCEPT !.col[c] = @ - 1]) = ManaValue(cost) - 1
<1>. DEFINE rest == [cost EXCEPT !.col[c] = @ - 1]
<1>1. cost.col \in [Colours -> Nat]
  BY ValueOf
<1>2. /\ rest.gen = cost.gen /\ rest.hyb = cost.hyb /\ rest.x = cost.x
      /\ rest.col = [cost.col EXCEPT ![c] = @ - 1]
      /\ rest.col \in [Colours -> Nat] /\ rest \in Costs
  <2>. DEFINE col == [cost.col EXCEPT ![c] = @ - 1]
  <2>1. col \in [Colours -> Nat]
    BY <1>1
  <2>2. rest = [cost EXCEPT !.col = col]
    BY DEF Costs
  <2>. HIDE DEF col, rest
  <2>3. /\ rest.gen = cost.gen /\ rest.hyb = cost.hyb /\ rest.x = cost.x
        /\ rest.col = col /\ rest \in Costs
    BY <2>1, <2>2 DEF Costs
  <2>. QED
    BY <2>1, <2>3 DEF col
<1>3. rest.col[c] = cost.col[c] - 1 /\ \A d \in Colours \ {c} : rest.col[d] = cost.col[d]
  BY <1>1, <1>2
<1>. HIDE DEF rest
<1>4. ManaValue(rest) = ManaValue(cost) - 1
  <2>. DEFINE w == cost.col["W"]
              u == cost.col["U"]
              b == cost.col["B"]
              r == cost.col["R"]
              g == cost.col["G"]
              w2 == rest.col["W"]
              u2 == rest.col["U"]
              b2 == rest.col["B"]
              r2 == rest.col["R"]
              g2 == rest.col["G"]
              gen == cost.gen
              len == Len(cost.hyb)
  <2>1. ManaValue(cost) = gen + len + w + u + b + r + g
    BY DEF ManaValue
  <2>2. ManaValue(rest) = gen + len + w2 + u2 + b2 + r2 + g2
    BY <1>2 DEF ManaValue
  <2>3. /\ w \in Nat /\ u \in Nat /\ b \in Nat /\ r \in Nat /\ g \in Nat
        /\ gen \in Nat /\ len \in Nat
    BY ValueOf
  <2>4. \/ w2 = w - 1 /\ u2 = u /\ b2 = b /\ r2 = r /\ g2 = g
        \/ w2 = w /\ u2 = u - 1 /\ b2 = b /\ r2 = r /\ g2 = g
        \/ w2 = w /\ u2 = u /\ b2 = b - 1 /\ r2 = r /\ g2 = g
        \/ w2 = w /\ u2 = u /\ b2 = b /\ r2 = r - 1 /\ g2 = g
        \/ w2 = w /\ u2 = u /\ b2 = b /\ r2 = r /\ g2 = g - 1
    BY <1>3, KindsAre
  <2>. HIDE DEF w, u, b, r, g, gen, len, w2, u2, b2, r2, g2
  <2>. QED
    BY <2>1, <2>2, <2>3, <2>4
<1>. QED
  BY <1>2, <1>4 DEF rest

(* A creature tapped for Convoke pays for at most one mana. *)
LEMMA ConvokeFits ==
  ASSUME NEW cost \in Costs, NEW cr \in Fielded \cup Cards
  PROVE  /\ Convoke(cost, cr) \in Costs
         /\ ManaValue(Convoke(cost, cr)) >= ManaValue(cost) - 1
<1>1. ManaValue(cost) \in Nat /\ cost.gen \in Nat
  BY CostValue, ValueOf
<1>2. CASE Shared(cost, cr) # {}
  <2>. DEFINE c == FirstOf(Shared(cost, cr))
  <2>1. dye[cr] \in SUBSET Colours
    BY CardsAreCards
  <2>2. Shared(cost, cr) \in SUBSET Colours
    BY <2>1 DEF Shared
  <2>3. c \in Shared(cost, cr)
    BY <1>2, <2>2, FirstOfIn
  <2>4. c \in Colours /\ cost.col[c] > 0
    BY <2>2, <2>3 DEF Shared
  <2>5. Convoke(cost, cr) = [cost EXCEPT !.col[c] = @ - 1]
    BY <1>2 DEF Convoke
  <2>. HIDE DEF c
  <2>. QED
    BY <1>1, <2>4, <2>5, ColourLess
<1>3. CASE Shared(cost, cr) = {} /\ cost.gen > 0
  <2>1. Convoke(cost, cr) = [cost EXCEPT !.gen = @ - 1]
    BY <1>3 DEF Convoke
  <2>. DEFINE one == 1
  <2>2. one \in Nat /\ one <= cost.gen
    BY <1>1, <1>3
  <2>3. Convoke(cost, cr) = [cost EXCEPT !.gen = @ - one]
    BY <2>1
  <2>. HIDE DEF one
  <2>4. Convoke(cost, cr) \in Costs /\ ManaValue(Convoke(cost, cr)) = ManaValue(cost) - one
    BY <2>2, <2>3, GenericLess
  <2>. QED
    BY <1>1, <2>4 DEF one
<1>4. CASE Shared(cost, cr) = {} /\ ~(cost.gen > 0)
  BY <1>1, <1>4 DEF Convoke
<1>. QED
  BY <1>2, <1>3, <1>4

ConvokeNext(help) ==
  [q \in (1 .. Len(help)) \X Costs |-> Convoke(q[2], help[q[1]])]

(* Creatures are tapped one after another. *)
LEMMA ConvokedIs ==
  ASSUME NEW cost \in Costs, NEW help \in Seq(Fielded \cup Cards)
  PROVE  \E g \in [0 .. Len(help) -> Costs] :
           /\ Convoked(cost, help) = g[Len(help)] /\ g[0] = cost
           /\ \A i \in 1 .. Len(help) : g[i] = Convoke(g[i - 1], help[i])
<1>. DEFINE n == Len(help)
            D == Costs
            rest == CHOOSE f : f = [i \in 0 .. Len(help) |->
                      IF i = 0 THEN cost ELSE Convoke(f[i - 1], help[i])]
<1>1. n \in Nat /\ \A i \in 1 .. n : help[i] \in Fielded \cup Cards
  BY ElementOfSeq, LenProperties
<1>2. ConvokeNext(help) \in [(1 .. n) \X D -> D]
  <2>1. ASSUME NEW q \in (1 .. n) \X D
        PROVE  Convoke(q[2], help[q[1]]) \in D
    <3>1. q[2] \in D /\ help[q[1]] \in Fielded \cup Cards
      BY <1>1
    <3>. QED
      BY <3>1, ConvokeFits
  <2>. QED
    BY <2>1 DEF ConvokeNext
<1>3. PICK g \in [0 .. n -> D] : Follows(g, n, cost, ConvokeNext(help))
  <2>. HIDE DEF n, D
  <2>1. cost \in D
    BY DEF D
  <2>. QED
    BY <1>1, <1>2, <2>1, FollowsExists
<1>4. \A i \in 1 .. n : /\ i - 1 \in 0 .. n /\ i # 0
                        /\ g[i] = Convoke(g[i - 1], help[i])
  <2>1. SUFFICES ASSUME NEW i \in 1 .. n
                 PROVE  /\ i - 1 \in 0 .. n /\ i # 0
                        /\ g[i] = Convoke(g[i - 1], help[i])
    OBVIOUS
  <2>2. i - 1 \in 0 .. n /\ i # 0
    BY <1>1
  <2>3. <<i, g[i - 1]>> \in (1 .. n) \X D
    BY <2>2
  <2>4. g[i] = ConvokeNext(help)[<<i, g[i - 1]>>]
    BY <1>3 DEF Follows
  <2>. QED
    BY <2>2, <2>3, <2>4 DEF ConvokeNext
<1>5. g = [i \in 0 .. n |-> IF i = 0 THEN cost ELSE Convoke(g[i - 1], help[i])]
  <2>1. \A i \in 0 .. n : g[i] = IF i = 0 THEN cost ELSE Convoke(g[i - 1], help[i])
    <3>1. g[0] = cost
      BY <1>3 DEF Follows
    <3>2. \A i \in 0 .. n : i = 0 \/ i \in 1 .. n
      BY <1>1
    <3>. HIDE DEF n, D
    <3>. QED
      BY <1>4, <3>1, <3>2
  <2>2. g = [i \in 0 .. n |-> g[i]]
    OBVIOUS
  <2>. QED
    BY <2>1, <2>2, Zenon
<1>6. rest = [i \in 0 .. n |-> IF i = 0 THEN cost ELSE Convoke(rest[i - 1], help[i])]
  BY <1>5, Zenon
<1>7. Convoked(cost, help) = rest[n]
  BY DEF Convoked
<1>. HIDE DEF rest
<1>8. \A i \in 0 .. n : rest[i] = g[i]
  <2>1. rest[0] = g[0]
    BY <1>1, <1>3, <1>6 DEF Follows
  <2>2. ASSUME NEW k \in 0 .. n, k < n, rest[k] = g[k]
        PROVE  rest[k + 1] = g[k + 1]
    <3>1. k + 1 \in 1 .. n /\ k + 1 \in 0 .. n /\ (k + 1) - 1 = k /\ k + 1 # 0
      BY <1>1, <2>2
    <3>2. rest[k + 1] = Convoke(rest[k], help[k + 1])
      BY <1>6, <3>1
    <3>3. g[k + 1] = Convoke(g[k], help[k + 1])
      BY <1>4, <3>1
    <3>. QED
      BY <2>2, <3>2, <3>3
  <2>. HIDE DEF n
  <2>3. \A k \in 0 .. n : k < n /\ rest[k] = g[k] => rest[k + 1] = g[k + 1]
    BY <2>2
  <2>4. n \in Nat
    BY <1>1
  <2>. QED
    BY <2>1, <2>3, <2>4, SameWalk, Zenon
<1>9. n \in 0 .. n
  BY <1>1
<1>. QED
  BY <1>3, <1>4, <1>7, <1>8, <1>9 DEF Follows

(* Convoke takes at most one mana off for each creature. *)
LEMMA ConvokedFits ==
  ASSUME NEW cost \in Costs, NEW help \in Seq(Fielded \cup Cards)
  PROVE  /\ Convoked(cost, help) \in Costs
         /\ ManaValue(Convoked(cost, help)) + Len(help) >= ManaValue(cost)
         /\ Len(help) = 0 => Convoked(cost, help) = cost
<1>1. PICK g \in [0 .. Len(help) -> Costs] :
           /\ Convoked(cost, help) = g[Len(help)] /\ g[0] = cost
           /\ \A i \in 1 .. Len(help) : g[i] = Convoke(g[i - 1], help[i])
  BY ConvokedIs
<1>. DEFINE n == Len(help)
            good == {k \in 0 .. n : ManaValue(g[k]) + k >= ManaValue(cost)}
<1>2. n \in Nat /\ n \in 0 .. n /\ 0 \in 0 .. n /\ \A i \in 1 .. n : help[i] \in Fielded \cup Cards
  BY ElementOfSeq, LenProperties
<1>3. \A x \in Costs : ManaValue(x) \in Nat
  BY CostValue
<1>4. 0 \in good
  BY <1>1, <1>2, <1>3
<1>5. ASSUME NEW k \in 0 .. n, k \in good, k < n
      PROVE  k + 1 \in good
  <2>1. k + 1 \in 1 .. n /\ k + 1 \in 0 .. n /\ (k + 1) - 1 = k /\ k \in Nat
    BY <1>2, <1>5
  <2>2. g[k + 1] = Convoke(g[k], help[k + 1]) /\ g[k] \in Costs /\ g[k + 1] \in Costs
    BY <1>1, <2>1
  <2>3. ManaValue(g[k + 1]) >= ManaValue(g[k]) - 1
    BY <1>2, <2>1, <2>2, ConvokeFits
  <2>4. ManaValue(g[k]) + k >= ManaValue(cost)
    BY <1>5
  <2>5. ManaValue(g[k]) \in Nat /\ ManaValue(g[k + 1]) \in Nat /\ ManaValue(cost) \in Nat
    BY <1>3, <2>2
  <2>6. ManaValue(g[k + 1]) + (k + 1) >= ManaValue(cost)
    BY <2>1, <2>3, <2>4, <2>5
  <2>. QED
    BY <2>1, <2>6
<1>6. n \in good
  <2>. HIDE DEF good
  <2>1. \A k \in 0 .. n : k \in good
    BY <1>2, <1>4, <1>5, UpTo
  <2>. QED
    BY <1>2, <2>1
<1>. QED
  BY <1>1, <1>2, <1>6

LEMMA ProductNat ==
  ASSUME NEW a \in Nat, NEW b \in Nat
  PROVE  a * b \in Nat
OBVIOUS

(* A kicker adds a cost. *)
LEMMA PlusFits ==
  ASSUME NEW cost \in Costs, NEW extra \in Costs
  PROVE  Plus(cost, extra) \in Costs
<1>1. \A c \in Colours : cost.col[c] + extra.col[c] \in Nat
  <2>1. cost.col \in [Colours -> Nat] /\ extra.col \in [Colours -> Nat]
    BY ValueOf
  <2>. QED
    BY <2>1
<1>. DEFINE col == [c \in Colours |-> cost.col[c] + extra.col[c]]
            gen == cost.gen + extra.gen
<1>2. col \in [Colours -> Nat] /\ gen \in Nat
  BY <1>1, ValueOf
<1>3. Plus(cost, extra) = [cost EXCEPT !.gen = gen, !.col = col]
  BY DEF Plus
<1>. HIDE DEF col, gen
<1>. QED
  BY <1>2, <1>3 DEF Costs

LEMMA PriceFits ==
  ASSUME NEW c \in Cards, NEW x \in Xs(c), NEW kicked \in Kicks(c)
  PROVE  Price(c, x, kicked) \in Costs /\ x \in 0 .. MaxX /\ kicked \in BOOLEAN
<1>1. face[c].cost \in Costs /\ face[c].kicker \in MaybeCosts /\ MaxX \in Nat
  BY CardsAreCards
<1>2. x \in 0 .. MaxX /\ kicked \in BOOLEAN
  <2>1. Xs(c) \subseteq 0 .. MaxX
    BY <1>1 DEF Xs
  <2>2. Kicks(c) \subseteq BOOLEAN
    BY DEF Kicks
  <2>. QED
    BY <2>1, <2>2
<1>. DEFINE cost == face[c].cost
            gen == cost.gen + x * cost.x
            chosen == [cost EXCEPT !.gen = gen, !.x = 0]
<1>3. gen \in Nat
  <2>1. x \in Nat /\ cost.x \in Nat /\ cost.gen \in Nat
    BY <1>1, <1>2, ValueOf
  <2>2. x * cost.x \in Nat
    BY <2>1, ProductNat
  <2>. QED
    BY <2>1, <2>2
<1>4. Price(c, x, kicked) = IF kicked THEN Plus(chosen, face[c].kicker) ELSE chosen
  BY DEF Price
<1>5. chosen \in Costs
  <2>. HIDE DEF gen
  <2>. QED
    BY <1>1, <1>3 DEF Costs
<1>6. kicked => face[c].kicker \in Costs
  BY <1>1 DEF Kicks, MaybeCosts
<1>. HIDE DEF chosen
<1>. QED
  BY <1>2, <1>4, <1>5, <1>6, PlusFits

-----------------------------------------------------------------------------
(* Mana: cards in the graveyard and on the stack *)

(* A card that is not there yet is put at the end. *)
LEMMA AppendOnce ==
  ASSUME NEW S, NEW s \in Seq(S), IsInjective(s), NEW x \in S, x \notin Range(s)
  PROVE  /\ Append(s, x) \in Seq(S) /\ IsInjective(Append(s, x))
         /\ Range(Append(s, x)) = Range(s) \cup {x}
<1>. DEFINE t == Append(s, x)
            n == Len(s)
<1>1. /\ t \in Seq(S) /\ Len(t) = n + 1 /\ t[n + 1] = x
      /\ \A i \in 1 .. n : t[i] = s[i]
      /\ n \in Nat /\ DOMAIN s = 1 .. n /\ DOMAIN t = 1 .. n + 1
  BY AppendProperties, LenProperties
<1>. HIDE DEF t, n
<1>2. \A i \in 1 .. n + 1 : i \in 1 .. n \/ i = n + 1
  BY <1>1
<1>3. \A i \in 1 .. n : i \in 1 .. n + 1
  BY <1>1
<1>4. n + 1 \in 1 .. n + 1
  BY <1>1
<1>5. \A i \in 1 .. n : s[i] # x
  BY <1>1 DEF Range
<1>6. \A i, j \in 1 .. n : s[i] = s[j] => i = j
  BY <1>1 DEF IsInjective
<1>7. \A i, j \in 1 .. n + 1 : t[i] = t[j] => i = j
  BY <1>1, <1>2, <1>5, <1>6
<1>8. Range(t) = Range(s) \cup {x}
  <2>1. \A y \in Range(t) : y \in Range(s) \cup {x}
    BY <1>1, <1>2 DEF Range
  <2>2. \A y \in Range(s) : y \in Range(t)
    BY <1>1, <1>3 DEF Range
  <2>3. x \in Range(t)
    BY <1>1, <1>4 DEF Range
  <2>. QED
    BY <2>1, <2>2, <2>3
<1>. QED
  BY <1>1, <1>7, <1>8 DEF IsInjective, t

(* A sequence without repetitions, cut in two. *)
LEMMA Cut ==
  ASSUME NEW S, NEW s \in Seq(S), IsInjective(s), NEW k, k \in 0 .. Len(s)
  PROVE  /\ SubSeq(s, 1, k) \in Seq(S) /\ IsInjective(SubSeq(s, 1, k))
         /\ SubSeq(s, k + 1, Len(s)) \in Seq(S) /\ IsInjective(SubSeq(s, k + 1, Len(s)))
         /\ Range(SubSeq(s, 1, k)) \cup Range(SubSeq(s, k + 1, Len(s))) = Range(s)
         /\ Range(SubSeq(s, 1, k)) \cap Range(SubSeq(s, k + 1, Len(s))) = {}
         /\ Len(SubSeq(s, k + 1, Len(s))) = Len(s) - k
<1>. DEFINE n == Len(s)
            a == SubSeq(s, 1, k)
            b == SubSeq(s, k + 1, n)
<1>1. n \in Nat /\ DOMAIN s = 1 .. n /\ \A i \in 1 .. n : s[i] \in S
  BY ElementOfSeq, LenProperties
<1>2. k \in Nat /\ k <= n
  BY <1>1
<1>3. a \in Seq(S) /\ Len(a) = k /\ \A i \in 1 .. k : a[i] = s[i]
  <2>1. \A i \in 1 .. k : s[i] \in S
    BY <1>1, <1>2
  <2>2. /\ a \in Seq(S) /\ Len(a) = IF 1 <= k THEN k - 1 + 1 ELSE 0
        /\ \A i \in 1 .. k - 1 + 1 : a[i] = s[1 + i - 1]
    BY <1>2, <2>1, SubSeqProperties
  <2>3. k - 1 + 1 = k /\ (~(1 <= k) => k = 0) /\ \A i \in 1 .. k : 1 + i - 1 = i
    BY <1>2
  <2>. HIDE DEF a
  <2>. QED
    BY <2>2, <2>3
<1>4. b \in Seq(S) /\ Len(b) = n - k /\ \A i \in 1 .. n - k : b[i] = s[k + i]
  <2>1. \A i \in k + 1 .. n : s[i] \in S
    BY <1>1, <1>2
  <2>2. /\ b \in Seq(S) /\ Len(b) = IF k + 1 <= n THEN n - (k + 1) + 1 ELSE 0
        /\ \A i \in 1 .. n - (k + 1) + 1 : b[i] = s[(k + 1) + i - 1]
    BY <1>1, <1>2, <2>1, SubSeqProperties
  <2>3. /\ n - (k + 1) + 1 = n - k /\ (~(k + 1 <= n) => n - k = 0)
        /\ \A i \in 1 .. n - k : (k + 1) + i - 1 = k + i
    <3>1. n \in Nat /\ k \in Nat /\ k <= n
      BY <1>1, <1>2
    <3>. HIDE DEF n
    <3>. QED
      BY <3>1
  <2>. HIDE DEF b, n
  <2>. QED
    BY <2>2, <2>3
<1>5. DOMAIN a = 1 .. k /\ DOMAIN b = 1 .. n - k
  BY <1>3, <1>4, LenProperties
<1>. HIDE DEF a, b, n
<1>6. \A i, j \in 1 .. n : s[i] = s[j] => i = j
  BY <1>1 DEF IsInjective
<1>7. IsInjective(a)
  <2>1. \A i \in 1 .. k : i \in 1 .. n
    BY <1>1, <1>2
  <2>. QED
    BY <1>3, <1>5, <1>6, <2>1 DEF IsInjective
<1>8. \A i \in 1 .. n - k : k + i \in 1 .. n
  BY <1>1, <1>2
<1>9. IsInjective(b)
  <2>1. SUFFICES ASSUME NEW i \in 1 .. n - k, NEW j \in 1 .. n - k, b[i] = b[j]
                 PROVE  i = j
    BY <1>5 DEF IsInjective
  <2>2. k + i = k + j
    BY <1>4, <1>6, <1>8, <2>1
  <2>. QED
    BY <1>1, <1>2, <2>2
<1>10. Range(a) \cup Range(b) = Range(s)
  <2>1. \A y \in Range(a) : y \in Range(s)
    BY <1>1, <1>2, <1>3, <1>5 DEF Range
  <2>2. \A y \in Range(b) : y \in Range(s)
    BY <1>1, <1>4, <1>5, <1>8 DEF Range
  <2>3. ASSUME NEW i \in 1 .. n
        PROVE  s[i] \in Range(a) \cup Range(b)
    <3>1. CASE i <= k
      BY <1>2, <1>3, <1>5, <3>1 DEF Range
    <3>2. CASE ~(i <= k)
      <4>1. i - k \in 1 .. n - k /\ k + (i - k) = i
        BY <1>1, <1>2, <3>2
      <4>2. b[i - k] = s[i]
        BY <1>4, <4>1
      <4>. QED
        BY <1>5, <4>1, <4>2 DEF Range
    <3>. QED
      BY <3>1, <3>2
  <2>. QED
    BY <1>1, <2>1, <2>2, <2>3 DEF Range
<1>11. Range(a) \cap Range(b) = {}
  <2>1. SUFFICES ASSUME NEW i \in 1 .. k, NEW j \in 1 .. n - k, a[i] = b[j]
                 PROVE  FALSE
    BY <1>5 DEF Range
  <2>2. s[i] = s[k + j] /\ i \in 1 .. n /\ k + j \in 1 .. n
    BY <1>1, <1>2, <1>3, <1>4, <1>8, <2>1
  <2>3. i = k + j
    BY <1>6, <2>2
  <2>. QED
    BY <1>1, <1>2, <2>3
<1>. QED
  BY <1>3, <1>4, <1>7, <1>9, <1>10, <1>11 DEF a, b, n

(* It has as many elements as it is long. *)
LEMMA RangeCount ==
  ASSUME NEW S, NEW s \in Seq(S), IsInjective(s)
  PROVE  IsFiniteSet(Range(s)) /\ Cardinality(Range(s)) = Len(s)
<1>. DEFINE n == Len(s)
<1>1. n \in Nat /\ DOMAIN s = 1 .. n /\ s = [i \in 1 .. n |-> s[i]]
  BY LenProperties
<1>2. Range(s) = {s[i] : i \in 1 .. n} /\ \A i, j \in 1 .. n : s[i] = s[j] => i = j
  BY <1>1 DEF Range, IsInjective
<1>3. s \in Bijection(1 .. n, Range(s))
  <2>1. \A i \in 1 .. n : s[i] \in Range(s)
    BY <1>2
  <2>2. s \in [1 .. n -> Range(s)]
    BY <1>1, <2>1
  <2>3. \A y \in Range(s) : \E i \in 1 .. n : s[i] = y
    BY <1>2
  <2>. QED
    BY <1>1, <1>2, <2>2, <2>3 DEF Bijection, Injection, Surjection, IsInjective
<1>4. ExistsBijection(1 .. n, Range(s))
  BY <1>3 DEF ExistsBijection
<1>. HIDE DEF n
<1>5. IsFiniteSet(Range(s))
  BY <1>1, <1>4, FS_NatBijection
<1>6. Cardinality(Range(s)) = n
  BY <1>1, <1>4, FS_CountingElements
<1>. QED
  BY <1>5, <1>6 DEF n

(* The sequence without its element at i. *)
LEMMA RemoveOnce ==
  ASSUME NEW S, NEW s \in Seq(S), IsInjective(s), NEW i, i \in 1 .. Len(s)
  PROVE  /\ RemoveAt(s, i) \in Seq(S) /\ IsInjective(RemoveAt(s, i))
         /\ Range(RemoveAt(s, i)) = Range(s) \ {s[i]} /\ s[i] \in S /\ s[i] \in Range(s)
<1>. DEFINE n == Len(s)
            a == SubSeq(s, 1, i - 1)
            b == SubSeq(s, i + 1, n)
            u == a \o b
<1>1. n \in Nat /\ DOMAIN s = 1 .. n /\ \A j \in 1 .. n : s[j] \in S
  BY ElementOfSeq, LenProperties
<1>2. i \in Nat /\ 1 <= i /\ i <= n
  BY <1>1
<1>3. a \in Seq(S) /\ Len(a) = i - 1 /\ \A j \in 1 .. i - 1 : a[j] = s[j]
  <2>1. \A j \in 1 .. i - 1 : s[j] \in S
    BY <1>1, <1>2
  <2>2. /\ a \in Seq(S) /\ Len(a) = IF 1 <= i - 1 THEN (i - 1) - 1 + 1 ELSE 0
        /\ \A j \in 1 .. (i - 1) - 1 + 1 : a[j] = s[1 + j - 1]
    BY <1>2, <2>1, SubSeqProperties
  <2>3. (i - 1) - 1 + 1 = i - 1 /\ (~(1 <= i - 1) => i - 1 = 0) /\ \A j \in 1 .. i - 1 : 1 + j - 1 = j
    BY <1>2
  <2>. HIDE DEF a
  <2>. QED
    BY <2>2, <2>3
<1>4. b \in Seq(S) /\ Len(b) = n - i /\ \A j \in 1 .. n - i : b[j] = s[i + j]
  <2>1. \A j \in i + 1 .. n : s[j] \in S
    BY <1>1, <1>2
  <2>2. /\ b \in Seq(S) /\ Len(b) = IF i + 1 <= n THEN n - (i + 1) + 1 ELSE 0
        /\ \A j \in 1 .. n - (i + 1) + 1 : b[j] = s[(i + 1) + j - 1]
    BY <1>1, <1>2, <2>1, SubSeqProperties
  <2>3. /\ n - (i + 1) + 1 = n - i /\ (~(i + 1 <= n) => n - i = 0)
        /\ \A j \in 1 .. n - i : (i + 1) + j - 1 = i + j
    <3>. HIDE DEF n
    <3>. QED
      BY <1>1, <1>2
  <2>. HIDE DEF b, n
  <2>. QED
    BY <2>2, <2>3
<1>5. RemoveAt(s, i) = u
  BY DEF RemoveAt
<1>. HIDE DEF a, b, n
<1>6. /\ u \in Seq(S) /\ Len(u) = n - 1 /\ DOMAIN u = 1 .. n - 1
      /\ \A j \in 1 .. n - 1 : u[j] = IF j < i THEN s[j] ELSE s[j + 1]
  <2>1. /\ u \in Seq(S) /\ Len(u) = Len(a) + Len(b)
        /\ \A j \in 1 .. Len(a) + Len(b) : u[j] = IF j <= Len(a) THEN a[j] ELSE b[j - Len(a)]
    BY <1>3, <1>4, ConcatProperties
  <2>2. Len(a) + Len(b) = n - 1 /\ Len(a) = i - 1
    BY <1>1, <1>2, <1>3, <1>4
  <2>. HIDE DEF u
  <2>3. ASSUME NEW j \in 1 .. n - 1
        PROVE  u[j] = IF j < i THEN s[j] ELSE s[j + 1]
    <3>1. j \in Nat /\ (j < i <=> j <= i - 1)
      BY <1>1, <1>2
    <3>2. CASE j < i
      <4>1. j \in 1 .. i - 1
        BY <3>1, <3>2, <1>2
      <4>. QED
        BY <1>3, <2>1, <2>2, <2>3, <3>1, <3>2, <4>1
    <3>3. CASE ~(j < i)
      <4>1. j - (i - 1) \in 1 .. n - i /\ i + (j - (i - 1)) = j + 1
        BY <1>1, <1>2, <2>3, <3>1, <3>3
      <4>2. b[j - (i - 1)] = s[j + 1]
        BY <1>4, <4>1
      <4>. QED
        BY <2>1, <2>2, <2>3, <3>1, <3>3, <4>2
    <3>. QED
      BY <3>2, <3>3
  <2>4. DOMAIN u = 1 .. n - 1
    BY <2>1, <2>2, LenProperties
  <2>. QED
    BY <2>1, <2>2, <2>3, <2>4
<1>. HIDE DEF u
<1>7. \A j, k \in 1 .. n : s[j] = s[k] => j = k
  BY <1>1 DEF IsInjective
<1>8. \A j \in 1 .. n - 1 : j \in 1 .. n /\ j + 1 \in 1 .. n
  BY <1>1
<1>9. IsInjective(u)
  <2>1. SUFFICES ASSUME NEW j \in 1 .. n - 1, NEW k \in 1 .. n - 1, u[j] = u[k]
                 PROVE  j = k
    BY <1>6 DEF IsInjective
  <2>. DEFINE place(x) == IF x < i THEN x ELSE x + 1
  <2>2. place(j) \in 1 .. n /\ place(k) \in 1 .. n
    BY <1>8
  <2>3. u[j] = s[place(j)] /\ u[k] = s[place(k)]
    BY <1>6
  <2>4. place(j) = place(k)
    <3>. HIDE DEF place
    <3>. QED
      BY <1>7, <2>1, <2>2, <2>3
  <2>. QED
    BY <1>1, <1>2, <2>4
<1>10. Range(u) = Range(s) \ {s[i]}
  <2>1. ASSUME NEW j \in 1 .. n - 1
        PROVE  u[j] \in Range(s) \ {s[i]}
    <3>1. CASE j < i
      <4>1. j # i /\ u[j] = s[j]
        BY <1>2, <1>6, <3>1
      <4>. QED
        BY <1>1, <1>2, <1>7, <1>8, <4>1 DEF Range
    <3>2. CASE ~(j < i)
      <4>1. j + 1 # i /\ u[j] = s[j + 1]
        BY <1>1, <1>2, <1>6, <3>2
      <4>. QED
        BY <1>1, <1>2, <1>7, <1>8, <4>1 DEF Range
    <3>. QED
      BY <3>1, <3>2
  <2>2. ASSUME NEW j \in 1 .. n, s[j] # s[i]
        PROVE  s[j] \in Range(u)
    <3>1. CASE j < i
      <4>1. j \in 1 .. n - 1 /\ u[j] = s[j]
        BY <1>1, <1>2, <1>6, <3>1
      <4>. QED
        BY <1>6, <4>1 DEF Range
    <3>2. CASE ~(j < i)
      <4>1. j # i
        BY <2>2
      <4>2. j - 1 \in 1 .. n - 1 /\ ~(j - 1 < i) /\ (j - 1) + 1 = j
        BY <1>1, <1>2, <3>2, <4>1
      <4>3. u[j - 1] = s[j]
        BY <1>6, <4>2
      <4>. QED
        BY <1>6, <4>2, <4>3 DEF Range
    <3>. QED
      BY <3>1, <3>2
  <2>3. \A y \in Range(u) : y \in Range(s) \ {s[i]}
    BY <1>6, <2>1 DEF Range
  <2>4. \A y \in Range(s) \ {s[i]} : y \in Range(u)
    BY <1>1, <2>2 DEF Range
  <2>. QED
    BY <2>3, <2>4
<1>. QED
  <2>1. i \in 1 .. n
    BY DEF n
  <2>. QED
    BY <1>1, <1>5, <1>6, <1>9, <1>10, <2>1 DEF Range

SpellsIn(s) == {i \in DOMAIN s : s[i].how # "ability"}
SpellCards(s) == {s[i].card : i \in SpellsIn(s)}

(* An ability is a creature's, and a card is on the stack once. *)
StackFits(s) ==
  /\ \A i \in DOMAIN s : s[i].card \in IF s[i].how = "ability" THEN Fielded ELSE Cards
  /\ \A i, j \in SpellsIn(s) : s[i].card = s[j].card => i = j

(* What an entry adds to the stack. *)
Adds(e) == IF e.how = "ability" THEN {} ELSE {e.card}

LEMMA PushFits ==
  ASSUME NEW s \in Seq(Entries), StackFits(s), NEW e \in Entries,
         e.card \in IF e.how = "ability" THEN Fielded ELSE Cards \ SpellCards(s)
  PROVE  /\ Append(s, e) \in Seq(Entries) /\ StackFits(Append(s, e))
         /\ SpellCards(Append(s, e)) = SpellCards(s) \cup Adds(e)
         /\ Len(Append(s, e)) = Len(s) + 1 /\ Last(Append(s, e)) = e
<1>. DEFINE t == Append(s, e)
            n == Len(s)
<1>1. /\ t \in Seq(Entries) /\ Len(t) = n + 1 /\ t[n + 1] = e
      /\ \A i \in 1 .. n : t[i] = s[i]
      /\ n \in Nat /\ DOMAIN s = 1 .. n /\ DOMAIN t = 1 .. n + 1
  BY AppendProperties, LenProperties
<1>2. Last(t) = e
  BY <1>1 DEF Last
<1>. HIDE DEF t, n
<1>3. \A i \in 1 .. n + 1 : i \in 1 .. n \/ i = n + 1
  BY <1>1
<1>4. n + 1 \in 1 .. n + 1 /\ \A i \in 1 .. n : i \in 1 .. n + 1
  BY <1>1
<1>5. \A i \in DOMAIN t : t[i].card \in IF t[i].how = "ability" THEN Fielded ELSE Cards
  BY <1>1, <1>3 DEF StackFits
<1>6. \A i \in SpellsIn(t) : (i \in SpellsIn(s) /\ t[i] = s[i]) \/ (i = n + 1 /\ e.how # "ability")
  BY <1>1, <1>3 DEF SpellsIn
<1>7. \A i \in SpellsIn(s) : i \in SpellsIn(t) /\ t[i] = s[i]
  BY <1>1, <1>4 DEF SpellsIn
<1>8. \A i, j \in SpellsIn(t) : t[i].card = t[j].card => i = j
  <2>1. \A i \in SpellsIn(s) : e.how # "ability" => s[i].card # e.card
    BY DEF SpellCards
  <2>. QED
    BY <1>1, <1>6, <2>1 DEF StackFits
<1>9. SpellCards(t) = SpellCards(s) \cup Adds(e)
  <2>1. \A c \in SpellCards(t) : c \in SpellCards(s) \cup Adds(e)
    BY <1>1, <1>6 DEF SpellCards, Adds
  <2>2. \A c \in SpellCards(s) : c \in SpellCards(t)
    BY <1>7 DEF SpellCards
  <2>3. e.how # "ability" => e.card \in SpellCards(t)
    BY <1>1, <1>4 DEF SpellCards, SpellsIn
  <2>. QED
    BY <2>1, <2>2, <2>3 DEF Adds
<1>. QED
  BY <1>1, <1>2, <1>5, <1>8, <1>9 DEF StackFits, t, n

LEMMA PopFits ==
  ASSUME NEW s \in Seq(Entries), StackFits(s), s # <<>>
  PROVE  /\ Front(s) \in Seq(Entries) /\ StackFits(Front(s)) /\ Last(s) \in Entries
         /\ SpellCards(Front(s)) = SpellCards(s) \ Adds(Last(s))
         /\ Adds(Last(s)) \subseteq SpellCards(s)
         /\ Last(s).card \in IF Last(s).how = "ability" THEN Fielded ELSE Cards
         /\ Len(Front(s)) < Len(s)
<1>. DEFINE n == Len(s)
            t == Front(s)
            e == Last(s)
<1>1. n \in Nat /\ n # 0 /\ DOMAIN s = 1 .. n /\ \A i \in 1 .. n : s[i] \in Entries
  BY LenProperties, ElementOfSeq, EmptySeq
<1>2. e = s[n] /\ n \in 1 .. n /\ n - 1 \in Nat /\ n - 1 < n
  BY <1>1 DEF Last
<1>3. t \in Seq(Entries) /\ Len(t) = n - 1 /\ \A i \in 1 .. n - 1 : t[i] = s[i]
  <2>1. \A i \in 1 .. n - 1 : s[i] \in Entries
    BY <1>1
  <2>2. /\ SubSeq(s, 1, n - 1) \in Seq(Entries)
        /\ Len(SubSeq(s, 1, n - 1)) = IF 1 <= n - 1 THEN (n - 1) - 1 + 1 ELSE 0
        /\ \A i \in 1 .. (n - 1) - 1 + 1 : SubSeq(s, 1, n - 1)[i] = s[1 + i - 1]
    BY <1>1, <2>1, SubSeqProperties
  <2>3. /\ (n - 1) - 1 + 1 = n - 1 /\ (~(1 <= n - 1) => n - 1 = 0)
        /\ \A i \in 1 .. n - 1 : 1 + i - 1 = i
    <3>. HIDE DEF n
    <3>. QED
      BY <1>1, <1>2
  <2>4. t = SubSeq(s, 1, n - 1)
    BY DEF Front
  <2>. HIDE DEF t, n
  <2>. QED
    BY <2>2, <2>3, <2>4
<1>4. DOMAIN t = 1 .. n - 1
  BY <1>3, LenProperties
<1>. HIDE DEF t, n, e
<1>5. \A i \in 1 .. n : i \in 1 .. n - 1 \/ i = n
  BY <1>1
<1>6. \A i \in 1 .. n - 1 : i \in 1 .. n /\ i # n
  BY <1>1
<1>7. \A i \in SpellsIn(t) : i \in SpellsIn(s) /\ i # n /\ t[i] = s[i]
  BY <1>1, <1>3, <1>4, <1>6 DEF SpellsIn
<1>8. \A i \in SpellsIn(s) : (i = n /\ e.how # "ability") \/ (i \in SpellsIn(t) /\ t[i] = s[i])
  BY <1>1, <1>2, <1>3, <1>4, <1>5 DEF SpellsIn
<1>9. e.how # "ability" => n \in SpellsIn(s)
  BY <1>1, <1>2 DEF SpellsIn
<1>10. StackFits(t)
  <2>1. \A i \in DOMAIN t : t[i].card \in IF t[i].how = "ability" THEN Fielded ELSE Cards
    BY <1>1, <1>3, <1>4, <1>6 DEF StackFits
  <2>2. \A i, j \in SpellsIn(t) : t[i].card = t[j].card => i = j
    BY <1>7 DEF StackFits
  <2>. QED
    BY <2>1, <2>2 DEF StackFits
<1>11. SpellCards(t) = SpellCards(s) \ Adds(e)
  <2>1. \A c \in SpellCards(t) : c \in SpellCards(s) \ Adds(e)
    <3>1. SUFFICES ASSUME NEW i \in SpellsIn(t)
                   PROVE  t[i].card \in SpellCards(s) \ Adds(e)
      BY DEF SpellCards
    <3>2. i \in SpellsIn(s) /\ i # n /\ t[i] = s[i]
      BY <1>7
    <3>3. e.how # "ability" => s[i].card # e.card
      BY <1>2, <1>9, <3>2 DEF StackFits
    <3>. QED
      BY <3>2, <3>3 DEF SpellCards, Adds
  <2>2. \A c \in SpellCards(s) \ Adds(e) : c \in SpellCards(t)
    BY <1>2, <1>8 DEF SpellCards, Adds
  <2>. QED
    BY <2>1, <2>2
<1>12. Adds(e) \subseteq SpellCards(s)
  BY <1>2, <1>9 DEF Adds, SpellCards
<1>13. e.card \in IF e.how = "ability" THEN Fielded ELSE Cards
  BY <1>1, <1>2 DEF StackFits
<1>. QED
  BY <1>1, <1>2, <1>3, <1>10, <1>11, <1>12, <1>13 DEF t, e, n

-----------------------------------------------------------------------------
(* Mana: the invariant *)

(* Each of these cards is in one of the places, and only there. *)
Apart(S, A, B, C, D, E) ==
  \A c \in S : /\ c \in A \cup B \cup C \cup D \cup E
               /\ c \in A => c \notin B \cup C \cup D \cup E
               /\ c \in B => c \notin C \cup D \cup E
               /\ c \in C => c \notin D \cup E
               /\ c \in D => c \notin E

(* No card is in the graveyard or on the stack twice. *)
Placed(g, s, h, x, p) ==
  /\ IsInjective(g) /\ StackFits(s)
  /\ Apart(Cards, Range(g), SpellCards(s), h, x, p)

(* Types and books, nothing to undo, and every card in one place. *)
ManaInv == /\ ManaTypeOK /\ undo = <<>> /\ ManaAccounted
           /\ Placed(graveyard, stack, hand, exile, inPlay)

(* What costs no mana is settled with nothing. *)
LEMMA UnpaidFits ==
  ASSUME NEW cost \in Costs, pool \in [Kinds -> Nat], ~HasCost(cost)
  PROVE  SettlementOf(Unpaid, cost)
<1>1. cost.gen = 0 /\ cost.hyb = <<>> /\ \A c \in Colours : cost.col[c] = 0
  <2>1. cost.gen \in Nat /\ cost.col \in [Colours -> Nat]
    BY ValueOf
  <2>2. \A c \in Colours : cost.col[c] \in Nat
    BY <2>1
  <2>. QED
    BY <2>1, <2>2 DEF HasCost
<1>2. Len(cost.hyb) = 0
  BY <1>1
<1>3. ManaValue(cost) = 0
  BY <1>1, <1>2, KindsAre DEF ManaValue
<1>4. IsFiniteSet({}) /\ Cardinality({}) = 0
  BY FS_EmptySet
<1>5. Unpaid.ok = TRUE /\ Unpaid.pool = pool /\ Unpaid.lands = {}
  BY DEF Unpaid
<1>6. Total(pool) \in Nat
  BY TotalType
<1>7. Total(pool) = Total(pool) + 0 - 0 /\ 0 \in Nat /\ TRUE \in BOOLEAN
  BY <1>6
<1>8. Total(Unpaid.pool) = Total(pool) + Cardinality(Unpaid.lands)
                           - IF Unpaid.ok THEN ManaValue(cost) ELSE 0
  BY <1>3, <1>4, <1>5, <1>7
<1>. QED
  BY <1>3, <1>4, <1>5, <1>7, <1>8 DEF SettlementOf

(* Permanents are finitely many. *)
LEMMA TableFinite ==
  ASSUME ManaTypeOK
  PROVE  \A S \in SUBSET (tapped \cup inPlay) : IsFiniteSet(S)
<1>1. IsFiniteSet(LandCards \cup Fielded \cup Cards)
  BY CardsAreCards, FS_Union
<1>2. IsFiniteSet(Permanents)
  BY <1>1 DEF Permanents
<1>3. tapped \cup inPlay \subseteq Permanents
  BY DEF ManaTypeOK
<1>. QED
  BY <1>2, <1>3, FS_Subset

(* The account after a settlement. *)
Due(r) == account + Total(pool) + Cardinality(r.lands) - Total(r.pool)

(* The books agree: the lands of a settlement and the permanents H, lent for the *)
(* action, are tapped, and the account a has grown by what was paid.           *)
Booked(r, cost, H, a) ==
  /\ a \in Nat /\ a - account = IF r.ok THEN ManaValue(cost) ELSE 0
  /\ Cardinality((tapped \cup r.lands \cup H) \ (lent \cup H)) = Total(r.pool) + a
  /\ lent \cup H \subseteq tapped \cup r.lands \cup H
  /\ tapped \cup r.lands \subseteq inPlay /\ r.pool \in [Kinds -> Nat]

LEMMA Charged ==
  ASSUME ManaTypeOK, ManaAccounted, NEW r, NEW cost, SettlementOf(r, cost),
         NEW H, H \cap tapped = {}, H \cap LandCards = {}
  PROVE  Booked(r, cost, H, Due(r))
<1>. DEFINE given == tapped \ lent
            total == Total(pool)
            rest == Total(r.pool)
            fee == IF r.ok THEN ManaValue(cost) ELSE 0
            count == Cardinality(r.lands)
            a == Due(r)
<1>1. /\ lent \subseteq tapped /\ tapped \subseteq inPlay /\ account \in Nat
      /\ pool \in [Kinds -> Nat]
  BY DEF ManaTypeOK
<1>2. /\ r.lands \subseteq LandCards \cap inPlay /\ r.lands \cap tapped = {} /\ IsFiniteSet(r.lands)
      /\ r.pool \in [Kinds -> Nat] /\ rest = total + count - fee
  BY DEF SettlementOf, UntappedLands
<1>3. fee \in Nat
  BY DEF SettlementOf
<1>4. total \in Nat /\ rest \in Nat /\ count \in Nat
  BY <1>1, <1>2, TotalType, FS_CardinalityType
<1>5. Cardinality(given) = total + account /\ IsFiniteSet(given)
  BY <1>1, TableFinite DEF ManaAccounted
<1>6. (tapped \cup r.lands \cup H) \ (lent \cup H) = given \cup r.lands
  BY <1>1, <1>2
<1>7. Cardinality(given \cup r.lands) = Cardinality(given) + count
  <2>1. given \cap r.lands = {}
    BY <1>2
  <2>2. Cardinality(given \cup r.lands)
          = Cardinality(given) + Cardinality(r.lands) - Cardinality(given \cap r.lands)
    BY <1>2, <1>5, FS_Union
  <2>3. Cardinality(given \cap r.lands) = 0
    BY <2>1, FS_EmptySet
  <2>4. Cardinality(given) \in Nat
    BY <1>1, <1>4, <1>5
  <2>. QED
    BY <1>4, <2>2, <2>3, <2>4
<1>8. a = account + total + count - rest
  BY DEF Due
<1>. HIDE DEF given, total, rest, fee, count, a
<1>9. a \in Nat /\ a - account = fee /\ Cardinality(given) + count = rest + a
  BY <1>1, <1>2, <1>3, <1>4, <1>5, <1>8
<1>. QED
  BY <1>1, <1>2, <1>6, <1>7, <1>9 DEF Booked, rest, fee, a

-----------------------------------------------------------------------------
(* Mana: every action keeps the invariant *)

LEMMA ManaInvInit ==
  ASSUME ManaInit
  PROVE  ManaInv
<1>1. Total(pool) = 0 /\ pool \in [Kinds -> Nat]
  BY TotalType DEF ManaInit
<1>2. <<>> \in Seq(Cards) /\ <<>> \in Seq(Entries) /\ <<>> \in Seq(LandCards)
  BY EmptySeq
<1>3. DOMAIN << >> = {}
  OBVIOUS
<1>4. IsInjective(<<>>) /\ Range(<<>>) = {} /\ StackFits(<<>>) /\ SpellCards(<<>>) = {}
  BY <1>3 DEF IsInjective, Range, StackFits, SpellsIn, SpellCards
<1>5. ManaTypeOK
  BY <1>1, <1>2 DEF ManaInit, ManaTypeOK, Permanents
<1>6. ManaAccounted
  <2>1. tapped \ lent = {}
    BY DEF ManaInit
  <2>2. Cardinality(tapped \ lent) = 0
    BY <2>1, FS_EmptySet
  <2>. QED
    BY <1>1, <2>2 DEF ManaAccounted, ManaInit
<1>7. Placed(graveyard, stack, hand, exile, inPlay)
  BY <1>4, CardsAreCards DEF Placed, Apart, ManaInit
<1>. QED
  BY <1>5, <1>6, <1>7 DEF ManaInv, ManaInit

(* A new entry. *)
LEMMA EntryFits ==
  ASSUME NEW c \in Cards \cup Fielded, NEW x \in 0 .. MaxX, NEW kicked \in BOOLEAN,
         NEW how \in {"cast", "flashback", "adventure", "ability"}
  PROVE  /\ Entry(c, how, x, kicked) \in Entries /\ Entry(c, how, x, kicked).card = c
         /\ Entry(c, how, x, kicked).how = how /\ Entry(c, how, x, kicked).x = x
         /\ Entry(c, how, x, kicked).kicked = kicked
BY DEF Entry, Entries

LEMMA PlayLandKeeps ==
  ASSUME ManaInv, NEW l \in LandCards, PlayLand(l)
  PROVE  ManaInv'
<1>1. ManaTypeOK'
  BY DEF ManaInv, ManaTypeOK, PlayLand, Permanents, books
<1>2. ManaAccounted'
  BY DEF ManaInv, ManaAccounted, PlayLand, books
<1>3. Placed(graveyard, stack, hand, exile, inPlay)'
  <2>1. Apart(Cards, Range(graveyard), SpellCards(stack), hand \ {l}, exile, inPlay \cup {l})
    BY CardsAreCards DEF ManaInv, Placed, Apart
  <2>. QED
    BY <2>1 DEF ManaInv, Placed, PlayLand
<1>. QED
  BY <1>1, <1>2, <1>3 DEF ManaInv, PlayLand

LEMMA ManaAbilityKeeps ==
  ASSUME ManaInv, NEW p \in LandCards \cup Fielded, ManaAbility(p)
  PROVE  ManaInv'
<1>1. /\ p \in inPlay /\ p \notin tapped /\ lent \subseteq tapped /\ account \in Nat
      /\ pool \in [Kinds -> Nat] /\ pool' = Tap(pool, p) /\ tapped' = tapped \cup {p}
      /\ lent' = lent /\ account' = account
  BY DEF ManaInv, ManaTypeOK, ManaAbility, MayTap, books
<1>2. produces[p] \in Kinds
  BY CardsAreCards DEF ManaAbility
<1>3. pool' \in [Kinds -> Nat] /\ Total(pool') = Total(pool) + 1
  BY <1>1, <1>2, TapGives
<1>4. ManaTypeOK'
  BY <1>1, <1>3 DEF ManaInv, ManaTypeOK, ManaAbility, cards
<1>5. ManaAccounted'
  <2>1. tapped' \ lent' = (tapped \ lent) \cup {p} /\ p \notin tapped \ lent
    BY <1>1
  <2>2. IsFiniteSet(tapped \ lent)
    BY TableFinite DEF ManaInv
  <2>3. Cardinality(tapped' \ lent') = Cardinality(tapped \ lent) + 1
    BY <2>1, <2>2, FS_AddElement
  <2>4. Cardinality(tapped \ lent) = Total(pool) + account /\ Total(pool) \in Nat
    BY <1>1, TotalType DEF ManaInv, ManaAccounted
  <2>. QED
    BY <1>1, <1>3, <2>3, <2>4 DEF ManaAccounted
<1>6. Placed(graveyard, stack, hand, exile, inPlay)'
  BY DEF ManaInv, Placed, ManaAbility, cards
<1>. QED
  BY <1>4, <1>5, <1>6 DEF ManaInv, ManaAbility

(* The top entry leaves the stack: a card to one of the places, an ability to none. *)
LEMMA LeavesKeep ==
  ASSUME ManaInv, stack # <<>>, NEW zone, zone \in {"inPlay", "exile", "graveyard", "nowhere"},
         zone = "nowhere" <=> Last(stack).how = "ability", LeaveStack(Last(stack), zone)
  PROVE  ManaInv'
<1>. DEFINE e == Last(stack)
<1>1. /\ stack' = Front(stack) /\ inPlay' = IF zone = "inPlay" THEN inPlay \cup {e.card} ELSE inPlay
      /\ sick' = IF zone = "inPlay" THEN sick \cup {e.card} ELSE sick
      /\ exile' = IF zone = "exile" THEN exile \cup {e.card} ELSE exile
      /\ graveyard' = IF zone = "graveyard" THEN Append(graveyard, e.card) ELSE graveyard
      /\ pool' = pool /\ hand' = hand /\ tapped' = tapped /\ landPlayed' = landPlayed
      /\ when' = when /\ undo' = undo /\ account' = account /\ lent' = lent
  BY DEF LeaveStack, books
<1>2. /\ stack \in Seq(Entries) /\ StackFits(stack) /\ graveyard \in Seq(Cards)
      /\ IsInjective(graveyard)
      /\ Apart(Cards, Range(graveyard), SpellCards(stack), hand, exile, inPlay)
  BY DEF ManaInv, ManaTypeOK, Placed
<1>3. /\ stack' \in Seq(Entries) /\ StackFits(stack')
      /\ SpellCards(stack') = SpellCards(stack) \ Adds(e) /\ Adds(e) \subseteq SpellCards(stack)
      /\ e.card \in IF e.how = "ability" THEN Fielded ELSE Cards
  BY <1>1, <1>2, PopFits
<1>4. zone # "nowhere" => e.card \in Cards /\ Adds(e) = {e.card}
  BY <1>3 DEF Adds
<1>5. zone = "nowhere" => Adds(e) = {}
  BY DEF Adds
<1>6. zone = "graveyard" => e.card \notin Range(graveyard)
  BY <1>2, <1>3, <1>4 DEF Apart
<1>. HIDE DEF e
<1>7. /\ graveyard' \in Seq(Cards) /\ IsInjective(graveyard')
      /\ Range(graveyard') = IF zone = "graveyard" THEN Range(graveyard) \cup {e.card}
                             ELSE Range(graveyard)
  <2>1. CASE zone = "graveyard"
    <3>1. graveyard' = Append(graveyard, e.card) /\ e.card \in Cards /\ e.card \notin Range(graveyard)
      BY <1>1, <1>4, <1>6, <2>1
    <3>. QED
      BY <1>2, <2>1, <3>1, AppendOnce
  <2>2. CASE zone # "graveyard"
    BY <1>1, <1>2, <2>2
  <2>. QED
    BY <2>1, <2>2
<1>8. ManaTypeOK'
  BY <1>1, <1>3, <1>4, <1>7 DEF ManaInv, ManaTypeOK, Permanents
<1>9. ManaAccounted'
  BY <1>1 DEF ManaInv, ManaAccounted
<1>10. Apart(Cards, Range(graveyard'), SpellCards(stack'), hand', exile', inPlay')
  <2>1. CASE zone = "nowhere"
    BY <1>1, <1>2, <1>3, <1>5, <1>7, <2>1 DEF Apart
  <2>2. CASE zone = "inPlay"
    BY <1>1, <1>2, <1>3, <1>4, <1>7, <2>2 DEF Apart
  <2>3. CASE zone = "exile"
    BY <1>1, <1>2, <1>3, <1>4, <1>7, <2>3 DEF Apart
  <2>4. CASE zone = "graveyard"
    BY <1>1, <1>2, <1>3, <1>4, <1>7, <2>4 DEF Apart
  <2>. QED
    BY <2>1, <2>2, <2>3, <2>4
<1>. QED
  BY <1>1, <1>3, <1>7, <1>8, <1>9, <1>10 DEF ManaInv, Placed

LEMMA ResolveKeeps ==
  ASSUME ManaInv, Resolve
  PROVE  ManaInv'
<1>. DEFINE e == Last(stack)
            zone == IF e.how = "ability" THEN "nowhere" ELSE Where(e)
<1>1. stack # <<>> /\ LeaveStack(e, zone)
  BY DEF Resolve
<1>2. Where(e) \in {"inPlay", "exile", "graveyard"}
  BY DEF Where
<1>. QED
  BY <1>1, <1>2, LeavesKeep

LEMMA FizzleKeeps ==
  ASSUME ManaInv, Fizzle
  PROVE  ManaInv'
BY LeavesKeep DEF Fizzle

(* The parts of the turn: pools are cleared onto the account, and at the untap  *)
(* step everything starts again.                                              *)
LEMMA TurnKeeps ==
  ASSUME ManaInv, EndMainPhase \/ EndTurn \/ UntapStep
  PROVE  ManaInv'
<1>1. Placed(graveyard, stack, hand, exile, inPlay)'
  BY DEF ManaInv, Placed, EndMainPhase, EndTurn, UntapStep, cards
<1>2. undo' = <<>>
  BY DEF ManaInv, EndMainPhase, EndTurn, UntapStep
<1>3. Empty \in [Kinds -> Nat] /\ Total(Empty) = 0 /\ Total(pool) \in Nat /\ account \in Nat
  BY TotalType DEF ManaInv, ManaTypeOK
<1>4. CASE EndMainPhase
  <2>1. ManaTypeOK'
    BY <1>4 DEF ManaInv, ManaTypeOK, EndMainPhase, cards, books
  <2>2. ManaAccounted'
    BY <1>4 DEF ManaInv, ManaAccounted, EndMainPhase, books
  <2>. QED
    BY <1>1, <1>2, <2>1, <2>2 DEF ManaInv
<1>5. CASE EndTurn
  <2>1. ManaTypeOK'
    BY <1>3, <1>5 DEF ManaInv, ManaTypeOK, EndTurn, cards
  <2>2. ManaAccounted'
    <3>1. tapped' = tapped /\ lent' = lent /\ pool' = Empty /\ account' = account + Total(pool)
      BY <1>5 DEF EndTurn
    <3>2. Cardinality(tapped \ lent) = Total(pool) + account
      BY DEF ManaInv, ManaAccounted
    <3>3. Cardinality(tapped' \ lent') = Total(pool') + account'
      BY <1>3, <3>1, <3>2
    <3>. QED
      BY <3>3 DEF ManaAccounted
  <2>. QED
    BY <1>1, <1>2, <2>1, <2>2 DEF ManaInv
<1>6. CASE UntapStep
  <2>1. ManaTypeOK'
    BY <1>3, <1>6 DEF ManaInv, ManaTypeOK, UntapStep, cards
  <2>2. ManaAccounted'
    <3>1. tapped' \ lent' = {} /\ pool' = Empty /\ account' = 0
      BY <1>6 DEF UntapStep
    <3>2. Cardinality(tapped' \ lent') = 0
      BY <3>1, FS_EmptySet
    <3>. QED
      BY <1>3, <3>1, <3>2 DEF ManaAccounted
  <2>. QED
    BY <1>1, <1>2, <2>1, <2>2 DEF ManaInv
<1>. QED
  BY <1>4, <1>5, <1>6

(* There is nothing to undo: the callers of auto_tap_lands have cleared it. *)
LEMMA UndoKeeps ==
  ASSUME ManaInv, Undo \/ UNCHANGED manaVars
  PROVE  ManaInv'
<1>1. UNCHANGED manaVars
  BY DEF ManaInv, Undo
<1>. QED
  BY <1>1 DEF manaVars, cards, table, books, ManaInv, ManaTypeOK, ManaAccounted, Placed

-----------------------------------------------------------------------------
(* Mana: what is paid for *)

(* An entry comes to the stack when its price is paid, else nothing does. *)
LEMMA Pushed ==
  ASSUME ManaInv, NEW r, r.ok \in BOOLEAN, NEW e \in Entries, Push(r, e),
         e.card \in IF e.how = "ability" THEN Fielded ELSE Cards \ SpellCards(stack)
  PROVE  /\ stack' \in Seq(Entries) /\ StackFits(stack')
         /\ r.ok => /\ SpellCards(stack') = SpellCards(stack) \cup Adds(e) /\ Last(stack') = e
         /\ ~r.ok => stack' = stack /\ SpellCards(stack') = SpellCards(stack)
                     /\ ~(Len(stack') > Len(stack))
<1>1. stack \in Seq(Entries) /\ StackFits(stack) /\ Len(stack) \in Nat
  BY LenProperties DEF ManaInv, ManaTypeOK, Placed
<1>2. CASE r.ok
  <2>1. stack' = Append(stack, e)
    BY <1>2 DEF Push
  <2>. QED
    BY <1>1, <1>2, <2>1, PushFits
<1>3. CASE ~r.ok
  <2>1. stack' = stack
    BY <1>3 DEF Push
  <2>. QED
    BY <1>1, <1>3, <2>1
<1>. QED
  BY <1>2, <1>3

(* Paid in mana alone. *)
LEMMA PaidInMana ==
  ASSUME NEW m \in Nat, account' - account = m,
         exile' = exile, (lent' \ lent) \subseteq {Last(stack').card}, FullPrice(Last(stack')) = m
  PROVE  PaidFor
<1>1. exile' \ exile = {} /\ (lent' \ lent) \ {Last(stack').card} = {}
  OBVIOUS
<1>2. Cardinality(exile' \ exile) = 0 /\ Cardinality((lent' \ lent) \ {Last(stack').card}) = 0
  BY <1>1, FS_EmptySet
<1>3. m + 0 + 0 >= m /\ m + 0 = m
  OBVIOUS
<1>. QED
  BY <1>2, <1>3 DEF PaidFor

LEMMA FlashbackPays ==
  ASSUME ManaInv, NEW c \in Cards, Flashback(c)
  PROVE  ManaInv' /\ PaidFor
<1>. DEFINE cost == face[c].flashback
            e == Entry(c, "flashback", 0, FALSE)
<1>1. PICK i \in DOMAIN graveyard, r \in Settlements(cost) :
        /\ graveyard[i] = c
        /\ graveyard' = IF r.ok THEN RemoveAt(graveyard, i)
                        ELSE Append(RemoveAt(graveyard, i), c)
        /\ pool' = r.pool /\ Charge(r) /\ tapped' = tapped \cup r.lands
        /\ Push(r, e) /\ undo' = UndoAfter(r)
  BY DEF Flashback
<1>2. /\ hand' = hand /\ exile' = exile /\ inPlay' = inPlay /\ sick' = sick
      /\ landPlayed' = landPlayed /\ when' = when /\ lent' = lent
  BY DEF Flashback
<1>3. /\ graveyard \in Seq(Cards) /\ IsInjective(graveyard) /\ DOMAIN graveyard = 1 .. Len(graveyard)
      /\ Apart(Cards, Range(graveyard), SpellCards(stack), hand, exile, inPlay)
      /\ ManaTypeOK /\ ManaAccounted /\ pool \in [Kinds -> Nat]
  BY LenProperties DEF ManaInv, ManaTypeOK, Placed
<1>4. cost \in Costs
  BY CardsAreCards DEF Flashback, MaybeCosts
<1>5. SettlementOf(r, cost)
  BY <1>1, <1>3, <1>4, SettlementsFit
<1>6. r.ok \in BOOLEAN /\ ManaValue(cost) \in Nat
  BY <1>5 DEF SettlementOf
<1>7. /\ RemoveAt(graveyard, i) \in Seq(Cards) /\ IsInjective(RemoveAt(graveyard, i))
      /\ Range(RemoveAt(graveyard, i)) = Range(graveyard) \ {c} /\ c \in Range(graveyard)
  BY <1>1, <1>3, RemoveOnce
<1>8. /\ graveyard' \in Seq(Cards) /\ IsInjective(graveyard')
      /\ Range(graveyard') = IF r.ok THEN Range(graveyard) \ {c} ELSE Range(graveyard)
  <2>1. CASE r.ok
    BY <1>1, <1>7, <2>1
  <2>2. CASE ~r.ok
    <3>1. graveyard' = Append(RemoveAt(graveyard, i), c) /\ c \notin Range(RemoveAt(graveyard, i))
      BY <1>1, <1>7, <2>2
    <3>2. /\ graveyard' \in Seq(Cards) /\ IsInjective(graveyard')
          /\ Range(graveyard') = Range(RemoveAt(graveyard, i)) \cup {c}
      BY <1>7, <3>1, AppendOnce
    <3>. QED
      BY <1>7, <2>2, <3>2
  <2>. QED
    BY <2>1, <2>2
<1>9. e \in Entries /\ e.card = c /\ e.how = "flashback"
  <2>1. 0 \in 0 .. MaxX /\ c \in Cards \cup Fielded /\ FALSE \in BOOLEAN
    BY CardsAreCards
  <2>. QED
    BY <2>1 DEF Entry, Entries
<1>10. c \notin SpellCards(stack)
  BY <1>3, <1>7 DEF Apart
<1>11. Adds(e) = {c}
  BY <1>9 DEF Adds
<1>. HIDE DEF e
<1>12. /\ stack' \in Seq(Entries) /\ StackFits(stack')
       /\ r.ok => SpellCards(stack') = SpellCards(stack) \cup {c} /\ Last(stack') = e
       /\ ~r.ok => SpellCards(stack') = SpellCards(stack) /\ ~(Len(stack') > Len(stack))
  BY <1>1, <1>6, <1>9, <1>10, <1>11, Pushed
<1>13. Booked(r, cost, {}, account')
  <2>1. account' = Due(r)
    BY <1>1 DEF Charge, Due
  <2>2. {} \cap tapped = {} /\ {} \cap LandCards = {}
    OBVIOUS
  <2>. QED
    BY <1>3, <1>5, <2>1, <2>2, Charged
<1>14. ManaTypeOK'
  <2>1. <<>> \in Seq(LandCards)
    BY EmptySeq
  <2>. QED
    BY <1>1, <1>2, <1>3, <1>8, <1>12, <1>13, <2>1 DEF Booked, ManaTypeOK, UndoAfter
<1>15. ManaAccounted'
  <2>1. tapped' \ lent' = (tapped \cup r.lands \cup {}) \ (lent \cup {})
    BY <1>1, <1>2
  <2>. QED
    BY <1>1, <1>13, <2>1 DEF Booked, ManaAccounted
<1>16. Apart(Cards, Range(graveyard'), SpellCards(stack'), hand', exile', inPlay')
  <2>1. CASE r.ok
    BY <1>2, <1>3, <1>7, <1>8, <1>12, <2>1 DEF Apart
  <2>2. CASE ~r.ok
    BY <1>2, <1>3, <1>8, <1>12, <2>2
  <2>. QED
    BY <2>1, <2>2
<1>17. ManaInv'
  BY <1>1, <1>8, <1>12, <1>14, <1>15, <1>16 DEF ManaInv, Placed, UndoAfter
<1>18. PaidFor
  <2>1. CASE r.ok
    <3>1. FullPrice(Last(stack')) = ManaValue(cost)
      BY <1>9, <1>12, <2>1 DEF FullPrice
    <3>2. account' - account = ManaValue(cost) /\ (lent' \ lent) \subseteq {Last(stack').card}
      BY <1>2, <1>13, <2>1 DEF Booked
    <3>. QED
      BY <1>2, <1>6, <3>1, <3>2, PaidInMana
  <2>2. CASE ~r.ok
    BY <1>12, <2>2 DEF PaidFor
  <2>. QED
    BY <2>1, <2>2
<1>. QED
  BY <1>17, <1>18

LEMMA AdventurePays ==
  ASSUME ManaInv, NEW c \in Cards, Adventure(c)
  PROVE  ManaInv' /\ PaidFor
<1>. DEFINE cost == face[c].adventure
            e == Entry(c, "adventure", 0, FALSE)
            r == [ok |-> TRUE, lands |-> {}, pool |-> Paid(pool, cost)]
<1>1. /\ c \in hand /\ Payable(pool, cost)
      /\ pool' = r.pool /\ Charge(r) /\ hand' = HandAfter(c, r) /\ Push(r, e)
  BY DEF Adventure, InHand
<1>2. /\ graveyard' = graveyard /\ exile' = exile /\ inPlay' = inPlay /\ sick' = sick
      /\ landPlayed' = landPlayed /\ when' = when /\ lent' = lent /\ undo' = undo
      /\ tapped' = tapped
  BY DEF Adventure, table
<1>3. /\ Apart(Cards, Range(graveyard), SpellCards(stack), hand, exile, inPlay)
      /\ ManaTypeOK /\ ManaAccounted /\ pool \in [Kinds -> Nat]
  BY DEF ManaInv, ManaTypeOK, Placed
<1>4. cost \in Costs
  BY CardsAreCards DEF Adventure, MaybeCosts
<1>5. r.ok = TRUE /\ r.lands = {} /\ r.pool = Paid(pool, cost)
  OBVIOUS
<1>. HIDE DEF r
<1>6. SettlementOf(r, cost) /\ ManaValue(cost) \in Nat
  <2>1. /\ Paid(pool, cost) \in [Kinds -> Nat] /\ Total(Paid(pool, cost)) = Total(pool) - ManaValue(cost)
        /\ Total(pool) \in Nat /\ ManaValue(cost) \in Nat
    BY <1>1, <1>3, <1>4, PaidFits
  <2>2. IsFiniteSet({}) /\ Cardinality({}) = 0
    BY FS_EmptySet
  <2>3. Total(pool) - ManaValue(cost) = Total(pool) + 0 - ManaValue(cost)
    <3>. DEFINE t == Total(pool)
                v == ManaValue(cost)
    <3>1. t \in Nat /\ v \in Nat
      BY <2>1
    <3>. HIDE DEF t, v
    <3>2. t - v = t + 0 - v
      BY <3>1
    <3>. QED
      BY <3>2 DEF t, v
  <2>. QED
    BY <1>5, <2>1, <2>2, <2>3 DEF SettlementOf
<1>7. e \in Entries /\ e.card = c /\ e.how = "adventure"
  <2>1. 0 \in 0 .. MaxX /\ c \in Cards \cup Fielded /\ FALSE \in BOOLEAN
    BY CardsAreCards
  <2>. QED
    BY <2>1 DEF Entry, Entries
<1>8. c \notin SpellCards(stack) /\ Adds(e) = {c}
  BY <1>1, <1>3, <1>7 DEF Apart, Adds
<1>. HIDE DEF e
<1>9. /\ stack' \in Seq(Entries) /\ StackFits(stack')
      /\ SpellCards(stack') = SpellCards(stack) \cup {c} /\ Last(stack') = e
  <2>1. r.ok \in BOOLEAN /\ Push(r, e) /\ e.card \in Cards \ SpellCards(stack) /\ e.how # "ability"
    BY <1>1, <1>5, <1>7, <1>8
  <2>. QED
    BY <1>5, <1>7, <1>8, <2>1, Pushed
<1>10. Booked(r, cost, {}, account')
  <2>1. account' = Due(r)
    BY <1>1 DEF Charge, Due
  <2>2. {} \cap tapped = {} /\ {} \cap LandCards = {}
    OBVIOUS
  <2>. QED
    BY <1>3, <1>6, <2>1, <2>2, Charged
<1>11. hand' = hand \ {c}
  BY <1>1, <1>5 DEF HandAfter
<1>12. ManaTypeOK'
  BY <1>1, <1>2, <1>3, <1>9, <1>10, <1>11 DEF Booked, ManaTypeOK
<1>13. ManaAccounted'
  <2>1. tapped' \ lent' = (tapped \cup r.lands \cup {}) \ (lent \cup {})
    BY <1>2, <1>5
  <2>. QED
    BY <1>1, <1>10, <2>1 DEF Booked, ManaAccounted
<1>14. Apart(Cards, Range(graveyard'), SpellCards(stack'), hand', exile', inPlay')
  BY <1>1, <1>2, <1>3, <1>9, <1>11 DEF Apart
<1>15. ManaInv'
  BY <1>2, <1>9, <1>12, <1>13, <1>14 DEF ManaInv, Placed
<1>16. PaidFor
  <2>1. FullPrice(Last(stack')) = ManaValue(cost)
    BY <1>7, <1>9 DEF FullPrice
  <2>2. account' - account = ManaValue(cost) /\ (lent' \ lent) \subseteq {Last(stack').card}
    BY <1>2, <1>5, <1>10 DEF Booked
  <2>. QED
    BY <1>2, <1>6, <2>1, <2>2, PaidInMana
<1>. QED
  BY <1>15, <1>16

LEMMA ActivatePays ==
  ASSUME ManaInv, NEW p \in Fielded, Activate(p)
  PROVE  ManaInv' /\ PaidFor
<1>. DEFINE cost == ability[p]
            e == Entry(p, "ability", 0, FALSE)
<1>1. PICK r \in Settlements(cost) :
        /\ pool' = r.pool /\ Charge(r)
        /\ tapped' = tapped \cup r.lands \cup IF r.ok THEN {p} ELSE {}
        /\ lent' = IF r.ok THEN lent \cup {p} ELSE lent
        /\ Push(r, e) /\ undo' = UndoAfter(r)
  BY DEF Activate
<1>2. /\ hand' = hand /\ graveyard' = graveyard /\ exile' = exile /\ inPlay' = inPlay
      /\ sick' = sick /\ landPlayed' = landPlayed /\ when' = when
      /\ p \in inPlay /\ p \notin tapped
  BY DEF Activate, MayTap
<1>3. /\ Apart(Cards, Range(graveyard), SpellCards(stack), hand, exile, inPlay)
      /\ ManaTypeOK /\ ManaAccounted /\ pool \in [Kinds -> Nat]
  BY DEF ManaInv, ManaTypeOK, Placed
<1>4. cost \in Costs
  BY CardsAreCards DEF Activate, MaybeCosts
<1>5. SettlementOf(r, cost)
  BY <1>1, <1>3, <1>4, SettlementsFit
<1>6. r.ok \in BOOLEAN /\ ManaValue(cost) \in Nat
  BY <1>5 DEF SettlementOf
<1>7. e \in Entries /\ e.card = p /\ e.how = "ability"
  <2>1. 0 \in 0 .. MaxX /\ p \in Cards \cup Fielded /\ FALSE \in BOOLEAN
    BY CardsAreCards
  <2>. QED
    BY <2>1 DEF Entry, Entries
<1>8. Adds(e) = {}
  BY <1>7 DEF Adds
<1>. HIDE DEF e
<1>9. /\ stack' \in Seq(Entries) /\ StackFits(stack')
      /\ SpellCards(stack') = SpellCards(stack)
      /\ r.ok => Last(stack') = e
      /\ ~r.ok => ~(Len(stack') > Len(stack))
  <2>1. /\ stack' \in Seq(Entries) /\ StackFits(stack')
        /\ r.ok => SpellCards(stack') = SpellCards(stack) \cup Adds(e) /\ Last(stack') = e
        /\ ~r.ok => SpellCards(stack') = SpellCards(stack) /\ ~(Len(stack') > Len(stack))
    <3>1. e.card \in IF e.how = "ability" THEN Fielded ELSE Cards \ SpellCards(stack)
      BY <1>7
    <3>. QED
      BY <1>1, <1>6, <1>7, <3>1, Pushed
  <2>. QED
    BY <1>6, <1>8, <2>1
<1>. DEFINE H == IF r.ok THEN {p} ELSE {}
<1>10. H \cap tapped = {} /\ H \cap LandCards = {} /\ H \subseteq inPlay
  BY <1>2, CardsAreCards
<1>11. tapped' = tapped \cup r.lands \cup H /\ lent' = lent \cup H /\ H \subseteq {p}
  BY <1>1
<1>. HIDE DEF H
<1>12. Booked(r, cost, H, account')
  <2>1. account' = Due(r)
    BY <1>1 DEF Charge, Due
  <2>. QED
    BY <1>3, <1>5, <1>10, <2>1, Charged
<1>13. ManaTypeOK'
  <2>1. <<>> \in Seq(LandCards)
    BY EmptySeq
  <2>. QED
    BY <1>1, <1>2, <1>3, <1>9, <1>10, <1>11, <1>12, <2>1 DEF Booked, ManaTypeOK, UndoAfter
<1>14. ManaAccounted'
  BY <1>1, <1>11, <1>12 DEF Booked, ManaAccounted
<1>15. ManaInv'
  <2>1. Apart(Cards, Range(graveyard'), SpellCards(stack'), hand', exile', inPlay')
    BY <1>2, <1>3, <1>9
  <2>. QED
    BY <1>1, <1>2, <1>9, <1>13, <1>14, <2>1 DEF ManaInv, Placed, UndoAfter
<1>16. PaidFor
  <2>1. CASE r.ok
    <3>1. FullPrice(Last(stack')) = ManaValue(cost)
      BY <1>7, <1>9, <2>1 DEF FullPrice
    <3>2. account' - account = ManaValue(cost) /\ (lent' \ lent) \subseteq {Last(stack').card}
      BY <1>7, <1>9, <1>11, <1>12, <2>1 DEF Booked
    <3>. QED
      BY <1>2, <1>6, <3>1, <3>2, PaidInMana
  <2>2. CASE ~r.ok
    BY <1>9, <2>2 DEF PaidFor
  <2>. QED
    BY <2>1, <2>2
<1>. QED
  BY <1>15, <1>16

(* The creatures that help are in play and untapped, each once, and no lands. *)
LEMMA HelpersFit ==
  ASSUME ManaInv, NEW c \in Cards, NEW help \in Helpers(c)
  PROVE  /\ help \in Seq(Fielded \cup Cards) /\ Len(help) \in Nat
         /\ Range(help) \cap tapped = {} /\ Range(help) \cap LandCards = {}
         /\ Range(help) \subseteq inPlay
         /\ IsFiniteSet(Range(help)) /\ Cardinality(Range(help)) = Len(help)
<1>1. /\ help \in Seq(Fielded \cup Cards) /\ IsInjective(help)
      /\ Range(help) \subseteq (inPlay \ tapped) \cap (Fielded \cup Cards)
  <2>1. CASE help = <<>>
    <3>1. DOMAIN help = {} /\ help \in Seq(Fielded \cup Cards)
      BY <2>1, EmptySeq
    <3>. QED
      BY <3>1 DEF IsInjective, Range
  <2>2. CASE help # <<>>
    <3>1. PICK S \in SUBSET {p \in inPlay \ tapped : IsCreature(p)} : help \in SetToSeqs(S)
      BY <2>2 DEF Helpers
    <3>2. S \subseteq (inPlay \ tapped) \cap (Fielded \cup Cards)
      BY <3>1 DEF IsCreature
    <3>3. IsFiniteSet(S)
      BY <3>2, TableFinite DEF ManaInv
    <3>. DEFINE m == Cardinality(S)
    <3>4. m \in Nat /\ help \in [1 .. m -> S] /\ \A i, j \in 1 .. m : i # j => help[i] # help[j]
      BY <3>1, <3>3, FS_CardinalityType DEF SetToSeqs
    <3>. HIDE DEF m
    <3>5. help = [i \in 1 .. m |-> help[i]] /\ \A i \in 1 .. m : help[i] \in S
      BY <3>4
    <3>6. \A i \in 1 .. m : help[i] \in Fielded \cup Cards
      BY <3>2, <3>5
    <3>7. help \in Seq(Fielded \cup Cards)
      BY <3>4, <3>5, <3>6, IsASeq
    <3>8. DOMAIN help = 1 .. m
      BY <3>4
    <3>. QED
      BY <3>2, <3>4, <3>5, <3>7, <3>8 DEF IsInjective, Range
  <2>. QED
    BY <2>1, <2>2
<1>2. IsFiniteSet(Range(help)) /\ Cardinality(Range(help)) = Len(help)
  BY <1>1, RangeCount
<1>3. (Fielded \cup Cards) \cap LandCards = {}
  BY CardsAreCards
<1>. QED
  BY <1>1, <1>2, <1>3, LenProperties

(* Delve exiles the last n cards of the graveyard. *)
Delved(n) == Range(SubSeq(graveyard, Len(graveyard) - n + 1, Len(graveyard)))

LEMMA DelveFits ==
  ASSUME ManaInv, NEW n \in Nat, n <= Len(graveyard),
         graveyard' = SubSeq(graveyard, 1, Len(graveyard) - n)
  PROVE  /\ graveyard' \in Seq(Cards) /\ IsInjective(graveyard')
         /\ Range(graveyard') \cup Delved(n) = Range(graveyard)
         /\ Range(graveyard') \cap Delved(n) = {}
         /\ Cardinality(Delved(n)) = n /\ Delved(n) \subseteq Cards
<1>. DEFINE len == Len(graveyard)
            keep == len - n
            u == SubSeq(graveyard, keep + 1, len)
<1>1. graveyard \in Seq(Cards) /\ IsInjective(graveyard) /\ len \in Nat
  BY LenProperties DEF ManaInv, ManaTypeOK, Placed
<1>2. keep \in 0 .. len /\ len - keep = n
  <2>1. n <= len
    OBVIOUS
  <2>. HIDE DEF len
  <2>. QED
    BY <1>1, <2>1
<1>3. /\ SubSeq(graveyard, 1, keep) \in Seq(Cards) /\ IsInjective(SubSeq(graveyard, 1, keep))
      /\ u \in Seq(Cards) /\ IsInjective(u)
      /\ Range(SubSeq(graveyard, 1, keep)) \cup Range(u) = Range(graveyard)
      /\ Range(SubSeq(graveyard, 1, keep)) \cap Range(u) = {}
      /\ Len(u) = len - keep
  <2>. HIDE DEF keep
  <2>. QED
    BY <1>1, <1>2, Cut
<1>4. graveyard' = SubSeq(graveyard, 1, keep) /\ Delved(n) = Range(u)
  BY DEF Delved
<1>. HIDE DEF u, keep, len
<1>5. Cardinality(Range(u)) = Len(u)
  BY <1>3, RangeCount
<1>6. Range(u) \subseteq Cards
  <2>1. DOMAIN u = 1 .. Len(u) /\ \A i \in 1 .. Len(u) : u[i] \in Cards
    BY <1>3, ElementOfSeq, LenProperties
  <2>. QED
    BY <2>1 DEF Range
<1>. QED
  BY <1>2, <1>3, <1>4, <1>5, <1>6

(* How a price is met: what Convoke and Delve leave is to be paid in mana. *)
LEMMA PriceMet ==
  ASSUME NEW price \in Costs, NEW help \in Seq(Fielded \cup Cards), NEW d \in Nat,
         NEW n, n = Least(d, Convoked(price, help).gen),
         NEW cost, cost = [Convoked(price, help) EXCEPT !.gen = @ - n]
  PROVE  /\ cost \in Costs /\ n \in Nat /\ n <= d
         /\ ManaValue(cost) \in Nat /\ ManaValue(price) \in Nat
         /\ ManaValue(cost) + n + Len(help) >= ManaValue(price)
         /\ Len(help) = 0 => ManaValue(cost) + n = ManaValue(price)
<1>. DEFINE convoked == Convoked(price, help)
            v == ManaValue(convoked)
            w == ManaValue(cost)
            u == ManaValue(price)
            k == Len(help)
<1>1. convoked \in Costs /\ v + k >= u /\ k \in Nat
  BY ConvokedFits, LenProperties
<1>2. k = 0 => v = u
  BY ConvokedFits
<1>3. convoked.gen \in Nat
  BY <1>1, ValueOf
<1>4. n \in Nat /\ n <= d /\ n <= convoked.gen
  BY <1>3 DEF Least
<1>5. cost = [convoked EXCEPT !.gen = @ - n]
  OBVIOUS
<1>. HIDE DEF convoked
<1>6. cost \in Costs /\ ManaValue(cost) = ManaValue(convoked) - n
  <2>1. /\ [convoked EXCEPT !.gen = @ - n] \in Costs
        /\ ManaValue([convoked EXCEPT !.gen = @ - n]) = ManaValue(convoked) - n
    BY <1>1, <1>4, GenericLess
  <2>. QED
    BY <1>5, <2>1
<1>7. v \in Nat /\ w \in Nat /\ u \in Nat /\ w = v - n
  BY <1>1, <1>6, CostValue
<1>. HIDE DEF v, w, u, k
<1>8. w + n + k >= u /\ (k = 0 => w + n = u)
  BY <1>1, <1>2, <1>4, <1>7
<1>. QED
  BY <1>4, <1>6, <1>7, <1>8 DEF w, u, k

(* What an action for a card in the hand keeps, however it is settled. *)
LEMMA CastPays ==
  ASSUME ManaInv, NEW c \in Cards, Cast(c)
  PROVE  ManaInv' /\ PaidFor
<1>1. c \in hand
  BY DEF Cast, InHand
<1>2. inPlay' = inPlay /\ sick' = sick /\ landPlayed' = landPlayed /\ when' = when
  BY DEF Cast
<1>3. PICK x \in Xs(c), kicked \in Kicks(c), help \in Helpers(c), d \in Delves(c) :
       LET convoked == Convoked(Price(c, x, kicked), help)
           n == Least(d, convoked.gen)
           cost == [convoked EXCEPT !.gen = @ - n]
           keep == Len(graveyard) - n
       IN \E r \in IF HasCost(cost) THEN Settlements(cost) ELSE {Unpaid} :
            /\ pool' = r.pool /\ Charge(r)
            /\ tapped' = tapped \cup r.lands \cup Range(help)
            /\ lent' = lent \cup Range(help)
            /\ graveyard' = SubSeq(graveyard, 1, keep)
            /\ exile' = exile \cup Range(SubSeq(graveyard, keep + 1, Len(graveyard)))
            /\ hand' = HandAfter(c, r)
            /\ Push(r, Entry(c, "cast", x, kicked))
            /\ undo' = IF HasCost(cost) THEN UndoAfter(r) ELSE undo
  BY DEF Cast
<1>. DEFINE price == Price(c, x, kicked)
            n == Least(d, Convoked(price, help).gen)
            cost == [Convoked(price, help) EXCEPT !.gen = @ - n]
            e == Entry(c, "cast", x, kicked)
            H == Range(help)
            k == Len(help)
            v == ManaValue(cost)
            u == ManaValue(price)
<1>4. PICK r \in IF HasCost(cost) THEN Settlements(cost) ELSE {Unpaid} :
            /\ pool' = r.pool /\ Charge(r)
            /\ tapped' = tapped \cup r.lands \cup H
            /\ lent' = lent \cup H
            /\ graveyard' = SubSeq(graveyard, 1, Len(graveyard) - n)
            /\ exile' = exile \cup Delved(n)
            /\ hand' = HandAfter(c, r)
            /\ Push(r, e)
            /\ undo' = IF HasCost(cost) THEN UndoAfter(r) ELSE undo
  BY <1>3 DEF Delved
<1>5. /\ price \in Costs /\ x \in 0 .. MaxX /\ kicked \in BOOLEAN
      /\ d \in Nat /\ d <= Len(graveyard) /\ Len(graveyard) \in Nat
  <2>1. graveyard \in Seq(Cards)
    BY DEF ManaInv, ManaTypeOK
  <2>2. Len(graveyard) \in Nat
    BY <2>1, LenProperties
  <2>3. d \in 0 .. Len(graveyard)
    BY <2>2 DEF Delves
  <2>. QED
    BY <2>2, <2>3, PriceFits
<1>6. /\ help \in Seq(Fielded \cup Cards) /\ k \in Nat
      /\ H \cap tapped = {} /\ H \cap LandCards = {} /\ H \subseteq inPlay
      /\ IsFiniteSet(H) /\ Cardinality(H) = k
  BY HelpersFit
<1>. HIDE DEF price
<1>7. /\ cost \in Costs /\ n \in Nat /\ n <= d /\ v \in Nat /\ u \in Nat
      /\ v + n + k >= u
      /\ k = 0 => v + n = u
  BY <1>5, <1>6, PriceMet
<1>. HIDE DEF n, cost, H, v, u, k
<1>8. /\ Apart(Cards, Range(graveyard), SpellCards(stack), hand, exile, inPlay)
      /\ ManaTypeOK /\ ManaAccounted /\ pool \in [Kinds -> Nat] /\ undo = <<>>
  BY DEF ManaInv, ManaTypeOK, Placed
<1>9. SettlementOf(r, cost)
  <2>1. CASE HasCost(cost)
    BY <1>4, <1>7, <1>8, <2>1, SettlementsFit
  <2>2. CASE ~HasCost(cost)
    BY <1>4, <1>7, <1>8, <2>2, UnpaidFits
  <2>. QED
    BY <2>1, <2>2
<1>10. r.ok \in BOOLEAN
  BY <1>9 DEF SettlementOf
<1>11. n <= Len(graveyard)
  BY <1>5, <1>7
<1>12. /\ graveyard' \in Seq(Cards) /\ IsInjective(graveyard')
       /\ Range(graveyard') \cup Delved(n) = Range(graveyard)
       /\ Range(graveyard') \cap Delved(n) = {}
       /\ Cardinality(Delved(n)) = n /\ Delved(n) \subseteq Cards
  BY <1>4, <1>7, <1>11, DelveFits
<1>13. e \in Entries /\ e.card = c /\ e.how = "cast" /\ e.x = x /\ e.kicked = kicked
  <2>1. c \in Cards \cup Fielded
    OBVIOUS
  <2>. QED
    BY <1>5, <2>1 DEF Entry, Entries
<1>14. c \notin SpellCards(stack) /\ c \notin H /\ Adds(e) = {c}
  BY <1>1, <1>6, <1>8, <1>13 DEF Apart, Adds
<1>. HIDE DEF e
<1>15. /\ stack' \in Seq(Entries) /\ StackFits(stack')
       /\ r.ok => SpellCards(stack') = SpellCards(stack) \cup {c} /\ Last(stack') = e
       /\ ~r.ok => SpellCards(stack') = SpellCards(stack) /\ ~(Len(stack') > Len(stack))
  BY <1>4, <1>10, <1>13, <1>14, Pushed
<1>16. Booked(r, cost, H, account')
  <2>1. account' = Due(r)
    BY <1>4 DEF Charge, Due
  <2>. QED
    BY <1>6, <1>8, <1>9, <2>1, Charged
<1>17. hand' = IF r.ok THEN hand \ {c} ELSE hand
  BY <1>4 DEF HandAfter
<1>18. undo' = <<>>
  BY <1>4, <1>8 DEF UndoAfter
<1>19. ManaTypeOK'
  <2>1. <<>> \in Seq(LandCards)
    BY EmptySeq
  <2>. QED
    BY <1>2, <1>4, <1>6, <1>8, <1>12, <1>15, <1>16, <1>17, <1>18, <2>1 DEF Booked, ManaTypeOK
<1>20. ManaAccounted'
  BY <1>4, <1>16 DEF Booked, ManaAccounted
<1>21. Apart(Cards, Range(graveyard'), SpellCards(stack'), hand', exile', inPlay')
  <2>1. Apart(Cards, Range(graveyard'), SpellCards(stack), hand, exile', inPlay')
    BY <1>2, <1>4, <1>8, <1>12 DEF Apart
  <2>2. CASE r.ok
    BY <1>1, <1>15, <1>17, <2>1, <2>2 DEF Apart
  <2>3. CASE ~r.ok
    BY <1>15, <1>17, <2>1, <2>3
  <2>. QED
    BY <2>2, <2>3
<1>22. ManaInv'
  BY <1>12, <1>15, <1>18, <1>19, <1>20, <1>21 DEF ManaInv, Placed
<1>23. PaidFor
  <2>1. CASE r.ok
    <3>1. FullPrice(Last(stack')) = u /\ Last(stack').card = c
      BY <1>13, <1>15, <2>1 DEF FullPrice, price, u
    <3>2. account' - account = v
      BY <1>16, <2>1 DEF Booked, v
    <3>3. exile' \ exile = Delved(n)
      BY <1>4, <1>8, <1>12 DEF Apart
    <3>4. (lent' \ lent) \ {c} = H
      <4>1. lent \subseteq tapped
        BY <1>8 DEF ManaTypeOK
      <4>. QED
        BY <1>4, <1>6, <1>14, <4>1
    <3>5. Cardinality(exile' \ exile) = n /\ Cardinality((lent' \ lent) \ {Last(stack').card}) = k
      BY <1>6, <1>12, <3>1, <3>3, <3>4
    <3>. QED
      BY <1>7, <3>1, <3>2, <3>5 DEF PaidFor
  <2>2. CASE ~r.ok
    BY <1>15, <2>2 DEF PaidFor
  <2>. QED
    BY <2>1, <2>2
<1>. QED
  BY <1>22, <1>23

(* Steps that put nothing on the stack. *)
LEMMA NothingPushed ==
  ASSUME ManaInv,
         \/ \E l \in LandCards : PlayLand(l)
         \/ \E p \in LandCards \cup Fielded : ManaAbility(p)
         \/ Resolve \/ Fizzle \/ Undo \/ EndMainPhase \/ EndTurn \/ UntapStep
  PROVE  PaidFor
<1>1. stack \in Seq(Entries) /\ StackFits(stack) /\ Len(stack) \in Nat
  BY LenProperties DEF ManaInv, ManaTypeOK, Placed
<1>2. CASE Resolve \/ Fizzle
  <2>1. stack # <<>> /\ stack' = Front(stack)
    BY <1>2 DEF Resolve, Fizzle, LeaveStack
  <2>2. Front(stack) \in Seq(Entries) /\ Len(Front(stack)) < Len(stack)
    BY <1>1, <2>1, PopFits
  <2>3. Len(Front(stack)) \in Nat
    BY <2>2, LenProperties
  <2>. QED
    BY <1>1, <2>1, <2>2, <2>3 DEF PaidFor
<1>3. CASE ~(Resolve \/ Fizzle)
  <2>1. stack' = stack
    BY <1>3 DEF ManaInv, PlayLand, ManaAbility, Undo, EndMainPhase, EndTurn, UntapStep, cards,
                manaVars
  <2>. QED
    BY <1>1, <2>1 DEF PaidFor
<1>. QED
  BY <1>2, <1>3

(* What no two positions hold, one at most does. *)
LEMMA HeldOnce ==
  ASSUME NEW D, NEW s, NEW c, \A i, j \in D : s[i] = c /\ s[j] = c => i = j
  PROVE  Cardinality({i \in D : s[i] = c}) = IF \E i \in D : s[i] = c THEN 1 ELSE 0
<1>. DEFINE I == {i \in D : s[i] = c}
<1>1. CASE \E i \in D : s[i] = c
  <2>1. PICK i \in D : s[i] = c
    BY <1>1
  <2>2. I = {i}
    BY <2>1
  <2>3. Cardinality({i}) = 1
    BY FS_Singleton
  <2>. QED
    BY <1>1, <2>2, <2>3
<1>2. CASE ~(\E i \in D : s[i] = c)
  <2>1. I = {}
    BY <1>2
  <2>. QED
    BY <1>2, <2>1, FS_EmptySet
<1>. QED
  BY <1>1, <1>2

LEMMA CardsAreAccounted ==
  ASSUME ManaInv
  PROVE  CardsAccounted
<1>. SUFFICES ASSUME NEW c \in Cards
              PROVE  Cardinality({i \in DOMAIN graveyard : graveyard[i] = c})
                     + Cardinality({i \in Spells : stack[i].card = c})
                     + Cardinality({Z \in {<<1, hand>>, <<2, exile>>, <<3, inPlay>>} : c \in Z[2]}) = 1
  BY DEF CardsAccounted
<1>1. /\ IsInjective(graveyard) /\ StackFits(stack)
      /\ Apart(Cards, Range(graveyard), SpellCards(stack), hand, exile, inPlay)
  BY DEF ManaInv, Placed
<1>. DEFINE G == Cardinality({i \in DOMAIN graveyard : graveyard[i] = c})
            N == Cardinality({i \in Spells : stack[i].card = c})
            P == {Z \in {<<1, hand>>, <<2, exile>>, <<3, inPlay>>} : c \in Z[2]}
<1>2. G = IF c \in Range(graveyard) THEN 1 ELSE 0
  <2>1. \A i, j \in DOMAIN graveyard : graveyard[i] = c /\ graveyard[j] = c => i = j
    BY <1>1 DEF IsInjective
  <2>2. c \in Range(graveyard) <=> \E i \in DOMAIN graveyard : graveyard[i] = c
    BY DEF Range
  <2>. DEFINE D == DOMAIN graveyard
  <2>3. Cardinality({i \in D : graveyard[i] = c}) = IF \E i \in D : graveyard[i] = c THEN 1 ELSE 0
    <3>1. \A i, j \in D : graveyard[i] = c /\ graveyard[j] = c => i = j
      BY <2>1
    <3>. HIDE DEF D
    <3>. QED
      BY <3>1, HeldOnce
  <2>. QED
    BY <2>2, <2>3
<1>3. N = IF c \in SpellCards(stack) THEN 1 ELSE 0
  <2>. DEFINE of == [i \in Spells |-> stack[i].card]
  <2>1. Spells = SpellsIn(stack)
    BY DEF Spells, SpellsIn
  <2>2. \A i, j \in Spells : of[i] = c /\ of[j] = c => i = j
    BY <1>1, <2>1 DEF StackFits
  <2>3. Cardinality({i \in Spells : of[i] = c}) = IF \E i \in Spells : of[i] = c THEN 1 ELSE 0
    <3>. HIDE DEF of
    <3>. QED
      BY <2>2, HeldOnce
  <2>4. {i \in Spells : of[i] = c} = {i \in Spells : stack[i].card = c}
    OBVIOUS
  <2>5. c \in SpellCards(stack) <=> \E i \in Spells : of[i] = c
    BY <2>1 DEF SpellCards
  <2>. QED
    BY <2>3, <2>4, <2>5
<1>4. Cardinality(P) = IF c \in hand \/ c \in exile \/ c \in inPlay THEN 1 ELSE 0
  <2>1. <<1, hand>> \in P <=> c \in hand
    OBVIOUS
  <2>2. <<2, exile>> \in P <=> c \in exile
    OBVIOUS
  <2>3. <<3, inPlay>> \in P <=> c \in inPlay
    OBVIOUS
  <2>4. P \subseteq {<<1, hand>>, <<2, exile>>, <<3, inPlay>>}
    OBVIOUS
  <2>. HIDE DEF P
  <2>5. CASE c \in hand
    <3>1. P = {<<1, hand>>}
      BY <1>1, <2>1, <2>2, <2>3, <2>4, <2>5 DEF Apart
    <3>. QED
      BY <2>5, <3>1, FS_Singleton
  <2>6. CASE c \in exile
    <3>1. P = {<<2, exile>>}
      BY <1>1, <2>1, <2>2, <2>3, <2>4, <2>6 DEF Apart
    <3>. QED
      BY <2>6, <3>1, FS_Singleton
  <2>7. CASE c \in inPlay
    <3>1. P = {<<3, inPlay>>}
      BY <1>1, <2>1, <2>2, <2>3, <2>4, <2>7 DEF Apart
    <3>. QED
      BY <2>7, <3>1, FS_Singleton
  <2>8. CASE ~(c \in hand \/ c \in exile \/ c \in inPlay)
    <3>1. P = {}
      BY <2>1, <2>2, <2>3, <2>4, <2>8
    <3>. QED
      BY <2>8, <3>1, FS_EmptySet
  <2>. QED
    BY <2>5, <2>6, <2>7, <2>8
<1>. HIDE DEF G, N, P
<1>5. G + N + Cardinality(P) = 1
  BY <1>1, <1>2, <1>3, <1>4 DEF Apart
<1>. QED
  BY <1>5 DEF G, N, P

(* What is offered can be paid, when there is at most one choice. *)
LEMMA OffersPayable ==
  ASSUME ManaTypeOK
  PROVE  OfferedIsPayable
<1>1. pool \in [Kinds -> Nat] /\ graveyard \in Seq(Cards)
  BY DEF ManaTypeOK
<1>2. \A c \in Cards : face[c].cost \in Costs
  BY CardsAreCards
<1>3. \A c \in Range(graveyard) : c \in Cards
  <2>1. DOMAIN graveyard = 1 .. Len(graveyard) /\ \A i \in 1 .. Len(graveyard) : graveyard[i] \in Cards
    BY <1>1, ElementOfSeq, LenProperties
  <2>. QED
    BY <2>1 DEF Range
<1>4. \A c \in Cards : face[c].flashback # None => face[c].flashback \in Costs
  BY CardsAreCards DEF MaybeCosts
<1>5. \A p \in Fielded : ability[p] # None => ability[p] \in Costs
  BY CardsAreCards DEF MaybeCosts
<1>6. ASSUME NEW c \in Offered, OneChoice(face[c].cost)
      PROVE  Payable(pool, face[c].cost)
  BY <1>1, <1>2, <1>6, CanPayIsPayable DEF Offered, InHand
<1>7. ASSUME NEW c \in OfferedFlashback, OneChoice(face[c].flashback)
      PROVE  Payable(pool, face[c].flashback)
  BY <1>1, <1>3, <1>4, <1>7, CanPayIsPayable DEF OfferedFlashback
<1>8. ASSUME NEW p \in OfferedAbility, OneChoice(ability[p])
      PROVE  Payable(pool, ability[p])
  BY <1>1, <1>5, <1>8, CanPayIsPayable DEF OfferedAbility
<1>. QED
  BY <1>6, <1>7, <1>8 DEF OfferedIsPayable

-----------------------------------------------------------------------------
(* Mana: the theorems *)

LEMMA ManaStep ==
  ASSUME ManaInv, [ManaNext]_manaVars
  PROVE  ManaInv' /\ [PaidFor]_manaVars
<1>1. ASSUME NEW c \in Cards, Cast(c)
      PROVE  ManaInv' /\ PaidFor
  BY <1>1, CastPays
<1>2. ASSUME NEW c \in Cards, Flashback(c)
      PROVE  ManaInv' /\ PaidFor
  BY <1>2, FlashbackPays
<1>3. ASSUME NEW c \in Cards, Adventure(c)
      PROVE  ManaInv' /\ PaidFor
  BY <1>3, AdventurePays
<1>4. ASSUME NEW l \in LandCards, PlayLand(l)
      PROVE  ManaInv' /\ PaidFor
  BY <1>4, PlayLandKeeps, NothingPushed
<1>5. ASSUME NEW p \in LandCards \cup Fielded, ManaAbility(p)
      PROVE  ManaInv' /\ PaidFor
  BY <1>5, ManaAbilityKeeps, NothingPushed
<1>6. ASSUME NEW p \in Fielded, Activate(p)
      PROVE  ManaInv' /\ PaidFor
  BY <1>6, ActivatePays
<1>7. ASSUME Resolve \/ Fizzle
      PROVE  ManaInv' /\ PaidFor
  BY <1>7, ResolveKeeps, FizzleKeeps, NothingPushed
<1>8. ASSUME EndMainPhase \/ EndTurn \/ UntapStep
      PROVE  ManaInv' /\ PaidFor
  BY <1>8, TurnKeeps, NothingPushed
<1>9. ASSUME Undo
      PROVE  ManaInv' /\ PaidFor
  BY <1>9, UndoKeeps, NothingPushed
<1>10. ASSUME UNCHANGED manaVars
       PROVE  ManaInv' /\ [PaidFor]_manaVars
  BY <1>10, UndoKeeps
<1>. QED
  BY <1>1, <1>2, <1>3, <1>4, <1>5, <1>6, <1>7, <1>8, <1>9, <1>10 DEF ManaNext

(* The inductive invariant: variables keep their types, the books of the mana     *)
(* agree, nothing is left to undo when a handler of Game returns, and every card  *)
(* is in exactly one place.                                                       *)
THEOREM ManaInvariant == ManaSpec => []ManaInv
<1>1. ManaInit => ManaInv
  BY ManaInvInit
<1>2. ManaInv /\ [ManaNext]_manaVars => ManaInv'
  BY ManaStep
<1>. QED
  BY <1>1, <1>2, PTL DEF ManaSpec

(* Pool, zones and books keep their types: no count of mana falls below zero, what  *)
(* is tapped is in play, and what is lent is tapped (ManaPool, Game).               *)
THEOREM ManaTypes == ManaSpec => []ManaTypeOK
<1>1. ManaInv => ManaTypeOK
  BY DEF ManaInv
<1>. QED
  BY <1>1, ManaInvariant, PTL

(* Whatever is cast, refused, convoked, delved, flashed back or sent on an adventure, *)
(* for any cards and costs, every card is in exactly one place, and the lands and     *)
(* creatures tapped for mana have given what is in the pool or was spent or cleared   *)
(* (Game::process_action, auto_tap_lands).                                            *)
THEOREM NothingVanishesAlways == ManaSpec => []NothingVanishes
<1>1. ManaInv => NothingVanishes
  BY CardsAreAccounted DEF NothingVanishes, ManaInv
<1>. QED
  BY <1>1, ManaInvariant, PTL

(* What send_priority_prompt offers for its cost, of at most one hybrid symbol, is paid  *)
(* by compute_optimal_payment and pay_cost, whatever the pool and the cost.              *)
THEOREM OfferedPayableAlways == ManaSpec => []OfferedIsPayable
<1>1. ManaTypeOK => OfferedIsPayable
  BY OffersPayable
<1>. QED
  BY <1>1, ManaTypes, PTL

(* What comes to the stack has been paid for, by mana, creatures that convoke and cards  *)
(* that are delved, and in mana alone exactly (process_action's cast, flashback,         *)
(* adventure and activate branches).                                                     *)
THEOREM PaidInFullAlways == ManaSpec => PaidInFull
<1>1. ManaInv /\ [ManaNext]_manaVars => [PaidFor]_manaVars
  BY ManaStep
<1>. QED
  BY <1>1, ManaInvariant, PTL DEF ManaSpec, PaidInFull
=============================================================================
