--------------------------------- MODULE Mana ---------------------------------
(***************************************************************************)
(* Mana and what it pays for (ManaPool, Game::process_action,              *)
(* auto_tap_lands, push_mana_undo, pop_mana_undo, send_priority_prompt):   *)
(* one player's pool, lands, creatures and cards from the hand over the    *)
(* stack to where they end, in turns of her own and of the opponent.  When *)
(* she holds priority is modelled in GameTurn, what effects do in Board.   *)
(*                                                                         *)
(* A cost is what ManaCost::from_string makes of it: symbols by colour,    *)
(* generic mana, hybrid symbols and the number of X.                       *)
(***************************************************************************)
EXTENDS Integers, Sequences, FiniteSets, SequencesExt, Functions

CONSTANTS Cards,      \* the player's cards that are not lands
          LandCards,  \* lands, in the hand or in play
          Fielded,    \* creatures in play from the start
          produces,   \* the colour a land or a creature's ability makes, or "none"
          ability,    \* the cost of a creature's other ability, with {T}
          dye,        \* the colours of a creature or a card
          face,       \* a card: its costs, its type and its keywords
          MaxX        \* bound of the model: the X of an action

Wubrg == <<"W", "U", "B", "R", "G">>
Colours == Range(Wubrg)
Kinds == Colours \cup {"C"}
NoCost == [col |-> [c \in Colours |-> 0], gen |-> 0, hyb |-> <<>>, x |-> 0]
None == [NoCost EXCEPT !.gen = -1]  \* stands for a cost that a card does not have

Costs == [col : [Colours -> Nat], gen : Nat, hyb : Seq(Kinds \X Kinds), x : Nat]
MaybeCosts == Costs \cup {None}

\* from_string reads no negative symbols, and a card has one id and one type.
ASSUME CardsAreCards ==
  /\ IsFiniteSet(LandCards) /\ IsFiniteSet(Fielded) /\ IsFiniteSet(Cards)
  /\ LandCards \cap Fielded = {} /\ LandCards \cap Cards = {} /\ Fielded \cap Cards = {}
  /\ produces \in [LandCards \cup Fielded -> Kinds \cup {"none"}] /\ MaxX \in Nat
  /\ \A l \in LandCards : produces[l] # "none"
  /\ face \in [Cards -> [cost : Costs, kicker : MaybeCosts, flashback : MaybeCosts,
                         adventure : MaybeCosts, instant : BOOLEAN, creature : BOOLEAN,
                         convoke : BOOLEAN, delve : BOOLEAN]]
  /\ ability \in [Fielded -> MaybeCosts]
  /\ dye \in [Fielded \cup Cards -> SUBSET Colours]

VARIABLES
  pool,       \* mana_pool_
  hand,       \* cards and lands in the hand
  graveyard,  \* the graveyard, in order
  exile,      \* cards in exile
  stack,      \* this player's entries: card, and how it was cast
  inPlay,     \* permanents
  tapped,     \* those that are tapped
  sick,       \* those with summoning sickness
  landPlayed, \* lands_played_ = max_land_plays_
  undo,       \* mana_undo_stacks_: tapped lands and what they gave
  when,       \* her main phase, another part of her turn, or the opponent's turn
  account,    \* mana that has left the pool since she untapped
  lent        \* creatures tapped since then for something else than mana

cards == <<hand, graveyard, exile, stack>>
table == <<inPlay, tapped, sick, landPlayed, when>>
books == <<account, lent>>
manaVars == <<pool, cards, table, undo, books>>

Empty == [c \in Kinds |-> 0]
Total(p) == p["W"] + p["U"] + p["B"] + p["R"] + p["G"] + p["C"]

\* The first of these colours in the order of the fields.
FirstOf(S) == Wubrg[SelectInSeq(Wubrg, LAMBDA c : c \in S)]

-----------------------------------------------------------------------------
(* ManaPool *)

\* What a cost leaves of a pool before its hybrid and generic symbols.
LeftOver(p, cost) == [c \in Kinds |-> p[c] - IF c = "C" THEN 0 ELSE cost.col[c]]

\* The two halves of each hybrid symbol are tried in every combination.
ChoicePays(left, hyb, f) ==
  \A c \in Kinds : Cardinality({h \in DOMAIN hyb : hyb[h][f[h]] = c}) <= left[c]

CanPay(p, cost) ==
  LET left == LeftOver(p, cost)
  IN /\ \A c \in Colours : left[c] >= 0
     /\ Len(cost.hyb) <= 10
     /\ \E f \in [DOMAIN cost.hyb -> {1, 2}] : ChoicePays(left, cost.hyb, f)
     /\ Total(left) - Len(cost.hyb) >= cost.gen

Spend(s, c) == [ok |-> s.ok, left |-> [s.left EXCEPT ![c] = @ - 1],
                pay |-> [s.pay EXCEPT ![c] = @ + 1]]

\* Faulty variant: always the first half.
HalfFirst(s, h) == h[1]

\* compute_optimal_payment decides each hybrid symbol by itself: for the half of
\* which more is left, the first if there is as much.
Half(s, h) == IF s.left[h[1]] >= s.left[h[2]] THEN h[1] ELSE h[2]

HybridsPaid(s, hyb) ==
  LET paid[i \in 0 .. Len(hyb)] ==
        IF i = 0 THEN s ELSE Spend(paid[i - 1], Half(paid[i - 1], hyb[i]))
  IN paid[Len(hyb)]

\* Generic mana: colourless first, then the colour of which most is left, the
\* first in the order of the fields; none when nothing is left.
Most(s) ==
  IF s.left["C"] > 0 THEN "C"
  ELSE LET best == {c \in Colours : /\ s.left[c] > 0
                                    /\ \A d \in Colours : s.left[d] <= s.left[c]}
       IN IF best = {} THEN "none" ELSE FirstOf(best)

Generic(s) == IF ~s.ok THEN s
              ELSE IF Most(s) = "none" THEN [s EXCEPT !.ok = FALSE] ELSE Spend(s, Most(s))

GenericPaid(s, n) ==
  LET paid[i \in 0 .. n] == IF i = 0 THEN s ELSE Generic(paid[i - 1]) IN paid[n]

ColoursPaid(p, cost) == [ok |-> CanPay(p, cost), left |-> LeftOver(p, cost),
                         pay |-> [c \in Kinds |-> IF c = "C" THEN 0 ELSE cost.col[c]]]

Payment(p, cost) ==
  LET coloured == ColoursPaid(p, cost)
  IN IF ~coloured.ok THEN coloured
     ELSE GenericPaid(HybridsPaid(coloured, cost.hyb), cost.gen)

\* Faulty variant: pay_cost takes the payment without looking at the pool.
PayableAlways(p, cost) == Payment(p, cost).ok

\* A payment there is, and pay_cost accepts.
Payable(p, cost) == LET s == Payment(p, cost)
                    IN s.ok /\ \A c \in Kinds : s.pay[c] <= p[c]
Paid(p, cost) == [c \in Kinds |-> p[c] - Payment(p, cost).pay[c]]

-----------------------------------------------------------------------------
(* Lands tapped for a cost *)

Needed(cost, l) == produces[l] \in Colours /\ cost.col[produces[l]] > 0
UntappedLands == {l \in LandCards \cap inPlay : l \notin tapped}

\* The permanents are kept in a hash map, and the sort is not stable: within the
\* needed and the other lands, any order.
Orders(cost) ==
  {s \in SetToSeqs(UntappedLands) :
     \A i, j \in DOMAIN s : Needed(cost, s[j]) /\ ~Needed(cost, s[i]) => j < i}

Tap(p, l) == [p EXCEPT ![produces[l]] = @ + 1]

\* Lands are tapped in that order until the pool can pay, or to the last.
TapNext(s, l, cost) ==
  IF CanPay(s.pool, cost) THEN s
  ELSE [pool |-> Tap(s.pool, l), tapped |-> s.tapped \cup {l}]
AutoTap(order, cost) ==
  LET after[i \in 0 .. Len(order)] ==
        IF i = 0 THEN [pool |-> pool, tapped |-> {}]
        ELSE TapNext(after[i - 1], order[i], cost)
  IN after[Len(order)]

\* What may come of paying a cost: the lands tapped for it, and either the
\* payment or the mana that stays in the pool.
Settlements(cost) ==
  {LET s == AutoTap(o, cost)
       ok == Payable(s.pool, cost)
   IN [ok |-> ok, lands |-> s.tapped, pool |-> IF ok THEN Paid(s.pool, cost) ELSE s.pool] :
   o \in Orders(cost)}

\* auto_tap_lands pushes an entry for each land; its callers clear them all.
UndoAfter(r) == <<>>

\* The mana that has left the pool, the lands' included.
Charge(r) == account' = account + Total(pool) + Cardinality(r.lands) - Total(r.pool)

-----------------------------------------------------------------------------
(* Casting *)

IsCreature(c) == c \in Fielded \/ (c \in Cards /\ face[c].creature)
Entry(c, how, x, kicked) == [card |-> c, how |-> how, x |-> x, kicked |-> kicked]
InHand == hand \cap Cards
SorceryTime == when = "main" /\ stack = <<>>

Plus(cost, extra) == [cost EXCEPT !.gen = @ + extra.gen,
                                  !.col = [c \in Colours |-> @[c] + extra.col[c]]]

\* X is paid as generic mana; the hybrid symbols of a kicker are not counted.
Price(c, x, kicked) ==
  LET cost == face[c].cost
      chosen == [cost EXCEPT !.gen = @ + x * cost.x, !.x = 0]
  IN IF kicked THEN Plus(chosen, face[c].kicker) ELSE chosen

\* The colours of a creature that the cost still has.
Shared(cost, cr) == {c \in dye[cr] : cost.col[c] > 0}

\* Faulty variant: it pays for a coloured symbol and for generic mana.
ConvokeBoth(cost, cr) ==
  LET rest == IF cost.gen > 0 THEN [cost EXCEPT !.gen = @ - 1] ELSE cost
  IN IF Shared(cost, cr) # {} THEN [rest EXCEPT !.col[FirstOf(Shared(cost, cr))] = @ - 1]
     ELSE rest

\* A creature tapped for Convoke pays for the first of its colours the cost still
\* has, else for generic mana, else for nothing.
Convoke(cost, cr) ==
  IF Shared(cost, cr) # {} THEN [cost EXCEPT !.col[FirstOf(Shared(cost, cr))] = @ - 1]
  ELSE IF cost.gen > 0 THEN [cost EXCEPT !.gen = @ - 1] ELSE cost

Convoked(cost, help) ==
  LET rest[i \in 0 .. Len(help)] ==
        IF i = 0 THEN cost ELSE Convoke(rest[i - 1], help[i])
  IN rest[Len(help)]

\* The creatures an action names for Convoke, in order: those that count.
Helpers(c) ==
  IF face[c].convoke
  THEN UNION {SetToSeqs(S) : S \in SUBSET {p \in inPlay \ tapped : IsCreature(p)}}
  ELSE {<<>>}

Delves(c) == IF face[c].delve THEN 0 .. Len(graveyard) ELSE {0}
Kicks(c) == IF face[c].kicker = None THEN {FALSE} ELSE BOOLEAN
Xs(c) == IF face[c].cost.x = 0 THEN {0} ELSE 0 .. MaxX

HasCost(cost) == cost.gen > 0 \/ cost.hyb # <<>> \/ \E c \in Colours : cost.col[c] > 0
Unpaid == [ok |-> TRUE, lands |-> {}, pool |-> pool]

Least(a, b) == IF a < b THEN a ELSE b

\* Faulty variant: a card whose payment failed is not put back.
HandAfterGone(c, r) == hand \ {c}

\* The card goes to the stack, or back where it was.
HandAfter(c, r) == IF r.ok THEN hand \ {c} ELSE hand
Push(r, entry) == stack' = IF r.ok THEN Append(stack, entry) ELSE stack

\* play_card at a legal time.  Creatures are tapped and cards exiled before the
\* payment is tried, and stay so when it fails.
Cast(c) ==
  /\ c \in InHand /\ (face[c].instant \/ SorceryTime)
  /\ \E x \in Xs(c), kicked \in Kicks(c), help \in Helpers(c), d \in Delves(c) :
       LET convoked == Convoked(Price(c, x, kicked), help)
           n == Least(d, convoked.gen)
           cost == [convoked EXCEPT !.gen = @ - n]
           keep == Len(graveyard) - n
       IN \E r \in IF HasCost(cost) THEN Settlements(cost) ELSE {Unpaid} :
            /\ pool' = r.pool /\ Charge(r)
            /\ tapped' = tapped \cup r.lands \cup Range(help)
            /\ lent' = lent \cup Range(help)
            /\ graveyard' = SubSeq(graveyard, 1, keep)
            /\ exile' = exile \cup Range(SubSeq(graveyard, keep + 1, Len(graveyard)))
            /\ hand' = HandAfter(c, r)
            /\ Push(r, Entry(c, "cast", x, kicked))
            /\ undo' = IF HasCost(cost) THEN UndoAfter(r) ELSE undo
  /\ UNCHANGED <<inPlay, sick, landPlayed, when>>

\* play_card_flashback: no time is illegal; a card that cannot be paid goes back
\* to the end of the graveyard.
Flashback(c) ==
  /\ face[c].flashback # None
  /\ \E i \in DOMAIN graveyard, r \in Settlements(face[c].flashback) :
       /\ graveyard[i] = c
       /\ graveyard' = IF r.ok THEN RemoveAt(graveyard, i)
                       ELSE Append(RemoveAt(graveyard, i), c)
       /\ pool' = r.pool /\ Charge(r) /\ tapped' = tapped \cup r.lands
       /\ Push(r, Entry(c, "flashback", 0, FALSE))
       /\ undo' = UndoAfter(r)
  /\ UNCHANGED <<hand, exile, inPlay, sick, landPlayed, when, lent>>

\* play_card_adventure pays from the pool as it is.
Adventure(c) ==
  /\ c \in InHand /\ face[c].adventure # None /\ Payable(pool, face[c].adventure)
  /\ LET r == [ok |-> TRUE, lands |-> {}, pool |-> Paid(pool, face[c].adventure)]
     IN /\ pool' = r.pool /\ Charge(r) /\ hand' = HandAfter(c, r)
        /\ Push(r, Entry(c, "adventure", 0, FALSE))
  /\ UNCHANGED <<graveyard, exile, table, undo, lent>>

\* The top entry resolves: a creature enters, cast as an adventure or not; other
\* adventures and flashbacks are exiled.
Where(e) == IF IsCreature(e.card) THEN "inPlay"
            ELSE IF e.how \in {"adventure", "flashback"} THEN "exile" ELSE "graveyard"

LeaveStack(e, zone) ==
  /\ stack' = Front(stack)
  /\ inPlay' = IF zone = "inPlay" THEN inPlay \cup {e.card} ELSE inPlay
  /\ sick' = IF zone = "inPlay" THEN sick \cup {e.card} ELSE sick
  /\ exile' = IF zone = "exile" THEN exile \cup {e.card} ELSE exile
  /\ graveyard' = IF zone = "graveyard" THEN Append(graveyard, e.card) ELSE graveyard
  /\ UNCHANGED <<pool, hand, tapped, landPlayed, when, undo, books>>

Resolve ==
  /\ stack # <<>>
  /\ LET e == Last(stack)
     IN LeaveStack(e, IF e.how = "ability" THEN "nowhere" ELSE Where(e))

\* All its targets have become illegal: a spell goes to the graveyard, with
\* flashback too.
Fizzle ==
  /\ stack # <<>> /\ Last(stack).how # "ability"
  /\ LeaveStack(Last(stack), "graveyard")

-----------------------------------------------------------------------------
(* Lands, abilities, undo *)

PlayLand(l) ==
  /\ l \in hand /\ SorceryTime /\ ~landPlayed
  /\ hand' = hand \ {l} /\ inPlay' = inPlay \cup {l} /\ landPlayed' = TRUE
  /\ UNCHANGED <<pool, graveyard, exile, stack, tapped, sick, when, undo, books>>

MayTap(p) == p \in inPlay /\ p \notin tapped /\ p \notin sick

\* activate_ability of a mana ability, {T} its only cost: it resolves at once,
\* and leaves no entry to undo.
ManaAbility(p) ==
  /\ MayTap(p) /\ produces[p] # "none"
  /\ tapped' = tapped \cup {p} /\ pool' = Tap(pool, p)
  /\ UNCHANGED <<cards, inPlay, sick, landPlayed, when, undo, books>>

\* activate_ability of another ability, of a permanent that is not a land: the
\* mana first, then the permanent is tapped.
Activate(p) ==
  /\ MayTap(p) /\ ability[p] # None
  /\ \E r \in Settlements(ability[p]) :
       /\ pool' = r.pool /\ Charge(r)
       /\ tapped' = tapped \cup r.lands \cup IF r.ok THEN {p} ELSE {}
       /\ lent' = IF r.ok THEN lent \cup {p} ELSE lent
       /\ Push(r, Entry(p, "ability", 0, FALSE))
       /\ undo' = UndoAfter(r)
  /\ UNCHANGED <<hand, graveyard, exile, inPlay, sick, landPlayed, when>>

\* pop_mana_undo: the land untaps, and its mana is taken back when it is there.
Undo ==
  IF undo = <<>> THEN UNCHANGED manaVars
  ELSE LET l == Last(undo)
       IN /\ undo' = Front(undo) /\ tapped' = tapped \ {l}
          /\ pool' = IF pool[produces[l]] > 0 THEN [pool EXCEPT ![produces[l]] = @ - 1]
                     ELSE pool
          /\ UNCHANGED <<cards, inPlay, sick, landPlayed, when, books>>

-----------------------------------------------------------------------------
(* What send_priority_prompt offers: by the pool as it is, lands untapped or not *)

InTime(c) == face[c].instant \/ SorceryTime
Offered == {c \in InHand : InTime(c) /\ CanPay(pool, face[c].cost)}
OfferedFlashback == {c \in Range(graveyard) : /\ face[c].flashback # None /\ InTime(c)
                                              /\ CanPay(pool, face[c].flashback)}
OfferedAbility ==
  {p \in Fielded : MayTap(p) /\ ability[p] # None /\ CanPay(pool, ability[p])}

-----------------------------------------------------------------------------
(* The turn *)

EndMainPhase ==
  /\ when = "main" /\ stack = <<>> /\ when' = "other"
  /\ UNCHANGED <<pool, cards, inPlay, tapped, sick, landPlayed, undo, books>>

\* run_cleanup_phase clears both pools.
EndTurn ==
  /\ when = "other" /\ stack = <<>> /\ when' = "theirs"
  /\ pool' = Empty /\ account' = account + Total(pool)
  /\ UNCHANGED <<cards, inPlay, tapped, sick, landPlayed, undo, lent>>

\* The opponent's cleanup, reset_for_turn and the untap step.
UntapStep ==
  /\ when = "theirs" /\ stack = <<>> /\ when' = "main"
  /\ pool' = Empty /\ account' = 0 /\ lent' = {}
  /\ tapped' = {} /\ sick' = {} /\ landPlayed' = FALSE
  /\ UNCHANGED <<cards, inPlay, undo>>

ManaInit ==
  /\ pool = Empty /\ hand = Cards \cup LandCards /\ graveyard = <<>> /\ exile = {}
  /\ stack = <<>> /\ inPlay = Fielded /\ tapped = {} /\ sick = {}
  /\ landPlayed = FALSE /\ undo = <<>> /\ when = "main" /\ account = 0 /\ lent = {}

ManaNext == \/ \E c \in Cards : Cast(c) \/ Flashback(c) \/ Adventure(c)
            \/ \E l \in LandCards : PlayLand(l)
            \/ \E p \in LandCards \cup Fielded : ManaAbility(p)
            \/ \E p \in Fielded : Activate(p)
            \/ Resolve \/ Fizzle \/ Undo
            \/ EndMainPhase \/ EndTurn \/ UntapStep

ManaSpec == ManaInit /\ [][ManaNext]_manaVars

-----------------------------------------------------------------------------
(* Properties *)

Spells == {i \in DOMAIN stack : stack[i].how # "ability"}
Permanents == LandCards \cup Fielded \cup Cards
Entries == [card : Cards \cup Fielded, x : 0 .. MaxX, kicked : BOOLEAN,
            how : {"cast", "flashback", "adventure", "ability"}]

ManaTypeOK ==
  /\ pool \in [Kinds -> Nat] /\ hand \subseteq LandCards \cup Cards
  /\ graveyard \in Seq(Cards) /\ exile \subseteq Cards
  /\ stack \in Seq(Entries)
  /\ inPlay \subseteq Permanents /\ tapped \subseteq inPlay /\ sick \subseteq inPlay
  /\ landPlayed \in BOOLEAN /\ undo \in Seq(LandCards) /\ when \in {"main", "other", "theirs"}
  /\ account \in Nat /\ lent \subseteq tapped

\* Whatever is cast, refused, convoked, delved, flashed back or sent on an
\* adventure, a card is in exactly one place.
CardsAccounted ==
  \A c \in Cards :
    Cardinality({i \in DOMAIN graveyard : graveyard[i] = c})
    + Cardinality({i \in Spells : stack[i].card = c})
    + Cardinality({Z \in {<<1, hand>>, <<2, exile>>, <<3, inPlay>>} : c \in Z[2]}) = 1

\* No mana appears or vanishes: the lands and mana creatures tapped since the
\* untap step have given what is in the pool and what was paid or cleared, through
\* refused payments and undo; a land never untaps with its mana spent.
ManaAccounted == Cardinality(tapped \ lent) = Total(pool) + account

\* Neither cards nor mana come from nowhere or get lost.
NothingVanishes == CardsAccounted /\ ManaAccounted

\* The mana of a cost, and what a new entry was to cost, by the card and the action.
ManaValue(cost) == cost.gen + Len(cost.hyb) + cost.col["W"] + cost.col["U"] + cost.col["B"]
                   + cost.col["R"] + cost.col["G"]
FullPrice(e) ==
  CASE e.how = "cast" -> ManaValue(Price(e.card, e.x, e.kicked))
    [] e.how = "flashback" -> ManaValue(face[e.card].flashback)
    [] e.how = "adventure" -> ManaValue(face[e.card].adventure)
    [] e.how = "ability" -> ManaValue(ability[e.card])

\* Everything that comes to the stack is paid for, in mana, creatures tapped for
\* Convoke and cards exiled for Delve, and in mana alone neither too little nor
\* too much, however the colours of pool, lands and hybrid symbols fall.
PaidFor ==
  Len(stack') > Len(stack) =>
    LET mana == account' - account
        delved == Cardinality(exile' \ exile)
        helped == Cardinality((lent' \ lent) \ {Last(stack').card})
    IN /\ mana + delved + helped >= FullPrice(Last(stack'))
       /\ helped = 0 => mana + delved = FullPrice(Last(stack'))

PaidInFull == [][PaidFor]_manaVars

OneChoice(cost) == Len(cost.hyb) <= 1

\* What send_priority_prompt offers is not refused, the cost of at most one hybrid
\* symbol provided; with two, each may choose what the other needs.
OfferedIsPayable ==
  /\ \A c \in Offered : OneChoice(face[c].cost) => Payable(pool, face[c].cost)
  /\ \A c \in OfferedFlashback : OneChoice(face[c].flashback) => Payable(pool, face[c].flashback)
  /\ \A p \in OfferedAbility : OneChoice(ability[p]) => Payable(pool, ability[p])
================================================================================
