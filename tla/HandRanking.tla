------------------------------ MODULE HandRanking ------------------------------
(***************************************************************************)
(* core/hand_ranking.cpp over sets of cards, and the rules it stands for.  *)
(* A card is <<rank, suit>> with ranks 0 (deuce) to 12 (ace), suits 0 to 3.*)
(***************************************************************************)
EXTENDS Integers, FiniteSetsExt, SequencesExt

Ranks == 0..12
Suits == 0..3
Ace == 12

\* enum HandRank: the order of the categories
HIGH_CARD == 0
ONE_PAIR == 1
TWO_PAIR == 2
THREE_OF_A_KIND == 3
STRAIGHT == 4
FLUSH == 5
FULL_HOUSE == 6
FOUR_OF_A_KIND == 7
STRAIGHT_FLUSH == 8
ROYAL_FLUSH == 9

RanksOf(cards) == {c[1] : c \in cards}
SuitsOf(cards) == {c[2] : c \in cards}

\* rank_count
Count(cards, r) == Cardinality({c \in cards : c[1] = r})
RanksCounted(cards, n) == {r \in RanksOf(cards) : Count(cards, r) = n}

Wheel == {Ace, 0, 1, 2, 3}

-----------------------------------------------------------------------------
(* Five cards                                                              *)

\* Mutant: the ace is high only.
IsStraightAceHigh(five) ==
  LET R == RanksOf(five) IN Cardinality(R) = 5 /\ Max(R) - Min(R) = 4

IsStraight(five) ==
  LET R == RanksOf(five)
  IN Cardinality(R) = 5 /\ (Max(R) - Min(R) = 4 \/ R = Wheel)

IsFlush(five) == Cardinality(SuitsOf(five)) = 1

EvaluateFive(five) ==
  LET pairs == Cardinality(RanksCounted(five, 2))
      three == RanksCounted(five, 3) # {}
  IN CASE IsFlush(five) /\ IsStraight(five) ->
            IF RanksOf(five) = 8..Ace THEN ROYAL_FLUSH ELSE STRAIGHT_FLUSH
       [] RanksCounted(five, 4) # {} -> FOUR_OF_A_KIND
       [] three /\ pairs = 1 -> FULL_HOUSE
       [] IsFlush(five) /\ ~IsStraight(five) -> FLUSH
       [] IsStraight(five) /\ ~IsFlush(five) -> STRAIGHT
       [] three /\ pairs = 0 -> THREE_OF_A_KIND
       [] pairs = 2 -> TWO_PAIR
       [] pairs = 1 /\ ~three -> ONE_PAIR
       [] OTHER -> HIGH_CARD

\* The i-th highest of some ranks
Nth(R, i) == CHOOSE r \in R : Cardinality({q \in R : q >= r}) = i

\* The n highest of some ranks, descending
Highest(R, n) == [i \in 1..(IF Cardinality(R) < n THEN Cardinality(R) ELSE n) |-> Nth(R, i)]

\* Ranks by how often they occur, then by height
Grouped(five) ==
  Highest(RanksCounted(five, 4), 5) \o Highest(RanksCounted(five, 3), 5)
    \o Highest(RanksCounted(five, 2), 5) \o Highest(RanksCounted(five, 1), 5)

\* Mutant: the wheel counts as ace high.
TopAceHigh(five, category) == Max(RanksOf(five))

\* The top of a straight: the five in the wheel
Top(five, category) ==
  IF category \in {STRAIGHT, STRAIGHT_FLUSH} /\ {0, Ace} \subseteq RanksOf(five)
  THEN 3 ELSE Max(RanksOf(five))

\* getComparisonKey: of a flush, the highest card alone
Key(five, category) ==
  IF category \in {STRAIGHT, FLUSH, STRAIGHT_FLUSH, ROYAL_FLUSH}
  THEN <<Top(five, category)>> ELSE Grouped(five)

-----------------------------------------------------------------------------
(* Five to seven cards                                                     *)

CanEvaluate(cards) == Cardinality(cards) \in 5..7

\* HandRanking::evaluate
Evaluate(cards) == Max({EvaluateFive(five) : five \in kSubset(5, cards)})

\* Lexicographic comparison of two keys of one category
Difference(k, l) ==
  LET apart == {i \in DOMAIN k \cap DOMAIN l : k[i] # l[i]}
  IN IF apart = {} THEN 0 ELSE k[Min(apart)] - l[Min(apart)]

\* The key of evaluateBestFiveCards's best_combo
BestKey(cards, category) ==
  LET keys == {Key(five, category) :
                 five \in {f \in kSubset(5, cards) : EvaluateFive(f) = category}}
  IN CHOOSE k \in keys : \A l \in keys : Difference(k, l) >= 0

\* HandRanking::compare
Compare(cards1, cards2) ==
  LET category == Evaluate(cards1)
  IN IF category # Evaluate(cards2) THEN category - Evaluate(cards2)
     ELSE Difference(BestKey(cards1, category), BestKey(cards2, category))

-----------------------------------------------------------------------------
(* The rules, told of all the cards at once                                *)

OfSuit(cards, s) == {c \in cards : c[2] = s}
OfRank(cards, r) == {c \in cards : c[1] = r}
Often(cards, n) == {r \in RanksOf(cards) : Count(cards, r) >= n}

\* The tops of the straights among some ranks
Runs(R) == {h \in 4..Ace : (h - 4)..h \subseteq R} \cup (IF Wheel \subseteq R THEN {3} ELSE {})

FlushSuits(cards) == {s \in SuitsOf(cards) : Cardinality(OfSuit(cards, s)) >= 5}
FlushRanks(cards) == UNION {RanksOf(OfSuit(cards, s)) : s \in FlushSuits(cards)}

Category(cards) ==
  LET suited == Runs(FlushRanks(cards))
  IN CASE Ace \in suited -> ROYAL_FLUSH
       [] suited # {} /\ Ace \notin suited -> STRAIGHT_FLUSH
       [] suited = {} ->
            IF Often(cards, 4) # {} THEN FOUR_OF_A_KIND
            ELSE IF Often(cards, 3) # {} /\ Cardinality(Often(cards, 2)) >= 2 THEN FULL_HOUSE
            ELSE IF FlushSuits(cards) # {} THEN FLUSH
            ELSE IF Runs(RanksOf(cards)) # {} THEN STRAIGHT
            ELSE IF Often(cards, 3) # {} THEN THREE_OF_A_KIND
            ELSE IF Cardinality(Often(cards, 2)) >= 2 THEN TWO_PAIR
            ELSE IF Often(cards, 2) # {} THEN ONE_PAIR
            ELSE HIGH_CARD

\* What decides between two hands of one category, by the rules
Strength(cards) ==
  LET R == RanksOf(cards)
      top(n) == Max(Often(cards, n))
      category == Category(cards)
  IN CASE category \in {STRAIGHT_FLUSH, ROYAL_FLUSH} -> <<Max(Runs(FlushRanks(cards)))>>
       [] category = FOUR_OF_A_KIND -> <<top(4)>> \o Highest(R \ {top(4)}, 1)
       [] category = FULL_HOUSE -> <<top(3), Max(Often(cards, 2) \ {top(3)})>>
       [] category = FLUSH -> Highest(FlushRanks(cards), 5)
       [] category = STRAIGHT -> <<Max(Runs(R))>>
       [] category = THREE_OF_A_KIND -> <<top(3)>> \o Highest(R \ {top(3)}, 2)
       [] category = TWO_PAIR ->
            LET pairs == Highest(Often(cards, 2), 2)
            IN pairs \o Highest(R \ {pairs[1], pairs[2]}, 1)
       [] category = ONE_PAIR -> <<top(2)>> \o Highest(R \ {top(2)}, 3)
       [] OTHER -> Highest(R, 5)

\* Positive if the rules prefer the first hand
RuleOrder(cards1, cards2) ==
  IF Category(cards1) # Category(cards2) THEN Category(cards1) - Category(cards2)
  ELSE Difference(Strength(cards1), Strength(cards2))

=============================================================================
