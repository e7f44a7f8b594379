--------------------------- MODULE HandRankingProofs ---------------------------
(***************************************************************************)
(* HandRanking::evaluate tries the 21 combinations of five cards; the rules*)
(* tell a category of all the cards at once.  They agree: evaluateFive is  *)
(* the rules' category of five cards, more cards never lower a category,   *)
(* and five of the cards suffice for it.                                   *)
(*                                                                         *)
(* HandRanking::compare then asks those combinations for the best key of   *)
(* five cards.  A key tells the ranks that come four times, three times,   *)
(* twice and once, the highest first, which is what the rules compare of   *)
(* all the cards: more cards never lower it, and five cards attain it.     *)
(***************************************************************************)
EXTENDS HandRanking, FiniteSetTheorems, SequenceTheorems, TLAPS

AllCards == Ranks \X Suits

-----------------------------------------------------------------------------
(* Finite sets                                                             *)

LEMMA CardsFinite ==
  ASSUME NEW cards \in SUBSET AllCards
  PROVE  IsFiniteSet(cards)
<1>1. IsFiniteSet(Ranks) /\ IsFiniteSet(Suits)
  <2>1. \A a, b \in Int : IsFiniteSet(a..b)
    BY FS_Interval
  <2>2. 0 \in Int /\ 3 \in Int /\ 12 \in Int
    OBVIOUS
  <2> QED
    BY <2>1, <2>2, Zenon DEF Ranks, Suits
<1>2. IsFiniteSet(AllCards)
  BY <1>1, FS_Product DEF AllCards
<1> QED
  BY <1>2, FS_Subset

\* A smaller set, a smaller number
LEMMA Fewer ==
  ASSUME NEW S, NEW T, IsFiniteSet(T), S \subseteq T
  PROVE  /\ IsFiniteSet(S) /\ Cardinality(S) \in Nat /\ Cardinality(T) \in Nat
         /\ Cardinality(S) <= Cardinality(T)
         /\ Cardinality(T) <= Cardinality(S) => S = T
<1>1. S \in SUBSET T
  OBVIOUS
<1>2. /\ IsFiniteSet(S) /\ Cardinality(S) <= Cardinality(T)
      /\ Cardinality(T) = Cardinality(S) => S = T
  BY <1>1, FS_Subset
<1>3. Cardinality(S) \in Nat /\ Cardinality(T) \in Nat
  BY <1>2, FS_CardinalityType
<1> QED
  BY <1>2, <1>3

\* One more element of a larger set
LEMMA OneMore ==
  ASSUME NEW S, IsFiniteSet(S), NEW X \in SUBSET S, Cardinality(X) < Cardinality(S)
  PROVE  \E Y \in SUBSET S : X \subseteq Y /\ Cardinality(Y) = Cardinality(X) + 1
<1>1. IsFiniteSet(X) /\ Cardinality(X) \in Nat
  BY Fewer
<1>2. PICK x \in S : x \notin X
  <2>1. X # S
    BY <1>1
  <2> QED
    BY <2>1
<1>3. Cardinality(X \cup {x}) = Cardinality(X) + 1
  BY <1>1, <1>2, FS_AddElement
<1> QED
  BY <1>2, <1>3

\* A subset of at most five elements grows to any number up to five.
LEMMA Grows ==
  ASSUME NEW S, IsFiniteSet(S), NEW X \in SUBSET S, NEW n \in 0..5,
         Cardinality(X) <= n, n <= Cardinality(S)
  PROVE  \E Y \in SUBSET S : X \subseteq Y /\ Cardinality(Y) = n
<1> DEFINE Of(k) == \E Y \in SUBSET S : X \subseteq Y /\ Cardinality(Y) = k
<1>1. Cardinality(X) \in Nat /\ Cardinality(S) \in Nat
  BY Fewer
<1>2. ASSUME NEW k \in Nat, Of(k), k < Cardinality(S) PROVE Of(k + 1)
  <2>1. PICK Y \in SUBSET S : X \subseteq Y /\ Cardinality(Y) = k
    BY <1>2
  <2>2. PICK Z \in SUBSET S : Y \subseteq Z /\ Cardinality(Z) = k + 1
    BY <1>2, <2>1, OneMore
  <2> QED
    BY <2>1, <2>2
<1>3. Of(Cardinality(X))
  OBVIOUS
<1> HIDE DEF Of
<1> DEFINE Reaches(k) == Cardinality(X) <= k /\ k <= Cardinality(S) => Of(k)
<1>4. Reaches(0)
  BY <1>1, <1>3
<1>5. ASSUME NEW k \in 0..4, Reaches(k) PROVE Reaches(k + 1)
  <2>1. CASE Cardinality(X) = k + 1
    BY <1>3, <2>1
  <2>2. CASE Cardinality(X) <= k
    BY <1>1, <1>2, <1>5, <2>2
  <2> QED
    BY <1>1, <2>1, <2>2
<1> HIDE DEF Reaches
<1>6. Reaches(0 + 1)
  BY <1>4, <1>5
<1>7. Reaches(1 + 1)
  BY <1>6, <1>5
<1>8. Reaches(2 + 1)
  BY <1>7, <1>5
<1>9. Reaches(3 + 1)
  BY <1>8, <1>5
<1>10. Reaches(4 + 1)
  BY <1>9, <1>5
<1>11. Reaches(n)
  <2>1. n = 0 \/ n = 1 \/ n = 2 \/ n = 3 \/ n = 4 \/ n = 5
    OBVIOUS
  <2> QED
    BY <2>1, <1>4, <1>6, <1>7, <1>8, <1>9, <1>10
<1>12. Of(n)
  BY <1>11 DEF Reaches
<1> QED
  BY <1>12 DEF Of

LEMMA Takes ==
  ASSUME NEW S, IsFiniteSet(S), NEW n \in 0..5, n <= Cardinality(S)
  PROVE  \E Y \in SUBSET S : IsFiniteSet(Y) /\ Cardinality(Y) = n
<1>1. {} \in SUBSET S /\ Cardinality({}) <= n
  BY FS_EmptySet
<1>2. PICK Y \in SUBSET S : Cardinality(Y) = n
  BY <1>1, Grows
<1> QED
  BY <1>2, Fewer

LEMMA Union ==
  ASSUME NEW S, NEW T, IsFiniteSet(S), IsFiniteSet(T)
  PROVE  /\ IsFiniteSet(S \cup T) /\ Cardinality(S \cup T) \in Nat
         /\ Cardinality(S \cup T) <= Cardinality(S) + Cardinality(T)
         /\ S \cap T = {} => Cardinality(S \cup T) = Cardinality(S) + Cardinality(T)
<1>1. /\ IsFiniteSet(S \cup T)
      /\ Cardinality(S \cup T) = Cardinality(S) + Cardinality(T) - Cardinality(S \cap T)
  BY FS_Union
<1>2. Cardinality(S) \in Nat /\ Cardinality(T) \in Nat /\ Cardinality(S \cap T) \in Nat
  BY Fewer
<1>3. S \cap T = {} => Cardinality(S \cap T) = 0
  BY FS_EmptySet
<1>4. ASSUME NEW a \in Nat, NEW b \in Nat, NEW c \in Nat, NEW d, d = a + b - c, d \in Nat
      PROVE  d <= a + b /\ (c = 0 => d = a + b)
  BY <1>4
<1>5. Cardinality(S \cup T) \in Nat
  BY <1>1, FS_CardinalityType
<1> QED
  BY <1>1, <1>2, <1>3, <1>4, <1>5

\* As many elements as two that differ
LEMMA AtLeastTwo ==
  ASSUME NEW S, IsFiniteSet(S)
  PROVE  /\ Cardinality(S) \in Nat
         /\ Cardinality(S) >= 2 <=> \E x, y \in S : x # y
         /\ Cardinality(S) >= 1 <=> S # {}
<1>1. Cardinality(S) \in Nat
  BY FS_CardinalityType
<1>2. Cardinality(S) = 0 <=> S = {}
  BY FS_EmptySet
<1>3. Cardinality(S) = 1 <=> \E x : S = {x}
  BY FS_Singleton
<1>4. Cardinality(S) >= 2 <=> ~(S = {} \/ \E x : S = {x})
  BY <1>1, <1>2, <1>3
<1>5. ~(S = {} \/ \E x : S = {x}) <=> \E x, y \in S : x # y
  OBVIOUS
<1>6. Cardinality(S) >= 1 <=> S # {}
  BY <1>1, <1>2
<1>7. Cardinality(S) >= 2 <=> \E x, y \in S : x # y
  BY <1>4, <1>5
<1> QED
  BY <1>1, <1>6, <1>7

-----------------------------------------------------------------------------
(* What a category asks of the cards                                       *)

\* Made(k, cards): by the rules the cards show the category k, perhaps a better one
Made(k, cards) ==
  /\ k = ROYAL_FLUSH => Ace \in Runs(FlushRanks(cards))
  /\ k = STRAIGHT_FLUSH => Runs(FlushRanks(cards)) # {}
  /\ k = FOUR_OF_A_KIND => Often(cards, 4) # {}
  /\ k = FULL_HOUSE => Often(cards, 3) # {} /\ Cardinality(Often(cards, 2)) >= 2
  /\ k = FLUSH => FlushSuits(cards) # {}
  /\ k = STRAIGHT => Runs(RanksOf(cards)) # {}
  /\ k = THREE_OF_A_KIND => Often(cards, 3) # {}
  /\ k = TWO_PAIR => Cardinality(Often(cards, 2)) >= 2
  /\ k = ONE_PAIR => Often(cards, 2) # {}

\* The category is the best that is made.
LEMMA CategoryIsTheBestMade ==
  ASSUME NEW cards
  PROVE  /\ Category(cards) \in 0..9
         /\ Made(Category(cards), cards)
         /\ \A k \in 0..9 : Made(k, cards) => Category(cards) >= k
<1> DEFINE suited == Runs(FlushRanks(cards))
           four == Often(cards, 4) # {}
           three == Often(cards, 3) # {}
           pairs == Cardinality(Often(cards, 2)) >= 2
           pair == Often(cards, 2) # {}
           flush == FlushSuits(cards) # {}
           run == Runs(RanksOf(cards)) # {}
<1>1. Category(cards) =
        CASE Ace \in suited -> 9
          [] suited # {} /\ Ace \notin suited -> 8
          [] suited = {} ->
               IF four THEN 7 ELSE IF three /\ pairs THEN 6 ELSE IF flush THEN 5
               ELSE IF run THEN 4 ELSE IF three THEN 3 ELSE IF pairs THEN 2
               ELSE IF pair THEN 1 ELSE 0
  BY DEF Category, ROYAL_FLUSH, STRAIGHT_FLUSH, FOUR_OF_A_KIND, FULL_HOUSE, FLUSH, STRAIGHT,
         THREE_OF_A_KIND, TWO_PAIR, ONE_PAIR, HIGH_CARD
<1>2. \A k \in 0..9 :
        Made(k, cards) <=>
          /\ k = 9 => Ace \in suited
          /\ k = 8 => suited # {}
          /\ k = 7 => four
          /\ k = 6 => three /\ pairs
          /\ k = 5 => flush
          /\ k = 4 => run
          /\ k = 3 => three
          /\ k = 2 => pairs
          /\ k = 1 => pair
  BY DEF Made, ROYAL_FLUSH, STRAIGHT_FLUSH, FOUR_OF_A_KIND, FULL_HOUSE, FLUSH, STRAIGHT,
         THREE_OF_A_KIND, TWO_PAIR, ONE_PAIR
<1> HIDE DEF suited, four, three, pairs, pair, flush, run
<1>3. Category(cards) \in 0..9
  BY <1>1
<1>4. Made(Category(cards), cards)
  BY <1>1, <1>2, <1>3
<1>5. \A k \in 0..9 : Made(k, cards) => Category(cards) >= k
  BY <1>1, <1>2
<1> QED
  BY <1>3, <1>4, <1>5

-----------------------------------------------------------------------------
(* More cards never lower a category                                       *)

LEMMA CountGrows ==
  ASSUME NEW A, NEW B \in SUBSET AllCards, A \subseteq B
  PROVE  /\ IsFiniteSet(A) /\ IsFiniteSet(B)
         /\ \A r : Count(A, r) \in Nat /\ Count(B, r) \in Nat /\ Count(A, r) <= Count(B, r)
         /\ \A s : OfSuit(A, s) \subseteq OfSuit(B, s)
         /\ \A s : /\ Cardinality(OfSuit(A, s)) \in Nat /\ Cardinality(OfSuit(B, s)) \in Nat
                   /\ Cardinality(OfSuit(A, s)) <= Cardinality(OfSuit(B, s))
<1>1. IsFiniteSet(B)
  BY CardsFinite
<1>2. IsFiniteSet(A)
  BY <1>1, Fewer
<1>3. ASSUME NEW r
      PROVE  Count(A, r) \in Nat /\ Count(B, r) \in Nat /\ Count(A, r) <= Count(B, r)
  <2> DEFINE a == {c \in A : c[1] = r}
             b == {c \in B : c[1] = r}
  <2>1. IsFiniteSet(b)
    BY <1>1, Fewer
  <2>2. a \subseteq b
    OBVIOUS
  <2>3. Cardinality(a) \in Nat /\ Cardinality(b) \in Nat /\ Cardinality(a) <= Cardinality(b)
    BY <2>1, <2>2, Fewer
  <2> QED
    BY <2>3 DEF Count
<1>4. ASSUME NEW s
      PROVE  /\ OfSuit(A, s) \subseteq OfSuit(B, s)
             /\ Cardinality(OfSuit(A, s)) \in Nat /\ Cardinality(OfSuit(B, s)) \in Nat
             /\ Cardinality(OfSuit(A, s)) <= Cardinality(OfSuit(B, s))
  <2>1. OfSuit(B, s) \subseteq B /\ OfSuit(A, s) \subseteq OfSuit(B, s)
    BY DEF OfSuit
  <2>2. IsFiniteSet(OfSuit(B, s))
    BY <1>1, <2>1, Fewer
  <2> QED
    BY <2>1, <2>2, Fewer
<1> QED
  BY <1>1, <1>2, <1>3, <1>4

LEMMA RanksFinite ==
  ASSUME NEW cards \in SUBSET AllCards
  PROVE  /\ RanksOf(cards) \subseteq Ranks /\ SuitsOf(cards) \subseteq Suits
         /\ IsFiniteSet(RanksOf(cards))
         /\ \A n : Often(cards, n) \subseteq Ranks /\ IsFiniteSet(Often(cards, n))
<1>1. RanksOf(cards) \subseteq Ranks /\ SuitsOf(cards) \subseteq Suits
  BY DEF RanksOf, SuitsOf, AllCards
<1>2. IsFiniteSet(Ranks)
  <2>1. \A a, b \in Int : IsFiniteSet(a..b)
    BY FS_Interval
  <2>2. 0 \in Int /\ 12 \in Int
    OBVIOUS
  <2> QED
    BY <2>1, <2>2, Zenon DEF Ranks
<1>3. \A n : Often(cards, n) \subseteq Ranks
  BY <1>1 DEF Often
<1>4. \A R : R \subseteq Ranks => IsFiniteSet(R)
  BY <1>2, Fewer
<1> QED
  BY <1>1, <1>3, <1>4

LEMMA RunsGrow ==
  ASSUME NEW R, NEW T, R \subseteq T
  PROVE  Runs(R) \subseteq Runs(T)
BY DEF Runs

LEMMA MadeGrows ==
  ASSUME NEW A, NEW B \in SUBSET AllCards, A \subseteq B, NEW k \in 0..9, Made(k, A)
  PROVE  Made(k, B)
<1>1. RanksOf(A) \subseteq RanksOf(B) /\ SuitsOf(A) \subseteq SuitsOf(B)
  BY DEF RanksOf, SuitsOf
<1>2. \A n \in Nat : Often(A, n) \subseteq Often(B, n)
  <2>1. ASSUME NEW n \in Nat, NEW r \in Often(A, n) PROVE r \in Often(B, n)
    <3>1. r \in RanksOf(B) /\ Count(A, r) >= n
      BY <1>1, <2>1 DEF Often
    <3>2. Count(A, r) \in Nat /\ Count(B, r) \in Nat /\ Count(A, r) <= Count(B, r)
      BY CountGrows
    <3>3. Count(B, r) >= n
      BY <3>1, <3>2
    <3> QED
      BY <3>1, <3>3 DEF Often
  <2> QED
    BY <2>1
<1>3. Cardinality(Often(A, 2)) >= 2 => Cardinality(Often(B, 2)) >= 2
  <2>1. IsFiniteSet(Often(B, 2))
    BY RanksFinite
  <2>2. /\ Cardinality(Often(A, 2)) \in Nat /\ Cardinality(Often(B, 2)) \in Nat
        /\ Cardinality(Often(A, 2)) <= Cardinality(Often(B, 2))
    BY <1>2, <2>1, Fewer
  <2> QED
    BY <2>2
<1>4. FlushSuits(A) \subseteq FlushSuits(B)
  <2>1. ASSUME NEW s \in FlushSuits(A) PROVE s \in FlushSuits(B)
    <3>1. s \in SuitsOf(B) /\ Cardinality(OfSuit(A, s)) >= 5
      BY <1>1, <2>1 DEF FlushSuits
    <3>2. /\ Cardinality(OfSuit(A, s)) \in Nat /\ Cardinality(OfSuit(B, s)) \in Nat
          /\ Cardinality(OfSuit(A, s)) <= Cardinality(OfSuit(B, s))
      BY CountGrows
    <3>3. Cardinality(OfSuit(B, s)) >= 5
      BY <3>1, <3>2
    <3> QED
      BY <3>1, <3>3 DEF FlushSuits
  <2> QED
    BY <2>1
<1>5. FlushRanks(A) \subseteq FlushRanks(B)
  <2>1. \A s : RanksOf(OfSuit(A, s)) \subseteq RanksOf(OfSuit(B, s))
    BY CountGrows DEF RanksOf
  <2> QED
    BY <1>4, <2>1 DEF FlushRanks
<1>6. /\ Runs(FlushRanks(A)) \subseteq Runs(FlushRanks(B))
      /\ Runs(RanksOf(A)) \subseteq Runs(RanksOf(B))
  BY <1>1, <1>5, RunsGrow
<1> QED
  BY <1>2, <1>3, <1>4, <1>6 DEF Made

\* Told of more cards, the rules never prefer fewer.
LEMMA CategoryGrows ==
  ASSUME NEW A, NEW B \in SUBSET AllCards, A \subseteq B
  PROVE  Category(A) <= Category(B)
<1>1. Category(A) \in 0..9 /\ Made(Category(A), A)
  BY CategoryIsTheBestMade
<1>2. Made(Category(A), B)
  BY <1>1, MadeGrows
<1>3. Category(B) >= Category(A) /\ Category(B) \in 0..9
  BY <1>1, <1>2, CategoryIsTheBestMade
<1> QED
  BY <1>1, <1>3

-----------------------------------------------------------------------------
(* Five cards suffice                                                      *)

\* The cards of one rank or suit that are asked for are found.
LEMMA SomeOfRank ==
  ASSUME NEW cards \in SUBSET AllCards, NEW n \in 0..5, NEW r \in Often(cards, n)
  PROVE  \E X \in SUBSET cards :
           /\ IsFiniteSet(X) /\ Cardinality(X) = n /\ \A c \in X : c[1] = r
           /\ \A Y : X \subseteq Y /\ Y \subseteq cards => Count(Y, r) >= n /\ Count(Y, r) \in Nat
<1> DEFINE S == {c \in cards : c[1] = r}
<1>1. IsFiniteSet(S)
  BY CardsFinite, Fewer
<1>2. n <= Cardinality(S)
  <2>1. Count(cards, r) >= n
    BY DEF Often
  <2>2. Count(cards, r) = Cardinality(S)
    BY DEF Count
  <2>3. Cardinality(S) \in Nat
    BY <1>1, FS_CardinalityType
  <2> HIDE DEF S
  <2> QED
    BY <2>1, <2>2, <2>3
<1>3. PICK X \in SUBSET S : IsFiniteSet(X) /\ Cardinality(X) = n
  BY <1>1, <1>2, Takes
<1>4. ASSUME NEW Y, X \subseteq Y, Y \subseteq cards
      PROVE  Count(Y, r) >= n /\ Count(Y, r) \in Nat
  <2> DEFINE T == {c \in Y : c[1] = r}
  <2>1. IsFiniteSet(T)
    BY <1>4, CardsFinite, Fewer
  <2>2. X \subseteq T
    BY <1>4
  <2>3. Cardinality(T) \in Nat /\ n <= Cardinality(T)
    BY <1>3, <2>1, <2>2, Fewer
  <2>4. Count(Y, r) = Cardinality(T)
    BY DEF Count
  <2> HIDE DEF T
  <2> QED
    BY <2>3, <2>4
<1>5. X \subseteq cards /\ \A c \in X : c[1] = r
  BY <1>3
<1> QED
  BY <1>3, <1>4, <1>5

\* Enough cards of one rank are that rank among the ranks.
LEMMA RankAgain ==
  ASSUME NEW X, NEW r, NEW n \in Nat \ {0}, Count(X, r) >= n, Count(X, r) \in Nat
  PROVE  r \in Often(X, n)
<1>1. {c \in X : c[1] = r} # {}
  <2>1. Cardinality({c \in X : c[1] = r}) # 0
    BY DEF Count
  <2> QED
    BY <2>1, FS_EmptySet
<1> QED
  BY <1>1 DEF Often, RanksOf

LEMMA WheelOfFive == IsFiniteSet(Wheel) /\ Cardinality(Wheel) = 5 /\ 3 \in Runs(Wheel)
<1>1. \A a, b \in Int : /\ IsFiniteSet(a..b)
                        /\ Cardinality(a..b) = IF a > b THEN 0 ELSE b - a + 1
  BY FS_Interval
<1>2. IsFiniteSet(0..3) /\ Cardinality(0..3) = 4
  <2>1. 0 \in Int /\ 3 \in Int
    OBVIOUS
  <2>2. IsFiniteSet(0..3) /\ Cardinality(0..3) = IF 0 > 3 THEN 0 ELSE 3 - 0 + 1
    BY <1>1, <2>1, Zenon
  <2> QED
    BY <2>2
<1>3. Wheel = (0..3) \cup {12} /\ 12 \notin 0..3
  BY DEF Wheel, Ace
<1>4. IsFiniteSet((0..3) \cup {12}) /\ Cardinality((0..3) \cup {12}) = Cardinality(0..3) + 1
  <2> DEFINE low == 0..3
  <2>1. IsFiniteSet(low) /\ 12 \notin low
    BY <1>2
  <2> HIDE DEF low
  <2>2. IsFiniteSet(low \cup {12}) /\ Cardinality(low \cup {12}) = Cardinality(low) + 1
    BY <2>1, FS_AddElement
  <2> QED
    BY <2>2 DEF low
<1>5. 3 \in Runs(Wheel)
  BY DEF Runs
<1> QED
  BY <1>2, <1>3, <1>4, <1>5

\* A straight takes five ranks.
LEMMA FiveRanks ==
  ASSUME NEW R, NEW h \in Runs(R)
  PROVE  \E H \in SUBSET R : IsFiniteSet(H) /\ Cardinality(H) = 5 /\ h \in Runs(H)
<1>1. CASE h \in 4..12 /\ (h - 4)..h \subseteq R
  <2> DEFINE H == (h - 4)..h
  <2>1. h \in Int /\ h - 4 \in Int /\ h - 4 <= h /\ h - (h - 4) + 1 = 5
    BY <1>1
  <2>2. IsFiniteSet(H) /\ Cardinality(H) = IF h - 4 > h THEN 0 ELSE h - (h - 4) + 1
    BY <2>1, FS_Interval
  <2>3. h \in Runs(H)
    BY <1>1 DEF Runs, Ace
  <2>4. Cardinality(H) = 5 /\ H \in SUBSET R
    BY <1>1, <2>1, <2>2
  <2> QED
    BY <2>2, <2>3, <2>4
<1>2. CASE h = 3 /\ Wheel \subseteq R
  BY <1>2, WheelOfFive
<1> QED
  BY <1>1, <1>2 DEF Runs, Ace

\* A card of each rank
LEMMA CardsOfRanks ==
  ASSUME NEW cards \in SUBSET AllCards, NEW H \in SUBSET RanksOf(cards), IsFiniteSet(H)
  PROVE  \E X \in SUBSET cards :
           IsFiniteSet(X) /\ Cardinality(X) <= Cardinality(H) /\ RanksOf(X) = H
<1> DEFINE f == [r \in H |-> CHOOSE c \in cards : c[1] = r]
           X == {f[r] : r \in H}
<1>1. \A r \in H : f[r] \in cards /\ f[r][1] = r
  BY DEF RanksOf
<1>2. X \subseteq cards
  BY <1>1
<1>3. RanksOf(X) = H
  BY <1>1 DEF RanksOf
<1>4. f \in Surjection(H, X)
  BY DEF Surjection
<1> HIDE DEF f, X
<1>5. IsFiniteSet(X) /\ Cardinality(X) <= Cardinality(H)
  BY <1>4, FS_Surjection
<1> QED
  BY <1>2, <1>3, <1>5

\* With at most seven cards only one suit can make a flush.
LEMMA OneFlush ==
  ASSUME NEW cards \in SUBSET AllCards, Cardinality(cards) <= 7, NEW s \in FlushSuits(cards)
  PROVE  FlushSuits(cards) = {s} /\ FlushRanks(cards) = RanksOf(OfSuit(cards, s))
<1>1. IsFiniteSet(cards)
  BY CardsFinite
<1>2. ASSUME NEW t \in FlushSuits(cards), t # s PROVE FALSE
  <2> DEFINE S == OfSuit(cards, s)
             T == OfSuit(cards, t)
  <2>1. IsFiniteSet(S) /\ IsFiniteSet(T) /\ S \subseteq cards /\ T \subseteq cards
    BY <1>1, Fewer DEF OfSuit
  <2>2. S \cap T = {}
    BY <1>2 DEF OfSuit
  <2>3. Cardinality(S) >= 5 /\ Cardinality(T) >= 5
    BY <1>2 DEF FlushSuits
  <2> HIDE DEF S, T
  <2>4. Cardinality(S \cup T) = Cardinality(S) + Cardinality(T)
    BY <2>1, <2>2, Union
  <2>5. S \cup T \subseteq cards
    BY <2>1
  <2>6. /\ Cardinality(S \cup T) \in Nat /\ Cardinality(cards) \in Nat
        /\ Cardinality(S \cup T) <= Cardinality(cards)
    BY <1>1, <2>5, Fewer
  <2>7. Cardinality(S) \in Nat /\ Cardinality(T) \in Nat
    BY <2>1, FS_CardinalityType
  <2> QED
    BY <2>3, <2>4, <2>6, <2>7
<1>3. FlushSuits(cards) = {s}
  BY <1>2
<1> QED
  BY <1>3 DEF FlushRanks

LEMMA SmallGroup ==
  ASSUME NEW cards \in SUBSET AllCards, NEW n \in 1..5, Often(cards, n) # {}
  PROVE  \E X \in SUBSET cards : IsFiniteSet(X) /\ Cardinality(X) = n /\ Often(X, n) # {}
<1>1. PICK r \in Often(cards, n) : TRUE
  OBVIOUS
<1>2. PICK X \in SUBSET cards :
        /\ IsFiniteSet(X) /\ Cardinality(X) = n
        /\ \A Y : X \subseteq Y /\ Y \subseteq cards => Count(Y, r) >= n /\ Count(Y, r) \in Nat
  BY <1>1, SomeOfRank
<1>3. r \in Often(X, n)
  BY <1>2, RankAgain
<1> QED
  BY <1>2, <1>3

\* Two ranks, n of the first and two of the second
LEMMA SmallGroups ==
  ASSUME NEW cards \in SUBSET AllCards, NEW n \in {2, 3},
         NEW r \in Often(cards, n), NEW q \in Often(cards, 2), r # q
  PROVE  \E X \in SUBSET cards :
           /\ IsFiniteSet(X) /\ Cardinality(X) <= 5
           /\ Often(X, n) # {} /\ Cardinality(Often(X, 2)) >= 2
<1>1. PICK X \in SUBSET cards :
        /\ IsFiniteSet(X) /\ Cardinality(X) = n
        /\ \A Y : X \subseteq Y /\ Y \subseteq cards => Count(Y, r) >= n /\ Count(Y, r) \in Nat
  BY SomeOfRank
<1>2. PICK Z \in SUBSET cards :
        /\ IsFiniteSet(Z) /\ Cardinality(Z) = 2
        /\ \A Y : Z \subseteq Y /\ Y \subseteq cards => Count(Y, q) >= 2 /\ Count(Y, q) \in Nat
  BY SomeOfRank
<1>3. /\ X \cup Z \subseteq cards /\ IsFiniteSet(X \cup Z)
      /\ Cardinality(X \cup Z) \in Nat /\ Cardinality(X \cup Z) <= n + 2
  BY <1>1, <1>2, Union
<1>4. /\ Count(X \cup Z, r) >= n /\ Count(X \cup Z, r) \in Nat
      /\ Count(X \cup Z, q) >= 2 /\ Count(X \cup Z, q) \in Nat
  BY <1>1, <1>2
<1>5. r \in Often(X \cup Z, n) /\ r \in Often(X \cup Z, 2) /\ q \in Often(X \cup Z, 2)
  BY <1>4, RankAgain
<1>6. IsFiniteSet(Often(X \cup Z, 2))
  BY <1>3, RanksFinite
<1>7. Cardinality(Often(X \cup Z, 2)) >= 2
  BY <1>5, <1>6, AtLeastTwo
<1> QED
  BY <1>3, <1>5, <1>7

LEMMA SmallFlush ==
  ASSUME NEW cards \in SUBSET AllCards, FlushSuits(cards) # {}
  PROVE  \E X \in SUBSET cards : IsFiniteSet(X) /\ Cardinality(X) = 5 /\ FlushSuits(X) # {}
<1>1. PICK s \in FlushSuits(cards) : TRUE
  OBVIOUS
<1>2. IsFiniteSet(OfSuit(cards, s)) /\ Cardinality(OfSuit(cards, s)) >= 5
  BY <1>1, CardsFinite, Fewer DEF OfSuit, FlushSuits
<1>3. PICK X \in SUBSET OfSuit(cards, s) : IsFiniteSet(X) /\ Cardinality(X) = 5
  <2>1. 5 <= Cardinality(OfSuit(cards, s)) /\ 5 \in 0..5
    BY <1>2, FS_CardinalityType
  <2> QED
    BY <1>2, <2>1, Takes
<1>4. X \subseteq cards /\ OfSuit(X, s) = X
  BY DEF OfSuit
<1>5. X # {}
  BY <1>3, FS_EmptySet
<1>6. s \in SuitsOf(X)
  BY <1>4, <1>5 DEF SuitsOf, OfSuit
<1>7. s \in FlushSuits(X)
  BY <1>3, <1>4, <1>6 DEF FlushSuits
<1> QED
  BY <1>3, <1>4, <1>7

LEMMA SmallStraight ==
  ASSUME NEW cards \in SUBSET AllCards, NEW h \in Runs(RanksOf(cards))
  PROVE  \E X \in SUBSET cards : IsFiniteSet(X) /\ Cardinality(X) <= 5 /\ h \in Runs(RanksOf(X))
<1>1. PICK H \in SUBSET RanksOf(cards) : IsFiniteSet(H) /\ Cardinality(H) = 5 /\ h \in Runs(H)
  BY FiveRanks
<1>2. PICK X \in SUBSET cards :
        IsFiniteSet(X) /\ Cardinality(X) <= Cardinality(H) /\ RanksOf(X) = H
  BY <1>1, CardsOfRanks
<1> QED
  BY <1>1, <1>2

LEMMA SmallStraightFlush ==
  ASSUME NEW cards \in SUBSET AllCards, Cardinality(cards) <= 7,
         NEW h \in Runs(FlushRanks(cards))
  PROVE  \E X \in SUBSET cards : IsFiniteSet(X) /\ Cardinality(X) = 5 /\ h \in Runs(FlushRanks(X))
<1>1. PICK H \in SUBSET FlushRanks(cards) : IsFiniteSet(H) /\ Cardinality(H) = 5 /\ h \in Runs(H)
  BY FiveRanks
<1>2. PICK s \in FlushSuits(cards) : TRUE
  <2>1. H # {}
    BY <1>1, FS_EmptySet
  <2> QED
    BY <2>1 DEF FlushRanks
<1>3. FlushRanks(cards) = RanksOf(OfSuit(cards, s))
  BY <1>2, OneFlush
<1> DEFINE f == [r \in H |-> <<r, s>>]
           X == {f[r] : r \in H}
<1>4. X \subseteq cards
  <2>1. ASSUME NEW r \in H PROVE <<r, s>> \in cards
    <3>1. PICK c \in OfSuit(cards, s) : c[1] = r
      BY <1>1, <1>3, <2>1 DEF RanksOf
    <3>2. c \in cards /\ c[2] = s /\ c \in AllCards
      BY <3>1 DEF OfSuit
    <3>3. c = <<r, s>>
      BY <3>1, <3>2 DEF AllCards
    <3> QED
      BY <3>2, <3>3
  <2> QED
    BY <2>1
<1>20. f \in [H -> X] /\ \A r \in H : f[r][1] = r /\ f[r][2] = s
  OBVIOUS
<1>21. X = {f[r] : r \in H}
  OBVIOUS
<1> HIDE DEF f, X
<1>5. f \in Bijection(H, X)
  <2>1. IsInjective(f)
    BY <1>20 DEF IsInjective
  <2>2. \A x \in X : \E r \in H : f[r] = x
    BY <1>21
  <2> QED
    BY <1>20, <2>1, <2>2 DEF Bijection, Injection, Surjection
<1>6. IsFiniteSet(X) /\ Cardinality(X) = 5
  <2>1. ExistsBijection(H, X)
    BY <1>5 DEF ExistsBijection
  <2> QED
    BY <1>1, <2>1, FS_Bijection
<1>7. OfSuit(X, s) = X /\ RanksOf(X) = H
  BY <1>20, <1>21 DEF OfSuit, RanksOf
<1>8. s \in SuitsOf(X)
  <2>1. H # {}
    BY <1>1, FS_EmptySet
  <2> QED
    BY <2>1, <1>20, <1>21 DEF SuitsOf
<1>9. s \in FlushSuits(X)
  BY <1>6, <1>7, <1>8 DEF FlushSuits
<1>10. H \subseteq FlushRanks(X)
  BY <1>7, <1>9 DEF FlushRanks
<1>11. h \in Runs(FlushRanks(X))
  BY <1>1, <1>10, RunsGrow
<1> QED
  BY <1>4, <1>6, <1>11

\* Whatever category is made, five of the cards or fewer make it.
LEMMA FiveSuffice ==
  ASSUME NEW cards \in SUBSET AllCards, Cardinality(cards) <= 7,
         NEW k \in 0..9, Made(k, cards)
  PROVE  \E X \in SUBSET cards : IsFiniteSet(X) /\ Cardinality(X) <= 5 /\ Made(k, X)
<1> USE DEF ROYAL_FLUSH, STRAIGHT_FLUSH, FOUR_OF_A_KIND, FULL_HOUSE, FLUSH, STRAIGHT,
            THREE_OF_A_KIND, TWO_PAIR, ONE_PAIR
<1>1. CASE k = 0
  <2>1. Made(0, {})
    BY DEF Made
  <2>2. IsFiniteSet({}) /\ Cardinality({}) <= 5
    BY FS_EmptySet
  <2> QED
    BY <1>1, <2>1, <2>2
<1>2. ASSUME NEW n \in {2, 3, 4}, Often(cards, n) # {},
             \A X \in SUBSET cards : Often(X, n) # {} => Made(k, X)
      PROVE  \E X \in SUBSET cards : IsFiniteSet(X) /\ Cardinality(X) <= 5 /\ Made(k, X)
  <2>1. PICK X \in SUBSET cards : IsFiniteSet(X) /\ Cardinality(X) = n /\ Often(X, n) # {}
    BY <1>2, SmallGroup
  <2> QED
    BY <1>2, <2>1
<1>3. CASE k = 1
  BY <1>2, <1>3 DEF Made
<1>4. CASE k = 3
  BY <1>2, <1>4 DEF Made
<1>5. CASE k = 7
  BY <1>2, <1>5 DEF Made
<1>6. CASE k = 2
  <2>1. IsFiniteSet(Often(cards, 2)) /\ Cardinality(Often(cards, 2)) >= 2
    BY <1>6, RanksFinite DEF Made
  <2>2. PICK r, q \in Often(cards, 2) : r # q
    BY <2>1, AtLeastTwo
  <2>3. PICK X \in SUBSET cards :
          IsFiniteSet(X) /\ Cardinality(X) <= 5 /\ Cardinality(Often(X, 2)) >= 2
    BY <2>2, SmallGroups
  <2> QED
    BY <1>6, <2>3 DEF Made
<1>7. CASE k = 6
  <2>1. /\ IsFiniteSet(Often(cards, 2)) /\ Cardinality(Often(cards, 2)) >= 2
        /\ Often(cards, 3) # {}
    BY <1>7, RanksFinite DEF Made
  <2>2. PICK x, y \in Often(cards, 2) : x # y
    BY <2>1, AtLeastTwo
  <2>3. PICK r \in Often(cards, 3), q \in Often(cards, 2) : r # q
    BY <2>1, <2>2
  <2>4. PICK X \in SUBSET cards :
          /\ IsFiniteSet(X) /\ Cardinality(X) <= 5
          /\ Often(X, 3) # {} /\ Cardinality(Often(X, 2)) >= 2
    BY <2>3, SmallGroups
  <2> QED
    BY <1>7, <2>4 DEF Made
<1>8. CASE k = 5
  <2>1. PICK X \in SUBSET cards : IsFiniteSet(X) /\ Cardinality(X) = 5 /\ FlushSuits(X) # {}
    BY <1>8, SmallFlush DEF Made
  <2> QED
    BY <1>8, <2>1 DEF Made
<1>9. CASE k = 4
  <2>1. PICK h \in Runs(RanksOf(cards)) : TRUE
    BY <1>9 DEF Made
  <2>2. PICK X \in SUBSET cards : IsFiniteSet(X) /\ Cardinality(X) <= 5 /\ h \in Runs(RanksOf(X))
    BY <2>1, SmallStraight
  <2> QED
    BY <1>9, <2>2 DEF Made
<1>10. CASE k \in {8, 9}
  <2>1. PICK h \in Runs(FlushRanks(cards)) : k = 9 => h = Ace
    BY <1>10 DEF Made
  <2>2. PICK X \in SUBSET cards :
          IsFiniteSet(X) /\ Cardinality(X) = 5 /\ h \in Runs(FlushRanks(X))
    BY <2>1, SmallStraightFlush
  <2> QED
    BY <1>10, <2>1, <2>2 DEF Made
<1> QED
  BY <1>1, <1>3, <1>4, <1>5, <1>6, <1>7, <1>8, <1>9, <1>10

-----------------------------------------------------------------------------
(* Of five cards evaluateFive and the rules say the same                   *)

LEMMA RanksAreFew ==
  ASSUME NEW cards \in SUBSET AllCards
  PROVE  /\ IsFiniteSet(RanksOf(cards)) /\ Cardinality(RanksOf(cards)) \in Nat
         /\ Cardinality(cards) \in Nat /\ Cardinality(RanksOf(cards)) <= Cardinality(cards)
<1> DEFINE f == [c \in cards |-> c[1]]
<1>1. IsFiniteSet(cards)
  BY CardsFinite
<1>2. f \in Surjection(cards, RanksOf(cards))
  BY DEF Surjection, RanksOf
<1>3. /\ IsFiniteSet(RanksOf(cards))
      /\ Cardinality(RanksOf(cards)) <= Cardinality(cards)
  BY <1>1, <1>2, FS_Surjection
<1> QED
  BY <1>1, <1>3, FS_CardinalityType

\* As many ranks as five cards have, if they hold a straight
LEMMA OnlyTheRun ==
  ASSUME NEW five \in SUBSET AllCards, Cardinality(five) = 5,
         NEW H \in SUBSET RanksOf(five), IsFiniteSet(H), Cardinality(H) = 5
  PROVE  RanksOf(five) = H
<1>1. IsFiniteSet(RanksOf(five)) /\ Cardinality(RanksOf(five)) <= Cardinality(H)
  BY RanksAreFew
<1> QED
  BY <1>1, Fewer

LEMMA LowestRank ==
  ASSUME NEW R \in SUBSET (0..12), R # {}
  PROVE  \E l \in R : \A r \in R : l <= r
<1> DEFINE Above(n) == \A r \in R : r >= n
<1>1. SUFFICES ASSUME \A l \in R : \E r \in R : ~(l <= r)
               PROVE  FALSE
  OBVIOUS
<1>2. Above(0)
  OBVIOUS
<1>3. ASSUME NEW n \in 0..12, Above(n) PROVE Above(n + 1)
  <2>1. n \notin R
    BY <1>1, <1>3
  <2> QED
    BY <1>3, <2>1
<1> HIDE DEF Above
<1>4. Above(1) /\ Above(2) /\ Above(3) /\ Above(4) /\ Above(5) /\ Above(6) /\ Above(7)
  BY <1>2, <1>3
<1>5. Above(8) /\ Above(9) /\ Above(10) /\ Above(11) /\ Above(12) /\ Above(13)
  BY <1>3, <1>4
<1>6. \A r \in R : r >= 13
  BY <1>5 DEF Above
<1>7. \A r \in R : r \in 0..12
  OBVIOUS
<1>8. PICK r \in R : TRUE
  OBVIOUS
<1>9. r >= 13 /\ r \in 0..12
  BY <1>6, <1>7, <1>8
<1> QED
  BY <1>9

LEMMA HighestRank ==
  ASSUME NEW R \in SUBSET (0..12), R # {}
  PROVE  \E h \in R : \A r \in R : h >= r
<1> DEFINE down == {12 - r : r \in R}
<1>1. down \in SUBSET (0..12) /\ down # {}
  <2>1. ASSUME NEW r \in R PROVE 12 - r \in 0..12
    <3>1. r \in 0..12
      OBVIOUS
    <3> QED
      BY <3>1
  <2>2. \A x \in down : \E r \in R : x = 12 - r
    OBVIOUS
  <2>3. \E r \in R : 12 - r \in down
    OBVIOUS
  <2> HIDE DEF down
  <2> QED
    BY <2>1, <2>2, <2>3
<1>2. PICK l \in down : \A x \in down : l <= x
  <2> HIDE DEF down
  <2> QED
    BY <1>1, LowestRank
<1>3. PICK h \in R : l = 12 - h
  BY <1>2
<1>4. ASSUME NEW r \in R PROVE h >= r
  <2>1. 12 - h <= 12 - r
    BY <1>2, <1>3
  <2>2. h \in 0..12 /\ r \in 0..12
    OBVIOUS
  <2> QED
    BY <2>1, <2>2
<1> QED
  BY <1>4

LEMMA MaxAndMin ==
  ASSUME NEW R \in SUBSET (0..12), R # {}
  PROVE  /\ Max(R) \in R /\ \A r \in R : Max(R) >= r
         /\ Min(R) \in R /\ \A r \in R : Min(R) <= r
<1>1. /\ \E h \in R : \A r \in R : h >= r
      /\ \E l \in R : \A r \in R : l <= r
  BY HighestRank, LowestRank
<1>2. Max(R) \in R /\ \A r \in R : Max(R) >= r
  BY <1>1 DEF Max
<1>3. Min(R) \in R /\ \A r \in R : Min(R) <= r
  BY <1>1 DEF Min
<1> QED
  BY <1>2, <1>3

\* The ranks of the straight up to h
RunTo(h) == (h - 4)..h

LEMMA RunOfFive ==
  ASSUME NEW h \in Int
  PROVE  /\ IsFiniteSet(RunTo(h)) /\ Cardinality(RunTo(h)) = 5
         /\ \A r : r \in RunTo(h) <=> r \in Int /\ h - 4 <= r /\ r <= h
<1> DEFINE l == h - 4
<1>1. l \in Int /\ l <= h /\ h - l + 1 = 5
  OBVIOUS
<1>2. RunTo(h) = l..h /\ \A r : r \in RunTo(h) <=> r \in Int /\ l <= r /\ r <= h
  BY DEF RunTo
<1> HIDE DEF l
<1>3. IsFiniteSet(l..h) /\ Cardinality(l..h) = IF l > h THEN 0 ELSE h - l + 1
  BY <1>1, FS_Interval
<1>4. Cardinality(l..h) = 5
  BY <1>1, <1>3
<1> QED
  BY <1>2, <1>3, <1>4 DEF l

\* isStraight is a run of five ranks, by the rules.
LEMMA StraightIsRun ==
  ASSUME NEW five \in SUBSET AllCards, Cardinality(five) = 5
  PROVE  /\ IsStraight(five) <=> Runs(RanksOf(five)) # {}
         /\ RanksOf(five) = 8..12 <=> 12 \in Runs(RanksOf(five))
<1> DEFINE R == RanksOf(five)
<1>1. R \in SUBSET (0..12)
  BY RanksFinite DEF Ranks
<1>2. ASSUME IsStraight(five) PROVE Runs(R) # {}
  <2>1. Cardinality(R) = 5 /\ (Max(R) - Min(R) = 4 \/ R = Wheel)
    BY <1>2 DEF IsStraight
  <2>2. CASE R = Wheel
    BY <2>2, WheelOfFive
  <2>3. CASE Max(R) - Min(R) = 4
    <3>1. R # {}
      BY <2>1, FS_EmptySet
    <3> DEFINE h == Max(R)
    <3>2. /\ h \in R /\ Min(R) \in R /\ Min(R) = h - 4
          /\ \A r \in R : r <= h /\ r >= h - 4
      BY <1>1, <2>3, <3>1, MaxAndMin
    <3> HIDE DEF h
    <3>3. h \in 4..12
      BY <1>1, <3>2
    <3>4. IsFiniteSet(RunTo(h)) /\ Cardinality(RunTo(h)) = 5 /\ R \subseteq RunTo(h)
      BY <1>1, <3>2, <3>3, RunOfFive
    <3>5. R = RunTo(h)
      <4> HIDE DEF R
      <4> QED
        BY <2>1, <3>4, Fewer
    <3>6. h \in Runs(R)
      BY <3>3, <3>5 DEF Runs, Ace, RunTo
    <3> QED
      BY <3>6
  <2> QED
    BY <2>1, <2>2, <2>3
<1>3. ASSUME NEW h \in 4..12, RunTo(h) \subseteq R
      PROVE  R = RunTo(h) /\ IsStraight(five)
  <2>1. IsFiniteSet(RunTo(h)) /\ Cardinality(RunTo(h)) = 5
    BY RunOfFive
  <2>2. R = RunTo(h)
    BY <1>3, <2>1, OnlyTheRun
  <2>3. R # {} /\ h \in R /\ h - 4 \in R /\ \A r \in R : r <= h /\ r >= h - 4
    <3>1. h \in Int /\ h - 4 \in Int /\ h - 4 <= h
      OBVIOUS
    <3>2. h \in RunTo(h) /\ h - 4 \in RunTo(h) /\ \A r \in RunTo(h) : r <= h /\ r >= h - 4
      BY <3>1, RunOfFive
    <3> HIDE DEF R
    <3> QED
      BY <2>2, <3>2
  <2>4. Max(R) = h /\ Min(R) = h - 4
    <3>1. Max(R) \in R /\ Max(R) >= h /\ Min(R) \in R /\ Min(R) <= h - 4
      BY <1>1, <2>3, MaxAndMin
    <3> QED
      BY <1>1, <2>3, <3>1
  <2>5. Max(R) - Min(R) = 4
    BY <2>4
  <2> QED
    BY <2>1, <2>2, <2>5 DEF IsStraight
<1>4. ASSUME Wheel \subseteq R PROVE R = Wheel /\ IsStraight(five)
  <2>1. R = Wheel
    BY <1>4, WheelOfFive, OnlyTheRun
  <2> QED
    BY <2>1, WheelOfFive DEF IsStraight
<1>5. Runs(R) # {} => IsStraight(five)
  <2>1. Runs(R) # {} => (\E h \in 4..12 : RunTo(h) \subseteq R) \/ Wheel \subseteq R
    BY DEF Runs, Ace, RunTo
  <2> QED
    BY <1>3, <1>4, <2>1
<1>6. R = 8..12 <=> 12 \in Runs(R)
  <2>1. 12 \in Runs(R) <=> RunTo(12) \subseteq R
    BY DEF Runs, Ace, RunTo
  <2>2. RunTo(12) \subseteq R => R = RunTo(12)
    <3>1. 12 \in 4..12
      OBVIOUS
    <3> QED
      BY <1>3, <3>1
  <2>3. RunTo(12) = 8..12
    BY DEF RunTo
  <2> QED
    BY <2>1, <2>2, <2>3
<1> QED
  BY <1>2, <1>5, <1>6

\* isFlush is five cards of a suit, by the rules; then all ranks are its ranks.
LEMMA FlushIsSuit ==
  ASSUME NEW five \in SUBSET AllCards, Cardinality(five) = 5
  PROVE  /\ IsFlush(five) <=> FlushSuits(five) # {}
         /\ IsFlush(five) => FlushRanks(five) = RanksOf(five)
         /\ ~IsFlush(five) => Runs(FlushRanks(five)) = {}
<1>1. IsFiniteSet(five)
  BY CardsFinite
<1>2. IsFiniteSet(SuitsOf(five))
  <2>1. \A a, b \in Int : IsFiniteSet(a..b)
    BY FS_Interval
  <2>2. 0 \in Int /\ 3 \in Int
    OBVIOUS
  <2>3. IsFiniteSet(Suits)
    BY <2>1, <2>2, Zenon DEF Suits
  <2> QED
    BY <2>3, RanksFinite, Fewer
<1>3. IsFlush(five) <=> \E s : SuitsOf(five) = {s}
  BY <1>2, FS_Singleton DEF IsFlush
<1>4. ASSUME NEW s \in FlushSuits(five) PROVE OfSuit(five, s) = five /\ SuitsOf(five) = {s}
  <2>1. OfSuit(five, s) \subseteq five /\ Cardinality(OfSuit(five, s)) >= 5 /\ s \in SuitsOf(five)
    BY DEF OfSuit, FlushSuits
  <2>2. Cardinality(OfSuit(five, s)) \in Nat
    BY <1>1, <2>1, Fewer
  <2>3. OfSuit(five, s) = five
    BY <1>1, <2>1, <2>2, Fewer
  <2> QED
    BY <2>1, <2>3 DEF OfSuit, SuitsOf
<1>5. ASSUME NEW s, SuitsOf(five) = {s} PROVE s \in FlushSuits(five)
  <2>1. OfSuit(five, s) = five /\ s \in SuitsOf(five)
    BY <1>5 DEF OfSuit, SuitsOf
  <2> QED
    BY <2>1 DEF FlushSuits
<1>6. IsFlush(five) <=> FlushSuits(five) # {}
  BY <1>3, <1>4, <1>5
<1>7. IsFlush(five) => FlushRanks(five) = RanksOf(five)
  <2>1. ASSUME NEW s \in FlushSuits(five) PROVE FlushRanks(five) = RanksOf(five)
    <3>1. OfSuit(five, s) = five /\ FlushSuits(five) = {s}
      BY <1>4
    <3> QED
      BY <3>1 DEF FlushRanks
  <2> QED
    BY <1>6, <2>1
<1>8. ~IsFlush(five) => Runs(FlushRanks(five)) = {}
  <2>1. FlushSuits(five) = {} => FlushRanks(five) = {}
    BY DEF FlushRanks
  <2>2. Runs({}) = {}
    <3>1. \A h \in 4..12 : h \in (h - 4)..h
      OBVIOUS
    <3> QED
      BY <3>1 DEF Runs, Ace, Wheel
  <2> QED
    BY <1>6, <2>1, <2>2
<1> QED
  BY <1>6, <1>7, <1>8

\* Four suits, so four cards of a rank at most
LEMMA FourOfARankAtMost ==
  ASSUME NEW cards \in SUBSET AllCards, NEW r
  PROVE  Count(cards, r) \in 0..4
<1> DEFINE S == {c \in cards : c[1] = r}
<1>1. S \subseteq {r} \X Suits
  BY DEF AllCards
<1>2. IsFiniteSet(Suits) /\ Cardinality(Suits) = 4
  <2>1. \A a, b \in Int : /\ IsFiniteSet(a..b)
                          /\ Cardinality(a..b) = IF a > b THEN 0 ELSE b - a + 1
    BY FS_Interval
  <2>2. 0 \in Int /\ 3 \in Int
    OBVIOUS
  <2>3. IsFiniteSet(0..3) /\ Cardinality(0..3) = IF 0 > 3 THEN 0 ELSE 3 - 0 + 1
    BY <2>1, <2>2, Zenon
  <2>4. Cardinality(0..3) = 4
    BY <2>3
  <2> QED
    BY <2>3, <2>4, Zenon DEF Suits
<1>3. IsFiniteSet({r} \X Suits) /\ Cardinality({r} \X Suits) = 1 * 4
  <2>1. IsFiniteSet({r}) /\ Cardinality({r}) = 1
    BY FS_Singleton
  <2>2. /\ IsFiniteSet({r} \X Suits)
        /\ Cardinality({r} \X Suits) = Cardinality({r}) * Cardinality(Suits)
    BY <1>2, <2>1, FS_Product
  <2> QED
    BY <1>2, <2>1, <2>2
<1>4. Cardinality(S) \in Nat /\ Cardinality(S) <= Cardinality({r} \X Suits)
  BY <1>1, <1>3, Fewer
<1>5. Count(cards, r) = Cardinality(S)
  BY DEF Count
<1> HIDE DEF S
<1> QED
  BY <1>3, <1>4, <1>5

\* The counts of different ranks are of different cards.
LEMMA CountsOfFive ==
  ASSUME NEW five \in SUBSET AllCards, Cardinality(five) = 5,
         NEW r, NEW q, NEW t
  PROVE  /\ r # q => Count(five, r) + Count(five, q) <= 5
         /\ r # q /\ q # t /\ r # t => Count(five, r) + Count(five, q) + Count(five, t) <= 5
<1> DEFINE S(x) == {c \in five : c[1] = x}
<1>1. IsFiniteSet(five)
  BY CardsFinite
<1>2. \A x : S(x) \subseteq five
  OBVIOUS
<1>3. \A x : Count(five, x) = Cardinality(S(x))
  BY DEF Count
<1>4. \A x, y : x # y => S(x) \cap S(y) = {}
  OBVIOUS
<1>5. r # q /\ q # t /\ r # t => (S(r) \cup S(q)) \cap S(t) = {}
  OBVIOUS
<1> HIDE DEF S
<1>6. \A x : IsFiniteSet(S(x))
  BY <1>1, <1>2, Fewer
<1>7. \A x : Cardinality(S(x)) \in Nat
  BY <1>6, FS_CardinalityType
<1>8. /\ IsFiniteSet(S(r) \cup S(q)) /\ S(r) \cup S(q) \subseteq five
      /\ r # q => Cardinality(S(r) \cup S(q)) = Cardinality(S(r)) + Cardinality(S(q))
  BY <1>2, <1>4, <1>6, Union
<1>9. Cardinality(S(r) \cup S(q)) \in Nat /\ Cardinality(S(r) \cup S(q)) <= 5
  BY <1>1, <1>8, Fewer
<1>10. r # q => Count(five, r) + Count(five, q) <= 5
  BY <1>3, <1>8, <1>9
<1>11. ASSUME r # q, q # t, r # t
       PROVE  Count(five, r) + Count(five, q) + Count(five, t) <= 5
  <2>1. /\ Cardinality((S(r) \cup S(q)) \cup S(t)) = Cardinality(S(r) \cup S(q)) + Cardinality(S(t))
        /\ (S(r) \cup S(q)) \cup S(t) \subseteq five
    BY <1>2, <1>5, <1>6, <1>8, <1>11, Union
  <2>2. /\ Cardinality((S(r) \cup S(q)) \cup S(t)) \in Nat
        /\ Cardinality((S(r) \cup S(q)) \cup S(t)) <= 5
    BY <1>1, <2>1, Fewer
  <2> QED
    BY <1>3, <1>7, <1>8, <1>11, <2>1, <2>2
<1> QED
  BY <1>10, <1>11

LEMMA ThirdElement ==
  ASSUME NEW S, IsFiniteSet(S), ~(Cardinality(S) <= 2)
  PROVE  \E x, y, z \in S : x # y /\ y # z /\ x # z
<1>1. Cardinality(S) \in Nat
  BY FS_CardinalityType
<1>2. PICK x \in S : TRUE
  BY <1>1, AtLeastTwo
<1>3. IsFiniteSet(S \ {x}) /\ Cardinality(S \ {x}) = Cardinality(S) - 1
  BY FS_RemoveElement
<1>4. Cardinality(S \ {x}) >= 2
  BY <1>1, <1>3
<1>5. PICK y, z \in S \ {x} : y # z
  BY <1>3, <1>4, AtLeastTwo
<1> QED
  BY <1>5

\* Counted exactly, as evaluateFive counts, and counted at least, as the rules do
LEMMA CountedAndOften ==
  ASSUME NEW five \in SUBSET AllCards, Cardinality(five) = 5
  PROVE  /\ Often(five, 4) = RanksCounted(five, 4)
         /\ Often(five, 4) = {} =>
              /\ Often(five, 3) = RanksCounted(five, 3)
              /\ Often(five, 2) = RanksCounted(five, 2) \cup RanksCounted(five, 3)
<1>1. \A r : Count(five, r) \in 0..4
  BY FourOfARankAtMost
<1>2. Often(five, 4) = RanksCounted(five, 4)
  BY <1>1 DEF Often, RanksCounted
<1>3. ASSUME Often(five, 4) = {}
      PROVE  /\ Often(five, 3) = RanksCounted(five, 3)
             /\ Often(five, 2) = RanksCounted(five, 2) \cup RanksCounted(five, 3)
  <2>1. \A r \in RanksOf(five) : Count(five, r) \in 0..3
    BY <1>1, <1>3 DEF Often
  <2> QED
    BY <2>1 DEF Often, RanksCounted
<1> QED
  BY <1>2, <1>3

\* A full house is three of a rank and two of another; so is nothing else of
\* five cards with three of a rank, and there are two pairs at most.
LEMMA PairsOfFive ==
  ASSUME NEW five \in SUBSET AllCards, Cardinality(five) = 5, Often(five, 4) = {}
  PROVE  LET pairs == Cardinality(RanksCounted(five, 2))
             three == RanksCounted(five, 3) # {}
         IN /\ pairs \in 0..2
            /\ three => pairs \in 0..1 /\ (pairs = 1 <=> Cardinality(Often(five, 2)) >= 2)
            /\ ~three => /\ pairs = 2 <=> Cardinality(Often(five, 2)) >= 2
                         /\ pairs >= 1 <=> Often(five, 2) # {}
<1> DEFINE P == RanksCounted(five, 2)
           T == RanksCounted(five, 3)
           O == Often(five, 2)
<1>1. O = P \cup T
  BY CountedAndOften
<1>2. (\A r \in P : Count(five, r) = 2) /\ (\A r \in T : Count(five, r) = 3)
  BY DEF RanksCounted
<1>3. IsFiniteSet(O)
  BY RanksFinite
<1>4. \A r, q, t : r # q /\ q # t /\ r # t => Count(five, r) + Count(five, q) + Count(five, t) <= 5
  BY CountsOfFive
<1>5. \A r, q : r # q => Count(five, r) + Count(five, q) <= 5
  BY CountsOfFive
<1>6. \A r \in P : r \notin T
  BY <1>2
<1> HIDE DEF P, T, O
<1>7. IsFiniteSet(P)
  BY <1>1, <1>3, Fewer
<1>8. Cardinality(P) \in 0..2
  <2>1. ASSUME NEW x \in P, NEW y \in P, NEW z \in P, x # y, y # z, x # z PROVE FALSE
    <3>1. Count(five, x) = 2 /\ Count(five, y) = 2 /\ Count(five, z) = 2
      BY <1>2
    <3>2. Count(five, x) + Count(five, y) + Count(five, z) <= 5
      BY <1>4, <2>1
    <3> QED
      BY <3>1, <3>2
  <2>2. Cardinality(P) <= 2
    BY <1>7, <2>1, ThirdElement
  <2> QED
    BY <1>7, <2>2, FS_CardinalityType
<1>9. ASSUME NEW t \in T
      PROVE  Cardinality(P) \in 0..1 /\ (Cardinality(P) = 1 <=> Cardinality(O) >= 2)
  <2>1. ASSUME NEW x \in P, NEW y \in P, x # y PROVE FALSE
    <3>1. Count(five, x) = 2 /\ Count(five, y) = 2 /\ Count(five, t) = 3 /\ x # t /\ y # t
      BY <1>2, <1>6
    <3>2. Count(five, x) + Count(five, y) + Count(five, t) <= 5
      BY <1>4, <2>1, <3>1
    <3> QED
      BY <3>1, <3>2
  <2>2. ASSUME NEW x \in T, x # t PROVE FALSE
    <3>1. Count(five, x) = 3 /\ Count(five, t) = 3
      BY <1>2
    <3>2. Count(five, x) + Count(five, t) <= 5
      BY <1>5, <2>2
    <3> QED
      BY <3>1, <3>2
  <2>3. Cardinality(P) \in 0..1
    <3>1. ~(Cardinality(P) >= 2)
      BY <1>7, <2>1, AtLeastTwo
    <3> QED
      BY <1>8, <3>1
  <2>4. Cardinality(P) = 1 <=> P # {}
    BY <1>7, <2>3, AtLeastTwo
  <2>5. Cardinality(O) >= 2 <=> \E x, y \in O : x # y
    BY <1>3, AtLeastTwo
  <2>6. (\E x, y \in O : x # y) <=> P # {}
    BY <1>1, <1>6, <2>2
  <2> QED
    BY <2>3, <2>4, <2>5, <2>6
<1>10. ASSUME T = {}
       PROVE  /\ Cardinality(P) = 2 <=> Cardinality(O) >= 2
              /\ Cardinality(P) >= 1 <=> O # {}
  <2>1. O = P
    BY <1>1, <1>10
  <2> QED
    BY <1>7, <1>8, <2>1, AtLeastTwo
<1> QED
  BY <1>8, <1>9, <1>10 DEF P, T, O

\* The ranks of a flush and of a straight are five.
LEMMA DistinctRanks ==
  ASSUME NEW five \in SUBSET AllCards, Cardinality(five) = 5,
         IsFlush(five) \/ IsStraight(five), NEW n \in {2, 3, 4}
  PROVE  RanksCounted(five, n) = {}
<1>1. IsFiniteSet(five)
  BY CardsFinite
<1>2. \A c, d \in five : c[1] = d[1] => c = d
  <2>1. CASE IsFlush(five)
    <3>1. FlushSuits(five) # {}
      BY <2>1, FlushIsSuit
    <3>2. PICK s \in FlushSuits(five) : TRUE
      BY <3>1
    <3>3. OfSuit(five, s) \subseteq five /\ Cardinality(OfSuit(five, s)) >= 5
      BY <3>2 DEF OfSuit, FlushSuits
    <3>4. Cardinality(OfSuit(five, s)) \in Nat
      BY <1>1, <3>3, Fewer
    <3>5. OfSuit(five, s) = five
      BY <1>1, <3>3, <3>4, Fewer
    <3>6. \A c \in five : c = <<c[1], s>>
      BY <3>5 DEF OfSuit, AllCards
    <3> QED
      BY <3>6
  <2>2. CASE IsStraight(five)
    <3> DEFINE f == [c \in five |-> c[1]]
    <3>1. f \in Surjection(five, RanksOf(five))
      BY DEF Surjection, RanksOf
    <3>2. Cardinality(RanksOf(five)) = Cardinality(five)
      BY <2>2 DEF IsStraight
    <3>3. f \in Injection(five, RanksOf(five))
      <4> HIDE DEF f
      <4> QED
        BY <1>1, <3>1, <3>2, FS_Surjection
    <3> QED
      BY <3>3 DEF Injection, IsInjective
  <2> QED
    BY <2>1, <2>2
<1>3. ASSUME NEW r PROVE Count(five, r) # n
  <2> DEFINE S == {c \in five : c[1] = r}
  <2>1. IsFiniteSet(S) /\ \A c, d \in S : c = d
    BY <1>1, <1>2, Fewer
  <2>2. ~(Cardinality(S) >= 2)
    <3> HIDE DEF S
    <3> QED
      BY <2>1, AtLeastTwo
  <2>3. Count(five, r) = Cardinality(S)
    BY DEF Count
  <2> HIDE DEF S
  <2> QED
    BY <2>2, <2>3
<1> QED
  BY <1>3 DEF RanksCounted

\* Four of a rank leave one card.
LEMMA FourLeaveOne ==
  ASSUME NEW five \in SUBSET AllCards, Cardinality(five) = 5, RanksCounted(five, 4) # {}
  PROVE  RanksCounted(five, 3) = {} /\ RanksCounted(five, 2) = {}
<1>1. PICK r \in RanksCounted(five, 4) : TRUE
  OBVIOUS
<1>2. ASSUME NEW n \in {2, 3}, NEW q \in RanksCounted(five, n) PROVE FALSE
  <2>1. Count(five, r) = 4 /\ Count(five, q) = n
    BY <1>1, <1>2 DEF RanksCounted
  <2>2. r # q => Count(five, r) + Count(five, q) <= 5
    BY CountsOfFive
  <2> QED
    BY <2>1, <2>2
<1> QED
  BY <1>2

\* evaluateFive, which counts exactly, gives the rules' category of five cards.
LEMMA FiveCards ==
  ASSUME NEW five \in SUBSET AllCards, Cardinality(five) = 5
  PROVE  EvaluateFive(five) = Category(five)
<1> DEFINE flush == IsFlush(five)
           straight == IsStraight(five)
           royal == RanksOf(five) = 8..12
           pairs == Cardinality(RanksCounted(five, 2))
           three == RanksCounted(five, 3) # {}
           four == RanksCounted(five, 4) # {}
           suited == Runs(FlushRanks(five))
           many == Cardinality(Often(five, 2)) >= 2
           some == Often(five, 2) # {}
<1>1. EvaluateFive(five) =
        CASE flush /\ straight -> IF royal THEN 9 ELSE 8
          [] four -> 7
          [] three /\ pairs = 1 -> 6
          [] flush /\ ~straight -> 5
          [] straight /\ ~flush -> 4
          [] three /\ pairs = 0 -> 3
          [] pairs = 2 -> 2
          [] pairs = 1 /\ ~three -> 1
          [] OTHER -> 0
  BY DEF EvaluateFive, ROYAL_FLUSH, STRAIGHT_FLUSH, FOUR_OF_A_KIND, FULL_HOUSE, FLUSH,
         STRAIGHT, THREE_OF_A_KIND, TWO_PAIR, ONE_PAIR, HIGH_CARD, Ace
<1>2. Category(five) =
        CASE 12 \in suited -> 9
          [] suited # {} /\ 12 \notin suited -> 8
          [] suited = {} ->
               IF Often(five, 4) # {} THEN 7
               ELSE IF Often(five, 3) # {} /\ many THEN 6
               ELSE IF FlushSuits(five) # {} THEN 5
               ELSE IF Runs(RanksOf(five)) # {} THEN 4
               ELSE IF Often(five, 3) # {} THEN 3
               ELSE IF many THEN 2 ELSE IF some THEN 1 ELSE 0
  BY DEF Category, ROYAL_FLUSH, STRAIGHT_FLUSH, FOUR_OF_A_KIND, FULL_HOUSE, FLUSH, STRAIGHT,
         THREE_OF_A_KIND, TWO_PAIR, ONE_PAIR, HIGH_CARD, Ace
<1>3. /\ straight <=> Runs(RanksOf(five)) # {}
      /\ royal <=> 12 \in Runs(RanksOf(five))
  BY StraightIsRun
<1>4. /\ flush <=> FlushSuits(five) # {}
      /\ flush => suited = Runs(RanksOf(five))
      /\ ~flush => suited = {}
  BY FlushIsSuit
<1>5. /\ four <=> Often(five, 4) # {}
      /\ ~four => (three <=> Often(five, 3) # {})
  BY CountedAndOften
<1>6. ~four => /\ pairs \in 0..2
               /\ three => pairs \in 0..1 /\ (pairs = 1 <=> many)
               /\ ~three => (pairs = 2 <=> many) /\ (pairs >= 1 <=> some)
  BY <1>5, PairsOfFive
<1>11. flush \/ straight => ~four /\ ~three /\ pairs = 0
  BY DistinctRanks, FS_EmptySet
<1>12. four => ~three /\ pairs = 0
  BY FourLeaveOne, FS_EmptySet
<1> HIDE DEF flush, straight, royal, pairs, three, four, suited, many, some
<1>7. CASE flush /\ straight
  <2>1. EvaluateFive(five) = IF royal THEN 9 ELSE 8
    BY <1>1, <1>7, <1>11
  <2>2. suited # {} /\ (royal <=> 12 \in suited)
    BY <1>3, <1>4, <1>7
  <2>3. Category(five) = IF 12 \in suited THEN 9 ELSE 8
    BY <1>2, <2>2
  <2> QED
    BY <2>1, <2>2, <2>3
<1>8. CASE ~(flush /\ straight)
  <2>1. suited = {} /\ 12 \notin suited
    BY <1>3, <1>4, <1>8
  <2>2. Category(five) =
          IF four THEN 7 ELSE IF three /\ many THEN 6 ELSE IF flush THEN 5
          ELSE IF straight THEN 4 ELSE IF three THEN 3
          ELSE IF many THEN 2 ELSE IF some THEN 1 ELSE 0
    BY <1>2, <1>3, <1>4, <1>5, <2>1
  <2>3. EvaluateFive(five) =
          IF four THEN 7 ELSE IF three /\ pairs = 1 THEN 6 ELSE IF flush THEN 5
          ELSE IF straight THEN 4 ELSE IF three /\ pairs = 0 THEN 3
          ELSE IF pairs = 2 THEN 2 ELSE IF pairs = 1 /\ ~three THEN 1 ELSE 0
    BY <1>1, <1>6, <1>8, <1>11, <1>12
  <2> QED
    BY <1>6, <2>2, <2>3
<1> QED
  BY <1>7, <1>8

-----------------------------------------------------------------------------
(* The best of the combinations                                            *)

\* HandRanking::evaluate, for every set of five to seven cards: the best of the
\* five-card combinations is the category that the rules tell of all the cards.
THEOREM EvaluateIsCategory ==
  ASSUME NEW cards \in SUBSET AllCards, CanEvaluate(cards)
  PROVE  Evaluate(cards) = Category(cards)
<1> DEFINE values == {EvaluateFive(five) : five \in kSubset(5, cards)}
<1>1. IsFiniteSet(cards) /\ Cardinality(cards) \in 5..7
  BY CardsFinite DEF CanEvaluate
<1>2. \A five \in kSubset(5, cards) :
        /\ five \in SUBSET cards /\ five \in SUBSET AllCards /\ Cardinality(five) = 5
        /\ EvaluateFive(five) = Category(five) /\ Category(five) \in 0..9
        /\ Category(five) <= Category(cards)
  <2>1. ASSUME NEW five \in kSubset(5, cards)
        PROVE  five \in SUBSET cards /\ five \in SUBSET AllCards /\ Cardinality(five) = 5
    BY DEF kSubset
  <2> QED
    BY <2>1, FiveCards, CategoryGrows, CategoryIsTheBestMade
<1>3. Category(cards) \in 0..9 /\ Made(Category(cards), cards)
  BY CategoryIsTheBestMade
<1>4. PICK five \in kSubset(5, cards) : Made(Category(cards), five)
  <2>1. PICK X \in SUBSET cards :
          IsFiniteSet(X) /\ Cardinality(X) <= 5 /\ Made(Category(cards), X)
    BY <1>1, <1>3, FiveSuffice
  <2>2. PICK Y \in SUBSET cards : X \subseteq Y /\ Cardinality(Y) = 5
    BY <1>1, <2>1, Grows
  <2>3. Made(Category(cards), Y)
    BY <1>3, <2>1, <2>2, MadeGrows
  <2> QED
    BY <2>2, <2>3 DEF kSubset
<1>5. EvaluateFive(five) = Category(cards)
  <2>1. Category(five) >= Category(cards)
    BY <1>3, <1>4, CategoryIsTheBestMade
  <2> QED
    BY <1>2, <1>3, <2>1
<1>6. Category(cards) \in values /\ \A v \in values : v \in 0..9 /\ Category(cards) >= v
  BY <1>2, <1>5
<1> HIDE DEF values
<1>7. Max(values) = Category(cards)
  <2>1. Max(values) \in values /\ \A v \in values : Max(values) >= v
    BY <1>6 DEF Max
  <2> QED
    BY <1>3, <1>6, <2>1
<1> QED
  BY <1>7 DEF Evaluate, values

-----------------------------------------------------------------------------
(* The highest of some ranks, in order                                     *)

\* As far as five, one by one
LEMMA UpToFive ==
  ASSUME NEW S, 0 \in S, \A n \in 0..4 : n \in S => n + 1 \in S
  PROVE  \A n \in 0..5 : n \in S
<1>1. 1 \in S
  <2>1. 0 \in 0..4 /\ 0 + 1 = 1
    OBVIOUS
  <2> QED
    BY <2>1
<1>2. 2 \in S
  <2>1. 1 \in 0..4 /\ 1 + 1 = 2
    OBVIOUS
  <2> QED
    BY <1>1, <2>1
<1>3. 3 \in S
  <2>1. 2 \in 0..4 /\ 2 + 1 = 3
    OBVIOUS
  <2> QED
    BY <1>2, <2>1
<1>4. 4 \in S
  <2>1. 3 \in 0..4 /\ 3 + 1 = 4
    OBVIOUS
  <2> QED
    BY <1>3, <2>1
<1>5. 5 \in S
  <2>1. 4 \in 0..4 /\ 4 + 1 = 5
    OBVIOUS
  <2> QED
    BY <1>4, <2>1
<1>6. \A n \in 0..5 : n = 0 \/ n = 1 \/ n = 2 \/ n = 3 \/ n = 4 \/ n = 5
  OBVIOUS
<1> QED
  BY <1>1, <1>2, <1>3, <1>4, <1>5, <1>6

LEMMA RankSets ==
  ASSUME NEW R \in SUBSET (0..12)
  PROVE  IsFiniteSet(R) /\ Cardinality(R) \in Nat /\ (Cardinality(R) = 0 <=> R = {})
<1>1. IsFiniteSet(0..12)
  <2>1. 0 \in Int /\ 12 \in Int
    OBVIOUS
  <2> QED
    BY <2>1, FS_Interval
<1>2. IsFiniteSet(R)
  BY <1>1, FS_Subset
<1> QED
  BY <1>2, FS_CardinalityType, FS_EmptySet

\* Without its highest, a set of ranks has the rest of its order.
LEMMA NthOfRest ==
  ASSUME NEW R \in SUBSET (0..12), R # {}, NEW i \in Nat \ {0}
  PROVE  /\ Nth(R, 1) = Max(R)
         /\ Nth(R, i + 1) = Nth(R \ {Max(R)}, i)
<1> DEFINE m == Max(R)
           from(S, r) == {q \in S : q >= r}
<1>1. m \in R /\ (\A r \in R : m >= r) /\ R \subseteq Int
  BY MaxAndMin
<1> HIDE DEF m
<1>2. ASSUME NEW r \in R PROVE Cardinality(from(R, r)) = 1 <=> r = m
  <2>0. \A q : q \in from(R, r) <=> q \in R /\ q >= r
    OBVIOUS
  <2>5. r \in Int /\ r >= r /\ m >= r /\ m \in R
    BY <1>1
  <2> HIDE DEF from
  <2>1. r \in from(R, r) /\ m \in from(R, r) /\ from(R, r) \subseteq R
    BY <2>0, <2>5
  <2>4. ASSUME r = m, NEW q \in R, q >= r PROVE q = m
    <3>1. q \in Int /\ m \in Int /\ m >= q
      BY <1>1
    <3> QED
      BY <2>4, <3>1
  <2>2. r = m => from(R, r) = {m}
    BY <2>0, <2>1, <2>4
  <2>3. Cardinality(from(R, r)) = 1 <=> \E x : from(R, r) = {x}
    BY <2>1, RankSets, FS_Singleton
  <2> QED
    BY <2>1, <2>2, <2>3
<1>3. ASSUME NEW r \in R \ {m}
      PROVE  Cardinality(from(R, r)) = Cardinality(from(R \ {m}, r)) + 1
  <2>1. from(R, r) = from(R \ {m}, r) \cup {m} /\ m \notin from(R \ {m}, r)
    BY <1>1, <1>3
  <2>2. from(R \ {m}, r) \in SUBSET (0..12)
    OBVIOUS
  <2> HIDE DEF from
  <2> QED
    BY <2>1, <2>2, RankSets, FS_AddElement
<1>4. \A r \in R \ {m} : Cardinality(from(R \ {m}, r)) \in Nat
  BY RankSets
<1> HIDE DEF from
<1>5. ASSUME NEW r
      PROVE  (r \in R /\ Cardinality(from(R, r)) = i + 1)
               <=> (r \in R \ {m} /\ Cardinality(from(R \ {m}, r)) = i)
  <2>1. CASE r \in R \ {m}
    BY <1>3, <1>4, <2>1
  <2>2. CASE r = m
    BY <1>1, <1>2, <2>2
  <2> QED
    BY <2>1, <2>2
<1>6. (CHOOSE r \in R : Cardinality(from(R, r)) = i + 1)
        = CHOOSE r \in R \ {m} : Cardinality(from(R \ {m}, r)) = i
  BY <1>5, Zenon
<1>7. (CHOOSE r \in R : Cardinality(from(R, r)) = 1) = m
  BY <1>1, <1>2
<1> QED
  BY <1>6, <1>7 DEF Nth, from, m

\* How many the n highest are
How(R, n) == IF Cardinality(R) < n THEN Cardinality(R) ELSE n

LEMMA HowMany ==
  ASSUME NEW R \in SUBSET (0..12), NEW n \in Nat
  PROVE  /\ How(R, n) \in Nat /\ How(R, 0) = 0 /\ (R = {} => How(R, n) = 0)
         /\ Highest(R, n) = [i \in 1..How(R, n) |-> Nth(R, i)]
<1>1. Cardinality(R) \in Nat /\ (R = {} => Cardinality(R) = 0)
  BY RankSets
<1>2. How(R, n) \in Nat /\ How(R, 0) = 0 /\ (R = {} => How(R, n) = 0)
  BY <1>1 DEF How
<1>3. Highest(R, n) = [i \in 1..How(R, n) |-> Nth(R, i)]
  BY DEF How, Highest
<1> QED
  BY <1>2, <1>3

\* The highest comes first, then the highest of the rest.
LEMMA HighestStep ==
  ASSUME NEW R \in SUBSET (0..12), NEW n \in Nat, R # {}
  PROVE  LET rest == R \ {Max(R)}
         IN /\ Max(R) \in R /\ \A r \in R : Max(R) >= r
            /\ rest \in SUBSET (0..12) /\ How(rest, n) \in Nat
            /\ How(R, n + 1) = How(rest, n) + 1
            /\ Highest(R, n + 1)[1] = Max(R)
            /\ \A i \in 1..How(rest, n) : Highest(R, n + 1)[i + 1] = Highest(rest, n)[i]
<1> DEFINE rest == R \ {Max(R)}
<1>1. Max(R) \in R /\ \A r \in R : Max(R) >= r
  BY MaxAndMin
<1>2. rest \in SUBSET (0..12)
  OBVIOUS
<1>3. How(R, n + 1) = How(rest, n) + 1
  <2>1. Cardinality(rest) = Cardinality(R) - 1
    BY <1>1, RankSets, FS_RemoveElement
  <2>2. Cardinality(R) \in Nat
    BY RankSets
  <2> HIDE DEF rest
  <2>3. ASSUME NEW c \in Int
        PROVE  (IF c < n + 1 THEN c ELSE n + 1) = (IF c - 1 < n THEN c - 1 ELSE n) + 1
    OBVIOUS
  <2> QED
    BY <2>1, <2>2, <2>3 DEF How
<1>4. /\ How(rest, n) \in Nat
      /\ Highest(R, n + 1) = [i \in 1..How(R, n + 1) |-> Nth(R, i)]
      /\ Highest(rest, n) = [i \in 1..How(rest, n) |-> Nth(rest, i)]
  <2> HIDE DEF rest
  <2>1. n + 1 \in Nat
    OBVIOUS
  <2> QED
    BY <1>2, <2>1, HowMany
<1>5. \A i \in Nat \ {0} : Nth(R, 1) = Max(R) /\ Nth(R, i + 1) = Nth(rest, i)
  BY NthOfRest
<1> HIDE DEF rest
<1>6. Highest(R, n + 1)[1] = Max(R)
  <2>1. 1 \in 1..How(R, n + 1) /\ 1 \in Nat \ {0}
    BY <1>3, <1>4
  <2> QED
    BY <1>4, <1>5, <2>1
<1>7. ASSUME NEW i \in 1..How(rest, n)
      PROVE  Highest(R, n + 1)[i + 1] = Highest(rest, n)[i]
  <2>1. i + 1 \in 1..How(R, n + 1) /\ i \in Nat \ {0}
    BY <1>3, <1>4
  <2> QED
    BY <1>4, <1>5, <2>1
<1> QED
  BY <1>1, <1>2, <1>3, <1>4, <1>6, <1>7 DEF rest

LEMMA HighestAreOf ==
  ASSUME NEW R \in SUBSET (0..12), NEW n \in 0..5
  PROVE  Highest(R, n) \in [1..How(R, n) -> R]
<1> DEFINE Good(k) == \A S \in SUBSET (0..12) : \A i \in 1..How(S, k) : Highest(S, k)[i] \in S
           G == {k \in 0..5 : Good(k)}
<1>1. Good(0)
  <2>1. \A S \in SUBSET (0..12) : How(S, 0) = 0
    BY HowMany
  <2> QED
    BY <2>1
<1>2. ASSUME NEW k \in 0..4, Good(k) PROVE Good(k + 1)
  <2> SUFFICES ASSUME NEW S \in SUBSET (0..12), NEW i \in 1..How(S, k + 1)
               PROVE  Highest(S, k + 1)[i] \in S
    OBVIOUS
  <2>10. k \in Nat /\ k + 1 \in Nat
    OBVIOUS
  <2>1. S # {}
    <3>1. S = {} => How(S, k + 1) = 0
      BY <2>10, HowMany
    <3> QED
      BY <3>1
  <2> DEFINE rest == S \ {Max(S)}
  <2>2. /\ Max(S) \in S /\ rest \in SUBSET (0..12) /\ How(rest, k) \in Nat
        /\ How(S, k + 1) = How(rest, k) + 1 /\ Highest(S, k + 1)[1] = Max(S)
        /\ \A j \in 1..How(rest, k) : Highest(S, k + 1)[j + 1] = Highest(rest, k)[j]
    BY <2>1, <2>10, HighestStep
  <2>3. \A j \in 1..How(rest, k) : Highest(rest, k)[j] \in S
    BY <1>2, <2>2
  <2> HIDE DEF rest
  <2>4. i = 1 \/ \E j \in 1..How(rest, k) : i = j + 1
    <3>1. i # 1 => i - 1 \in 1..How(rest, k) /\ i = (i - 1) + 1
      BY <2>2
    <3> QED
      BY <3>1
  <2> QED
    BY <2>2, <2>3, <2>4
<1> HIDE DEF Good
<1>3. 0 \in G /\ \A k \in 0..4 : k \in G => k + 1 \in G
  BY <1>1, <1>2
<1> HIDE DEF G
<1>4. n \in G
  BY <1>3, UpToFive
<1>5. \A i \in 1..How(R, n) : Highest(R, n)[i] \in R
  BY <1>4 DEF G, Good
<1>6. Highest(R, n) = [i \in 1..How(R, n) |-> Nth(R, i)]
  BY DEF Highest, How
<1> QED
  BY <1>5, <1>6

\* Of more ranks, each place is at least as high.
LEMMA HighestGrow ==
  ASSUME NEW R \in SUBSET (0..12), NEW T \in SUBSET R, NEW n \in 0..5
  PROVE  \A i \in 1..How(T, n) : i \in 1..How(R, n) /\ Highest(R, n)[i] >= Highest(T, n)[i]
<1> DEFINE Good(k) ==
             \A S \in SUBSET (0..12) : \A U \in SUBSET S : \A i \in 1..How(U, k) :
               i \in 1..How(S, k) /\ Highest(S, k)[i] >= Highest(U, k)[i]
           G == {k \in 0..5 : Good(k)}
<1>1. Good(0)
  <2>1. \A S \in SUBSET (0..12) : How(S, 0) = 0
    BY HowMany
  <2> QED
    BY <2>1
<1>2. ASSUME NEW k \in 0..4, Good(k) PROVE Good(k + 1)
  <2> SUFFICES ASSUME NEW S \in SUBSET (0..12), NEW U \in SUBSET S, NEW i \in 1..How(U, k + 1)
               PROVE  i \in 1..How(S, k + 1) /\ Highest(S, k + 1)[i] >= Highest(U, k + 1)[i]
    OBVIOUS
  <2>10. k \in Nat /\ k + 1 \in Nat /\ U \in SUBSET (0..12)
    OBVIOUS
  <2>1. U # {} /\ S # {}
    <3>1. U = {} => How(U, k + 1) = 0
      BY <2>10, HowMany
    <3> QED
      BY <3>1
  <2> DEFINE rest == S \ {Max(S)}
             less == U \ {Max(U)}
  <2>2. /\ Max(S) \in S /\ (\A s \in S : Max(S) >= s) /\ rest \in SUBSET (0..12)
        /\ How(rest, k) \in Nat
        /\ How(S, k + 1) = How(rest, k) + 1 /\ Highest(S, k + 1)[1] = Max(S)
        /\ \A j \in 1..How(rest, k) : Highest(S, k + 1)[j + 1] = Highest(rest, k)[j]
    BY <2>1, <2>10, HighestStep
  <2>3. /\ Max(U) \in U /\ (\A s \in U : Max(U) >= s) /\ less \in SUBSET (0..12)
        /\ How(less, k) \in Nat
        /\ How(U, k + 1) = How(less, k) + 1 /\ Highest(U, k + 1)[1] = Max(U)
        /\ \A j \in 1..How(less, k) : Highest(U, k + 1)[j + 1] = Highest(less, k)[j]
    BY <2>1, <2>10, HighestStep
  <2>4. less \subseteq rest
    <3>1. ASSUME NEW x \in U, x = Max(S) PROVE x = Max(U)
      <4>1. Max(U) \in S /\ x \in Int /\ Max(U) \in Int
        <5>1. U \subseteq S /\ S \subseteq Int /\ Max(U) \in U /\ x \in U
          BY <2>3, <3>1
        <5> QED
          BY <5>1
      <4>2. x >= Max(U) /\ Max(U) >= x
        BY <2>2, <2>3, <3>1, <4>1
      <4> QED
        BY <4>1, <4>2
    <3> QED
      BY <3>1
  <2>5. Max(S) >= Max(U)
    BY <2>2, <2>3
  <2>6. \A j \in 1..How(less, k) : j \in 1..How(rest, k) /\ Highest(rest, k)[j] >= Highest(less, k)[j]
    BY <1>2, <2>2, <2>4
  <2> HIDE DEF rest, less
  <2>7. i = 1 \/ \E j \in 1..How(less, k) : i = j + 1
    <3>1. i # 1 => i - 1 \in 1..How(less, k) /\ i = (i - 1) + 1
      BY <2>3
    <3> QED
      BY <3>1
  <2>8. CASE i = 1
    BY <2>2, <2>3, <2>5, <2>8
  <2>9. ASSUME NEW j \in 1..How(less, k), i = j + 1
        PROVE  i \in 1..How(S, k + 1) /\ Highest(S, k + 1)[i] >= Highest(U, k + 1)[i]
    <3>1. j \in 1..How(rest, k) /\ Highest(rest, k)[j] >= Highest(less, k)[j]
      BY <2>6, <2>9
    <3>2. Highest(S, k + 1)[i] = Highest(rest, k)[j] /\ Highest(U, k + 1)[i] = Highest(less, k)[j]
      BY <2>2, <2>3, <2>9, <3>1
    <3>3. i \in 1..How(S, k + 1)
      BY <2>2, <2>9, <3>1
    <3> QED
      BY <3>1, <3>2, <3>3
  <2> QED
    BY <2>7, <2>8, <2>9
<1> HIDE DEF Good
<1>3. 0 \in G /\ \A k \in 0..4 : k \in G => k + 1 \in G
  BY <1>1, <1>2
<1> HIDE DEF G
<1>4. n \in G
  BY <1>3, UpToFive
<1> QED
  BY <1>4 DEF G, Good

LEMMA HighestSeq ==
  ASSUME NEW R \in SUBSET (0..12), NEW n \in 0..5
  PROVE  /\ Highest(R, n) \in Seq(Int) /\ Len(Highest(R, n)) = How(R, n)
         /\ How(R, n) \in Nat /\ How(R, n) <= n /\ How(R, n) <= Cardinality(R)
         /\ \A i \in 1..How(R, n) : Highest(R, n)[i] \in R
<1>1. Highest(R, n) \in [1..How(R, n) -> R]
  BY HighestAreOf
<1>2. How(R, n) \in Nat /\ n \in Nat /\ Cardinality(R) \in Nat
  BY HowMany, RankSets
<1>3. R \subseteq Int
  OBVIOUS
<1>4. Highest(R, n) \in [1..How(R, n) -> Int]
  BY <1>1, <1>3
<1>5. Highest(R, n) \in Seq(Int)
  BY <1>2, <1>4, SeqDef
<1>6. Len(Highest(R, n)) = How(R, n)
  BY <1>2, <1>4, <1>5, LenProperties
<1>7. How(R, n) <= n /\ How(R, n) <= Cardinality(R)
  BY <1>2 DEF How
<1> QED
  BY <1>1, <1>2, <1>5, <1>6, <1>7

\* The n highest are the n highest of any part that has them.
LEMMA HighestAgree ==
  ASSUME NEW R \in SUBSET (0..12), NEW T \in SUBSET R, NEW n \in 0..5,
         \A i \in 1..How(R, n) : Highest(R, n)[i] \in T
  PROVE  Highest(T, n) = Highest(R, n)
<1> DEFINE Have(S, U, k) == \A i \in 1..How(S, k) : Highest(S, k)[i] \in U
           Good(k) ==
             \A S \in SUBSET (0..12) : \A U \in SUBSET S :
               Have(S, U, k) =>
                 /\ How(U, k) = How(S, k)
                 /\ \A i \in 1..How(S, k) : Highest(U, k)[i] = Highest(S, k)[i]
           G == {k \in 0..5 : Good(k)}
<1>1. Good(0)
  <2>1. \A S \in SUBSET (0..12) : \A U \in SUBSET S : How(S, 0) = 0 /\ How(U, 0) = 0
    BY HowMany
  <2> QED
    BY <2>1
<1>2. ASSUME NEW k \in 0..4, Good(k) PROVE Good(k + 1)
  <2> SUFFICES ASSUME NEW S \in SUBSET (0..12), NEW U \in SUBSET S, Have(S, U, k + 1)
               PROVE  /\ How(U, k + 1) = How(S, k + 1)
                      /\ \A i \in 1..How(S, k + 1) : Highest(U, k + 1)[i] = Highest(S, k + 1)[i]
    OBVIOUS
  <2>1. k \in Nat /\ k + 1 \in Nat /\ k \in 0..5 /\ U \in SUBSET (0..12)
    OBVIOUS
  <2>2. CASE S = {}
    <3>1. U = {} /\ (S = {} => How(S, k + 1) = 0) /\ (U = {} => How(U, k + 1) = 0)
      BY <2>1, <2>2, HowMany
    <3> QED
      BY <2>2, <3>1
  <2>3. CASE S # {}
    <3> DEFINE rest == S \ {Max(S)}
               less == U \ {Max(U)}
    <3>1. /\ Max(S) \in S /\ (\A s \in S : Max(S) >= s) /\ rest \in SUBSET (0..12)
          /\ How(rest, k) \in Nat
          /\ How(S, k + 1) = How(rest, k) + 1 /\ Highest(S, k + 1)[1] = Max(S)
          /\ \A j \in 1..How(rest, k) : Highest(S, k + 1)[j + 1] = Highest(rest, k)[j]
      BY <2>1, <2>3, HighestStep
    <3>2. Max(S) \in U
      <4>1. 1 \in 1..How(S, k + 1)
        BY <3>1
      <4> QED
        BY <3>1, <4>1
    <3>3. /\ Max(U) \in U /\ (\A s \in U : Max(U) >= s) /\ less \in SUBSET (0..12)
          /\ How(less, k) \in Nat
          /\ How(U, k + 1) = How(less, k) + 1 /\ Highest(U, k + 1)[1] = Max(U)
          /\ \A j \in 1..How(less, k) : Highest(U, k + 1)[j + 1] = Highest(less, k)[j]
      <4>1. U # {}
        BY <3>2
      <4> QED
        BY <2>1, <4>1, HighestStep
    <3>4. Max(U) = Max(S)
      <4>1. Max(U) \in S /\ Max(U) \in Int /\ Max(S) \in Int
        <5>1. U \subseteq S /\ S \subseteq Int /\ Max(U) \in U
          BY <3>3
        <5> QED
          BY <3>1, <5>1
      <4>2. Max(U) >= Max(S) /\ Max(S) >= Max(U)
        BY <3>1, <3>2, <3>3, <4>1
      <4> QED
        BY <4>1, <4>2
    <3>5. less \subseteq rest
      BY <3>4
    <3>6. \A j \in 1..How(rest, k) : Highest(rest, k)[j] \in less
      <4>1. ASSUME NEW j \in 1..How(rest, k) PROVE Highest(rest, k)[j] \in less
        <5>1. Highest(rest, k)[j] \in rest
          BY <2>1, <3>1, HighestSeq
        <5>2. Highest(S, k + 1)[j + 1] = Highest(rest, k)[j] /\ j + 1 \in 1..How(S, k + 1)
          BY <3>1
        <5>3. Highest(rest, k)[j] \in U
          BY <5>2
        <5> QED
          BY <3>4, <5>1, <5>3
      <4> QED
        BY <4>1
    <3>7. /\ How(less, k) = How(rest, k)
          /\ \A j \in 1..How(rest, k) : Highest(less, k)[j] = Highest(rest, k)[j]
      BY <1>2, <3>1, <3>5, <3>6
    <3> HIDE DEF rest, less
    <3>8. ASSUME NEW i \in 1..How(S, k + 1) PROVE Highest(U, k + 1)[i] = Highest(S, k + 1)[i]
      <4>1. CASE i = 1
        BY <3>1, <3>3, <3>4, <4>1
      <4>2. CASE i # 1
        <5>1. i - 1 \in 1..How(rest, k) /\ i = (i - 1) + 1
          BY <3>1, <4>2
        <5> QED
          BY <3>1, <3>3, <3>7, <5>1
      <4> QED
        BY <4>1, <4>2
    <3> QED
      BY <3>1, <3>3, <3>7, <3>8
  <2> QED
    BY <2>2, <2>3
<1> HIDE DEF Good
<1>3. 0 \in G /\ \A k \in 0..4 : k \in G => k + 1 \in G
  BY <1>1, <1>2
<1> HIDE DEF G
<1>4. n \in G
  BY <1>3, UpToFive
<1>5. /\ How(T, n) = How(R, n)
      /\ \A i \in 1..How(R, n) : Highest(T, n)[i] = Highest(R, n)[i]
  BY <1>4 DEF G, Good
<1>6. /\ Highest(R, n) \in Seq(Int) /\ Len(Highest(R, n)) = How(R, n)
      /\ Highest(T, n) \in Seq(Int) /\ Len(Highest(T, n)) = How(T, n)
  BY HighestSeq
<1> QED
  BY <1>5, <1>6, SeqEqual

\* The set of the n highest
LEMMA HighestSet ==
  ASSUME NEW R \in SUBSET (0..12), NEW n \in 0..5
  PROVE  \E H \in SUBSET R :
           /\ IsFiniteSet(H) /\ Cardinality(H) <= n
           /\ \A i \in 1..How(R, n) : Highest(R, n)[i] \in H
<1> DEFINE f == [i \in 1..How(R, n) |-> Highest(R, n)[i]]
           H == {f[i] : i \in 1..How(R, n)}
<1>1. How(R, n) \in Nat /\ How(R, n) <= n /\ \A i \in 1..How(R, n) : Highest(R, n)[i] \in R
  BY HighestSeq
<1>2. H \in SUBSET R /\ \A i \in 1..How(R, n) : Highest(R, n)[i] \in H
  BY <1>1
<1>3. f \in Surjection(1..How(R, n), H)
  BY DEF Surjection
<1>4. IsFiniteSet(1..How(R, n)) /\ Cardinality(1..How(R, n)) = How(R, n)
  <2>1. 1 \in Int /\ How(R, n) \in Int
    BY <1>1
  <2>2. /\ IsFiniteSet(1..How(R, n))
        /\ Cardinality(1..How(R, n)) = IF 1 > How(R, n) THEN 0 ELSE How(R, n) - 1 + 1
    BY <2>1, FS_Interval
  <2> QED
    BY <1>1, <2>2
<1> HIDE DEF f, H
<1>5. IsFiniteSet(H) /\ Cardinality(H) <= How(R, n)
  BY <1>3, <1>4, FS_Surjection
<1>6. Cardinality(H) <= n
  BY <1>1, <1>5, FS_CardinalityType
<1> QED
  BY <1>2, <1>5, <1>6

-----------------------------------------------------------------------------
(* Lexicographic comparison                                                *)

Apart(k, l) == {i \in DOMAIN k \cap DOMAIN l : k[i] # l[i]}

\* Two keys of one length differ by what they differ by first.
LEMMA FirstApart ==
  ASSUME NEW k \in Seq(Int), NEW l \in Seq(Int), Len(k) = Len(l), Len(k) <= 5
  PROVE  \/ k = l /\ Difference(k, l) = 0
         \/ \E i \in 1..Len(k) :
              /\ k[i] # l[i] /\ \A j \in 1..(i - 1) : k[j] = l[j]
              /\ Difference(k, l) = k[i] - l[i]
<1>1. /\ Len(k) \in Nat /\ DOMAIN k = 1..Len(k) /\ DOMAIN l = 1..Len(k)
  BY LenProperties
<1>2. Apart(k, l) = {i \in 1..Len(k) : k[i] # l[i]} /\ Apart(k, l) \in SUBSET (0..12)
  <2>1. Apart(k, l) = {i \in 1..Len(k) : k[i] # l[i]}
    BY <1>1 DEF Apart
  <2>2. ASSUME NEW i \in 1..Len(k) PROVE i \in 0..12
    BY <1>1
  <2> QED
    BY <2>1, <2>2
<1>3. Difference(k, l) = IF Apart(k, l) = {} THEN 0 ELSE k[Min(Apart(k, l))] - l[Min(Apart(k, l))]
  BY DEF Difference, Apart
<1>4. CASE Apart(k, l) = {}
  <2>1. \A i \in 1..Len(k) : k[i] = l[i]
    BY <1>2, <1>4
  <2>2. k = l
    BY <2>1, SeqEqual
  <2> QED
    BY <1>3, <1>4, <2>2
<1>5. CASE Apart(k, l) # {}
  <2> DEFINE m == Min(Apart(k, l))
  <2>1. m \in Apart(k, l) /\ \A i \in Apart(k, l) : m <= i
    BY <1>2, <1>5, MaxAndMin
  <2>2. Difference(k, l) = k[m] - l[m]
    BY <1>3, <1>5
  <2> HIDE DEF m
  <2>3. m \in 1..Len(k) /\ k[m] # l[m]
    BY <1>2, <2>1
  <2>4. ASSUME NEW j \in 1..(m - 1) PROVE k[j] = l[j]
    <3>1. j \in 1..Len(k) /\ ~(m <= j)
      BY <1>1, <2>3
    <3> QED
      BY <1>2, <2>1, <3>1
  <2> QED
    BY <2>2, <2>3, <2>4
<1> QED
  BY <1>4, <1>5

\* The comparison is none of a key with itself, and turns with its keys.
LEMMA DifferenceOrders ==
  ASSUME NEW k \in Seq(Int), NEW l \in Seq(Int), Len(k) = Len(l), Len(k) <= 5
  PROVE  /\ Difference(k, l) \in Int
         /\ Difference(k, l) = 0 => k = l
         /\ Difference(k, l) >= 0 /\ Difference(l, k) >= 0 => k = l
<1>1. \A s \in Seq(Int) : \A i \in 1..Len(s) : s[i] \in Int
  BY ElementOfSeq
<1>2. Len(k) \in Nat
  BY LenProperties
<1>3. CASE k = l
  BY <1>1, <1>3, FirstApart
<1>4. CASE k # l
  <2>1. PICK i \in 1..Len(k) :
          /\ k[i] # l[i] /\ \A j \in 1..(i - 1) : k[j] = l[j]
          /\ Difference(k, l) = k[i] - l[i]
    BY <1>4, FirstApart
  <2>2. PICK h \in 1..Len(k) :
          /\ l[h] # k[h] /\ \A j \in 1..(h - 1) : l[j] = k[j]
          /\ Difference(l, k) = l[h] - k[h]
    BY <1>4, FirstApart
  <2>3. i = h
    <3>1. ~(h < i) /\ ~(i < h)
      BY <1>2, <2>1, <2>2
    <3> QED
      BY <1>2, <3>1
  <2>4. k[i] \in Int /\ l[i] \in Int
    BY <1>1
  <2> QED
    BY <2>1, <2>2, <2>3, <2>4
<1> QED
  BY <1>3, <1>4

\* Before the first difference nothing decides, there the higher number does.
AtLeast(k, l) == \A i \in 1..Len(k) : (\A j \in 1..(i - 1) : k[j] = l[j]) => k[i] >= l[i]

LEMMA AtLeastDiffers ==
  ASSUME NEW k \in Seq(Int), NEW l \in Seq(Int), Len(k) = Len(l), Len(k) <= 5, AtLeast(k, l)
  PROVE  Difference(k, l) >= 0
<1>1. \A s \in Seq(Int) : \A i \in 1..Len(s) : s[i] \in Int
  BY ElementOfSeq
<1>2. CASE k = l /\ Difference(k, l) = 0
  BY <1>2
<1>3. ASSUME NEW i \in 1..Len(k), \A j \in 1..(i - 1) : k[j] = l[j],
             Difference(k, l) = k[i] - l[i]
      PROVE  Difference(k, l) >= 0
  <2>1. k[i] \in Int /\ l[i] \in Int /\ k[i] >= l[i]
    BY <1>1, <1>3 DEF AtLeast
  <2> QED
    BY <1>3, <2>1
<1> QED
  BY <1>2, <1>3, FirstApart

\* What follows decides where what comes first is the same.
LEMMA AtLeastJoin ==
  ASSUME NEW a \in Seq(Int), NEW b \in Seq(Int), NEW c \in Seq(Int), NEW d \in Seq(Int),
         Len(a) = Len(b), Len(c) = Len(d), AtLeast(a, b), a = b => AtLeast(c, d)
  PROVE  AtLeast(a \o c, b \o d)
<1> DEFINE m == Len(a)
           n == Len(c)
           k == a \o c
           l == b \o d
<1>1. /\ m \in Nat /\ n \in Nat /\ Len(k) = m + n
      /\ \A i \in 1..(m + n) : k[i] = IF i <= m THEN a[i] ELSE c[i - m]
      /\ \A i \in 1..(m + n) : l[i] = IF i <= m THEN b[i] ELSE d[i - m]
  <2>1. Len(a) \in Nat /\ Len(c) \in Nat /\ Len(b) = Len(a) /\ Len(d) = Len(c)
    BY LenProperties
  <2>2. /\ Len(a \o c) = Len(a) + Len(c)
        /\ \A i \in 1..(Len(a) + Len(c)) :
             (a \o c)[i] = IF i <= Len(a) THEN a[i] ELSE c[i - Len(a)]
    BY ConcatProperties
  <2>3. \A i \in 1..(Len(b) + Len(d)) :
          (b \o d)[i] = IF i <= Len(b) THEN b[i] ELSE d[i - Len(b)]
    BY ConcatProperties
  <2> QED
    BY <2>1, <2>2, <2>3
<1>2. (\A i \in 1..m : a[i] = b[i]) => a = b
  BY SeqEqual
<1> HIDE DEF m, n, k, l
<1>3. ASSUME NEW i \in 1..(m + n), \A j \in 1..(i - 1) : k[j] = l[j] PROVE k[i] >= l[i]
  <2>1. CASE i <= m
    <3>1. \A j \in 1..(i - 1) : k[j] = a[j] /\ l[j] = b[j]
      BY <1>1, <2>1
    <3>2. i \in 1..m /\ \A j \in 1..(i - 1) : a[j] = b[j]
      BY <1>1, <1>3, <2>1, <3>1
    <3>3. a[i] >= b[i]
      BY <3>2 DEF AtLeast, m
    <3> QED
      BY <1>1, <2>1, <3>3
  <2>2. CASE ~(i <= m)
    <3>1. ASSUME NEW j \in 1..m PROVE a[j] = b[j]
      <4>1. j \in 1..(i - 1) /\ j \in 1..(m + n) /\ j <= m
        BY <1>1, <2>2
      <4> QED
        BY <1>1, <1>3, <4>1
    <3>2. AtLeast(c, d)
      BY <1>2, <3>1
    <3>3. i - m \in 1..n
      BY <1>1, <2>2
    <3>4. ASSUME NEW j \in 1..((i - m) - 1) PROVE c[j] = d[j]
      <4>1. j + m \in 1..(i - 1) /\ j + m \in 1..(m + n) /\ ~(j + m <= m) /\ (j + m) - m = j
        BY <1>1, <3>3
      <4> QED
        BY <1>1, <1>3, <4>1
    <3>5. c[i - m] >= d[i - m]
      BY <3>2, <3>3, <3>4 DEF AtLeast, n
    <3> QED
      BY <1>1, <2>2, <3>5
  <2> QED
    BY <2>1, <2>2
<1> QED
  BY <1>1, <1>3 DEF AtLeast, k, l

LEMMA AtLeastHighest ==
  ASSUME NEW R \in SUBSET (0..12), NEW T \in SUBSET R, NEW n \in 0..5, How(R, n) = How(T, n)
  PROVE  AtLeast(Highest(R, n), Highest(T, n))
<1>1. Len(Highest(R, n)) = How(T, n)
  BY HighestSeq
<1> QED
  BY <1>1, HighestGrow DEF AtLeast

-----------------------------------------------------------------------------
(* The groups of five cards                                                *)

\* The cards of all ranks but one
Rest(cards, r) == {c \in cards : c[1] # r}

LEMMA RestOfCards ==
  ASSUME NEW cards \in SUBSET AllCards, NEW r
  PROVE  /\ Rest(cards, r) \in SUBSET AllCards
         /\ Cardinality(cards) = Count(cards, r) + Cardinality(Rest(cards, r))
         /\ Cardinality(Rest(cards, r)) \in Nat
         /\ RanksOf(Rest(cards, r)) = RanksOf(cards) \ {r}
         /\ Often(Rest(cards, r), 2) = Often(cards, 2) \ {r}
         /\ \A q : q # r => Count(Rest(cards, r), q) = Count(cards, q)
<1> DEFINE group == {c \in cards : c[1] = r}
<1>1. /\ Rest(cards, r) \in SUBSET AllCards /\ group \in SUBSET AllCards
      /\ Rest(cards, r) \cup group = cards /\ Rest(cards, r) \cap group = {}
  BY DEF Rest
<1>2. Cardinality(group) = Count(cards, r)
  BY DEF Count
<1> HIDE DEF group
<1>3. IsFiniteSet(Rest(cards, r)) /\ IsFiniteSet(group)
  BY <1>1, CardsFinite
<1>4. /\ Cardinality(Rest(cards, r) \cup group) = Cardinality(Rest(cards, r)) + Cardinality(group)
      /\ Cardinality(Rest(cards, r)) \in Nat /\ Cardinality(group) \in Nat
  BY <1>1, <1>3, Union, FS_CardinalityType
<1>5. RanksOf(Rest(cards, r)) = RanksOf(cards) \ {r}
  BY DEF RanksOf, Rest
<1>6. ASSUME NEW q, q # r PROVE Count(Rest(cards, r), q) = Count(cards, q)
  <2>1. {c \in Rest(cards, r) : c[1] = q} = {c \in cards : c[1] = q}
    BY <1>6 DEF Rest
  <2> QED
    BY <2>1 DEF Count
<1>7. Often(Rest(cards, r), 2) = Often(cards, 2) \ {r}
  BY <1>5, <1>6 DEF Often
<1>8. Cardinality(cards) = Count(cards, r) + Cardinality(Rest(cards, r))
  <2>1. Cardinality(cards) = Cardinality(Rest(cards, r)) + Count(cards, r)
    BY <1>1, <1>2, <1>4, Zenon
  <2>2. Count(cards, r) \in Nat /\ Cardinality(Rest(cards, r)) \in Nat
    BY <1>2, <1>4, Zenon
  <2>3. \A a, b \in Nat : a + b = b + a
    OBVIOUS
  <2> QED
    BY <2>1, <2>2, <2>3, Zenon
<1> QED
  BY <1>1, <1>4, <1>5, <1>6, <1>7, <1>8

\* Where no rank comes twice, there are as many ranks as cards.
LEMMA Singles ==
  ASSUME NEW cards \in SUBSET AllCards, Often(cards, 2) = {}
  PROVE  Cardinality(RanksOf(cards)) = Cardinality(cards)
<1> DEFINE f == [c \in cards |-> c[1]]
<1>1. ASSUME NEW c \in cards, NEW d \in cards, c[1] = d[1] PROVE c = d
  <2> DEFINE group == {x \in cards : x[1] = c[1]}
  <2>1. c \in group /\ d \in group /\ group \in SUBSET AllCards
    BY <1>1
  <2>2. Count(cards, c[1]) = Cardinality(group) /\ c[1] \in RanksOf(cards)
    BY DEF Count, RanksOf
  <2>3. ~(Count(cards, c[1]) >= 2)
    BY <2>2 DEF Often
  <2> HIDE DEF group
  <2>4. IsFiniteSet(group)
    BY <2>1, CardsFinite
  <2> QED
    BY <2>1, <2>2, <2>3, <2>4, AtLeastTwo
<1>2. f \in [cards -> RanksOf(cards)] /\ \A r \in RanksOf(cards) : \E c \in cards : f[c] = r
  BY DEF RanksOf
<1>3. \A c, d \in cards : f[c] = f[d] => c = d
  BY <1>1
<1> HIDE DEF f
<1>4. f \in Bijection(cards, RanksOf(cards))
  BY <1>2, <1>3 DEF Bijection, Injection, Surjection, IsInjective
<1>5. ExistsBijection(cards, RanksOf(cards)) /\ IsFiniteSet(cards)
  BY <1>4, CardsFinite DEF ExistsBijection
<1> QED
  BY <1>5, FS_Bijection

LEMMA NoPairOfOne ==
  ASSUME NEW cards \in SUBSET AllCards, Cardinality(cards) = 1
  PROVE  Often(cards, 2) = {}
<1>1. ASSUME NEW r PROVE Count(cards, r) \in Nat /\ Count(cards, r) <= 1
  <2>1. {c \in cards : c[1] = r} \subseteq cards /\ IsFiniteSet(cards)
    BY CardsFinite
  <2>2. /\ Cardinality({c \in cards : c[1] = r}) \in Nat
        /\ Cardinality({c \in cards : c[1] = r}) <= Cardinality(cards)
    BY <2>1, Fewer
  <2> QED
    BY <2>2 DEF Count
<1> QED
  BY <1>1 DEF Often

\* What the category says of the groups of any cards
LEMMA CategoryMeans ==
  ASSUME NEW cards \in SUBSET AllCards
  PROVE  LET c == Category(cards)
             many == Cardinality(Often(cards, 2)) >= 2
         IN /\ c = 7 => Often(cards, 4) # {}
            /\ c \in {0, 1, 2, 3, 6} => Often(cards, 4) = {}
            /\ c \in {0, 1, 2} => Often(cards, 3) = {}
            /\ c \in {3, 6} => Often(cards, 3) # {}
            /\ c \in {2, 6} => many
            /\ c \in {1, 3} => ~many
            /\ c = 0 => Often(cards, 2) = {}
            /\ c = 1 => Often(cards, 2) # {}
<1> DEFINE suited == Runs(FlushRanks(cards))
           four == Often(cards, 4) # {}
           three == Often(cards, 3) # {}
           many == Cardinality(Often(cards, 2)) >= 2
           pair == Often(cards, 2) # {}
           flush == FlushSuits(cards) # {}
           run == Runs(RanksOf(cards)) # {}
<1>1. Category(cards) =
        CASE Ace \in suited -> 9
          [] suited # {} /\ Ace \notin suited -> 8
          [] suited = {} ->
               IF four THEN 7 ELSE IF three /\ many THEN 6 ELSE IF flush THEN 5
               ELSE IF run THEN 4 ELSE IF three THEN 3 ELSE IF many THEN 2
               ELSE IF pair THEN 1 ELSE 0
  BY DEF Category, ROYAL_FLUSH, STRAIGHT_FLUSH, FOUR_OF_A_KIND, FULL_HOUSE, FLUSH, STRAIGHT,
         THREE_OF_A_KIND, TWO_PAIR, ONE_PAIR, HIGH_CARD
<1>2. four => three
  <2>1. \A r : Count(cards, r) \in 0..4
    BY FourOfARankAtMost
  <2> QED
    BY <2>1 DEF Often
<1> HIDE DEF suited, four, three, many, pair, flush, run
<1>3. /\ Category(cards) = 7 => four
      /\ Category(cards) \in {0, 1, 2, 3, 6} => ~four
      /\ Category(cards) \in {0, 1, 2} => ~three
      /\ Category(cards) \in {3, 6} => three
      /\ Category(cards) \in {2, 6} => many
      /\ Category(cards) \in {1, 3} => ~many
      /\ Category(cards) = 0 => ~pair
      /\ Category(cards) = 1 => pair
  BY <1>1, <1>2
<1> QED
  BY <1>3 DEF four, three, many, pair

LEMMA OftenNested ==
  ASSUME NEW cards \in SUBSET AllCards
  PROVE  /\ Often(cards, 4) \subseteq Often(cards, 3) /\ Often(cards, 3) \subseteq Often(cards, 2)
         /\ Often(cards, 2) \subseteq RanksOf(cards) /\ RanksOf(cards) \in SUBSET (0..12)
         /\ RanksCounted(cards, 4) = Often(cards, 4)
         /\ RanksCounted(cards, 3) = Often(cards, 3) \ Often(cards, 4)
         /\ RanksCounted(cards, 2) = Often(cards, 2) \ Often(cards, 3)
         /\ RanksCounted(cards, 1) = RanksOf(cards) \ Often(cards, 2)
<1>1. \A r \in RanksOf(cards) : Count(cards, r) \in 1..4
  <2>1. ASSUME NEW r \in RanksOf(cards) PROVE Count(cards, r) \in 1..4
    <3>1. {c \in cards : c[1] = r} # {}
      BY DEF RanksOf
    <3>2. IsFiniteSet({c \in cards : c[1] = r})
      BY CardsFinite, Fewer
    <3>3. Count(cards, r) # 0
      BY <3>1, <3>2, FS_EmptySet DEF Count
    <3>4. Count(cards, r) \in 0..4
      BY FourOfARankAtMost
    <3> QED
      BY <3>3, <3>4
  <2> QED
    BY <2>1
<1>2. RanksOf(cards) \in SUBSET (0..12)
  BY RanksFinite DEF Ranks
<1>3. /\ Often(cards, 4) \subseteq Often(cards, 3) /\ Often(cards, 3) \subseteq Often(cards, 2)
      /\ Often(cards, 2) \subseteq RanksOf(cards)
  BY <1>1 DEF Often
<1>4. RanksCounted(cards, 4) = Often(cards, 4)
  BY <1>1 DEF Often, RanksCounted
<1>5. RanksCounted(cards, 3) = Often(cards, 3) \ Often(cards, 4)
  BY <1>1 DEF Often, RanksCounted
<1>6. RanksCounted(cards, 2) = Often(cards, 2) \ Often(cards, 3)
  BY <1>1 DEF Often, RanksCounted
<1>7. RanksCounted(cards, 1) = RanksOf(cards) \ Often(cards, 2)
  BY <1>1 DEF Often, RanksCounted
<1> QED
  BY <1>2, <1>3, <1>4, <1>5, <1>6, <1>7

\* The groups of five cards of a category that is told by groups
GroupedAs(c, five) ==
  LET O(n) == Often(five, n)
      R == RanksOf(five)
  IN /\ c = 0 => O(4) = {} /\ O(3) = {} /\ O(2) = {} /\ Cardinality(R) = 5
     /\ c = 1 => \E p \in R : O(4) = {} /\ O(3) = {} /\ O(2) = {p} /\ Cardinality(R \ {p}) = 3
     /\ c = 2 => \E p, q \in R : /\ p # q /\ O(4) = {} /\ O(3) = {} /\ O(2) = {p, q}
                                 /\ Cardinality(R \ {p, q}) = 1
     /\ c = 3 => \E t \in R : /\ O(4) = {} /\ O(3) = {t} /\ O(2) = {t}
                              /\ Cardinality(R \ {t}) = 2
     /\ c = 6 => \E t, p \in R : /\ t # p /\ O(4) = {} /\ O(3) = {t} /\ O(2) = {t, p}
                                 /\ R = {t, p}
     /\ c = 7 => \E q \in R : /\ O(4) = {q} /\ O(3) = {q} /\ O(2) = {q}
                              /\ Cardinality(R \ {q}) = 1

LEMMA GroupsOfFive ==
  ASSUME NEW five \in SUBSET AllCards, Cardinality(five) = 5
  PROVE  GroupedAs(Category(five), five)
<1> DEFINE O(n) == Often(five, n)
           R == RanksOf(five)
           N(r) == Count(five, r)
<1>1. /\ O(4) \subseteq O(3) /\ O(3) \subseteq O(2) /\ O(2) \subseteq R
      /\ \A r \in R : N(r) \in 1..4
      /\ \A r \in R : (r \in O(4) <=> N(r) >= 4) /\ (r \in O(3) <=> N(r) >= 3)
                      /\ (r \in O(2) <=> N(r) >= 2)
  <2>1. \A r \in R : N(r) \in 0..4
    BY FourOfARankAtMost
  <2>2. RanksCounted(five, 1) = R \ O(2) /\ O(4) \subseteq O(3) /\ O(3) \subseteq O(2)
        /\ O(2) \subseteq R
    BY OftenNested
  <2>3. \A r \in R : (r \in O(4) <=> N(r) >= 4) /\ (r \in O(3) <=> N(r) >= 3)
                     /\ (r \in O(2) <=> N(r) >= 2)
    BY DEF Often
  <2>4. \A r \in R : r \notin O(2) => N(r) = 1
    BY <2>2 DEF RanksCounted
  <2> QED
    BY <2>1, <2>2, <2>3, <2>4
<1>2. \A r, q \in R : r # q => N(r) + N(q) <= 5
  BY CountsOfFive
<1>3. \A r, q, t \in R : r # q /\ q # t /\ r # t => N(r) + N(q) + N(t) <= 5
  BY CountsOfFive
<1>4. ASSUME NEW r \in R, O(2) \subseteq {r}
      PROVE  Cardinality(R \ {r}) = 5 - N(r)
  <2>1. /\ Rest(five, r) \in SUBSET AllCards
        /\ 5 = N(r) + Cardinality(Rest(five, r)) /\ Cardinality(Rest(five, r)) \in Nat
        /\ RanksOf(Rest(five, r)) = R \ {r} /\ Often(Rest(five, r), 2) = O(2) \ {r}
    BY RestOfCards
  <2>2. Often(Rest(five, r), 2) = {}
    BY <1>4, <2>1
  <2>3. Cardinality(R \ {r}) = Cardinality(Rest(five, r))
    BY <2>1, <2>2, Singles
  <2>4. N(r) \in Nat
    BY <1>1
  <2> HIDE DEF N
  <2> QED
    BY <2>1, <2>3, <2>4
<1>5. ASSUME NEW r \in R, NEW q \in R, r # q, N(r) = 2, N(q) = 2
      PROVE  Cardinality(R \ {r, q}) = 1
  <2> DEFINE some == Rest(five, r)
             few == Rest(some, q)
  <2>1. /\ some \in SUBSET AllCards /\ 5 = N(r) + Cardinality(some) /\ Cardinality(some) \in Nat
        /\ RanksOf(some) = R \ {r} /\ Count(some, q) = N(q)
    BY <1>5, RestOfCards
  <2> HIDE DEF some
  <2>2. /\ few \in SUBSET AllCards /\ Cardinality(some) = Count(some, q) + Cardinality(few)
        /\ Cardinality(few) \in Nat /\ RanksOf(few) = RanksOf(some) \ {q}
    BY <2>1, RestOfCards
  <2> HIDE DEF few, N, R
  <2>3. Cardinality(few) = 1
    BY <1>5, <2>1, <2>2
  <2>4. Cardinality(RanksOf(few)) = 1
    BY <2>2, <2>3, NoPairOfOne, Singles
  <2>5. RanksOf(few) = R \ {r, q}
    BY <2>1, <2>2
  <2> QED
    BY <2>4, <2>5
<1>6. /\ Category(five) = 7 => O(4) # {}
      /\ Category(five) \in {0, 1, 2, 3, 6} => O(4) = {}
      /\ Category(five) \in {0, 1, 2} => O(3) = {}
      /\ Category(five) \in {3, 6} => O(3) # {}
      /\ Category(five) \in {2, 6} => Cardinality(O(2)) >= 2
      /\ Category(five) \in {1, 3} => ~(Cardinality(O(2)) >= 2)
      /\ Category(five) = 0 => O(2) = {}
      /\ Category(five) = 1 => O(2) # {}
  BY CategoryMeans
<1>7. Cardinality(O(2)) >= 2 <=> \E x, y \in O(2) : x # y
  BY RanksFinite, AtLeastTwo
<1>8. Category(five) = 0 => Cardinality(R) = 5
  BY <1>6, Singles
<1> HIDE DEF O, R, N
<1>9. ASSUME Category(five) = 1
      PROVE  \E p \in R : O(4) = {} /\ O(3) = {} /\ O(2) = {p} /\ Cardinality(R \ {p}) = 3
  <2>1. PICK p \in O(2) : O(2) = {p}
    BY <1>6, <1>7, <1>9
  <2>2. p \in R /\ N(p) = 2
    BY <1>1, <1>6, <1>9, <2>1
  <2>3. Cardinality(R \ {p}) = 3
    BY <1>4, <2>1, <2>2
  <2> QED
    BY <1>6, <1>9, <2>1, <2>2, <2>3
<1>10. ASSUME Category(five) = 2
       PROVE  \E p, q \in R : /\ p # q /\ O(4) = {} /\ O(3) = {} /\ O(2) = {p, q}
                              /\ Cardinality(R \ {p, q}) = 1
  <2>1. PICK p, q \in O(2) : p # q
    BY <1>6, <1>7, <1>10
  <2>2. p \in R /\ q \in R /\ N(p) = 2 /\ N(q) = 2
    BY <1>1, <1>6, <1>10, <2>1
  <2>3. ASSUME NEW x \in O(2), x # p, x # q PROVE FALSE
    <3>1. x \in R /\ N(x) \in 2..4
      BY <1>1, <2>3
    <3>2. N(p) + N(q) + N(x) <= 5
      BY <1>3, <2>1, <2>2, <2>3, <3>1
    <3> QED
      BY <2>2, <3>1, <3>2
  <2>4. O(2) = {p, q}
    BY <2>1, <2>3
  <2>5. Cardinality(R \ {p, q}) = 1
    BY <1>5, <2>1, <2>2
  <2> QED
    BY <1>6, <1>10, <2>1, <2>2, <2>4, <2>5
<1>11. ASSUME Category(five) = 3
       PROVE  \E t \in R : /\ O(4) = {} /\ O(3) = {t} /\ O(2) = {t} /\ Cardinality(R \ {t}) = 2
  <2>1. PICK t \in O(3) : TRUE
    BY <1>6, <1>11
  <2>2. O(3) = {t} /\ O(2) = {t}
    BY <1>1, <1>6, <1>7, <1>11, <2>1
  <2>3. t \in R /\ N(t) = 3
    BY <1>1, <1>6, <1>11, <2>1
  <2>4. Cardinality(R \ {t}) = 2
    BY <1>4, <2>2, <2>3
  <2> QED
    BY <1>6, <1>11, <2>2, <2>3, <2>4
<1>12. ASSUME Category(five) = 6
       PROVE  \E t, p \in R : /\ t # p /\ O(4) = {} /\ O(3) = {t} /\ O(2) = {t, p} /\ R = {t, p}
  <2>1. PICK t \in O(3) : TRUE
    BY <1>6, <1>12
  <2>2. PICK p \in O(2) : p # t
    BY <1>6, <1>7, <1>12
  <2>3. t \in R /\ p \in R /\ N(t) = 3 /\ N(p) \in 2..4
    BY <1>1, <1>6, <1>12, <2>1, <2>2
  <2>4. N(t) + N(p) <= 5
    BY <1>2, <2>2, <2>3
  <2>5. ASSUME NEW x \in R, x # t, x # p PROVE FALSE
    <3>1. N(x) \in 1..4
      BY <1>1
    <3>2. N(t) + N(p) + N(x) <= 5
      BY <1>3, <2>2, <2>3, <2>5
    <3> QED
      BY <2>3, <3>1, <3>2
  <2>6. p \notin O(3)
    BY <1>1, <2>3, <2>4
  <2>7. R = {t, p} /\ O(2) = {t, p} /\ O(3) = {t}
    BY <1>1, <2>1, <2>2, <2>3, <2>5, <2>6
  <2> QED
    BY <1>6, <1>12, <2>2, <2>3, <2>7
<1>13. ASSUME Category(five) = 7
       PROVE  \E q \in R : /\ O(4) = {q} /\ O(3) = {q} /\ O(2) = {q}
                           /\ Cardinality(R \ {q}) = 1
  <2>1. PICK q \in O(4) : TRUE
    BY <1>6, <1>13
  <2>2. q \in R /\ N(q) = 4
    BY <1>1, <2>1
  <2>3. ASSUME NEW x \in O(2), x # q PROVE FALSE
    <3>1. x \in R /\ N(x) \in 2..4
      BY <1>1, <2>3
    <3>2. N(q) + N(x) <= 5
      BY <1>2, <2>2, <2>3, <3>1
    <3> QED
      BY <2>2, <3>1, <3>2
  <2>4. O(4) = {q} /\ O(3) = {q} /\ O(2) = {q}
    BY <1>1, <2>1, <2>3
  <2>5. Cardinality(R \ {q}) = 1
    BY <1>4, <2>2, <2>4
  <2> QED
    BY <2>2, <2>4, <2>5
<1>14. Category(five) = 0 => O(4) = {} /\ O(3) = {} /\ O(2) = {} /\ Cardinality(R) = 5
  BY <1>6, <1>8
<1> QED
  BY <1>9, <1>10, <1>11, <1>12, <1>13, <1>14 DEF GroupedAs, O, R

-----------------------------------------------------------------------------
(* The groups that decide                                                  *)

\* All of a set, if it is small enough
LEMMA HighestAll ==
  ASSUME NEW R \in SUBSET (0..12), NEW n \in 0..5, NEW m \in 0..5,
         Cardinality(R) <= n, Cardinality(R) <= m
  PROVE  Highest(R, n) = Highest(R, m) /\ Len(Highest(R, n)) = Cardinality(R)
<1>0. n \in Nat /\ m \in Nat
  OBVIOUS
<1>1. Cardinality(R) \in Nat
  BY RankSets
<1>2. How(R, n) = Cardinality(R) /\ How(R, m) = Cardinality(R)
  BY <1>1 DEF How
<1>3. /\ Highest(R, n) = [i \in 1..How(R, n) |-> Nth(R, i)]
      /\ Highest(R, m) = [i \in 1..How(R, m) |-> Nth(R, i)]
  BY <1>0, HowMany
<1>4. Len(Highest(R, n)) = How(R, n)
  BY HighestSeq
<1> QED
  BY <1>2, <1>3, <1>4

LEMMA NoneHighest ==
  ASSUME NEW R \in SUBSET (0..12), NEW n \in 0..5
  PROVE  Highest(R, 0) = <<>> /\ (R = {} => Highest(R, n) = <<>>)
<1>1. /\ Highest(R, n) \in Seq(Int) /\ Len(Highest(R, n)) = How(R, n)
      /\ Highest(R, 0) \in Seq(Int) /\ Len(Highest(R, 0)) = How(R, 0)
  BY HighestSeq
<1>2. How(R, 0) = 0 /\ (R = {} => How(R, n) = 0)
  BY HowMany
<1> QED
  BY <1>1, <1>2, EmptySeq

LEMMA OneHighest ==
  ASSUME NEW R \in SUBSET (0..12), R # {}
  PROVE  Highest(R, 1) = <<Max(R)>> /\ Max(R) \in R /\ Max(R) \in Int
<1> DEFINE rest == R \ {Max(R)}
<1>0. 0 \in Nat /\ 0 + 1 = 1 /\ 1 \in 0..5
  OBVIOUS
<1>1. /\ Max(R) \in R /\ rest \in SUBSET (0..12) /\ How(R, 0 + 1) = How(rest, 0) + 1
      /\ Highest(R, 0 + 1)[1] = Max(R)
  BY <1>0, HighestStep
<1> HIDE DEF rest
<1>2. How(rest, 0) = 0
  BY <1>1, HowMany
<1>3. Highest(R, 1) \in Seq(Int) /\ Len(Highest(R, 1)) = 1 /\ Highest(R, 1)[1] = Max(R)
  BY <1>0, <1>1, <1>2, HighestSeq
<1>4. Max(R) \in Int
  <2>1. R \subseteq Int
    OBVIOUS
  <2> QED
    BY <1>1, <2>1
<1>5. <<Max(R)>> \in Seq(Int) /\ Len(<<Max(R)>>) = 1 /\ <<Max(R)>>[1] = Max(R)
  BY <1>4
<1>6. \A i \in 1..1 : i = 1
  OBVIOUS
<1>7. Highest(R, 1) = <<Max(R)>>
  BY <1>3, <1>5, <1>6, SeqEqual
<1> QED
  BY <1>1, <1>4, <1>7

\* Who is counted is among the highest.
LEMMA AllHighest ==
  ASSUME NEW R \in SUBSET (0..12), NEW n \in 0..5
  PROVE  /\ ToSet(Highest(R, n)) \subseteq R
         /\ Cardinality(R) <= n => ToSet(Highest(R, n)) = R
<1> DEFINE Listed(S, k) == \A r \in S : \E i \in 1..How(S, k) : Highest(S, k)[i] = r
           Good(k) == \A S \in SUBSET (0..12) : Cardinality(S) <= k => Listed(S, k)
           G == {k \in 0..5 : Good(k)}
<1>1. Good(0)
  <2>1. ASSUME NEW S \in SUBSET (0..12), Cardinality(S) <= 0 PROVE S = {}
    BY <2>1, RankSets
  <2> QED
    BY <2>1
<1>2. ASSUME NEW k \in 0..4, Good(k) PROVE Good(k + 1)
  <2> SUFFICES ASSUME NEW S \in SUBSET (0..12), Cardinality(S) <= k + 1, NEW r \in S
               PROVE  \E i \in 1..How(S, k + 1) : Highest(S, k + 1)[i] = r
    OBVIOUS
  <2> DEFINE rest == S \ {Max(S)}
  <2>0. k \in Nat /\ S # {}
    OBVIOUS
  <2>1. /\ Max(S) \in S /\ rest \in SUBSET (0..12) /\ How(rest, k) \in Nat
        /\ How(S, k + 1) = How(rest, k) + 1 /\ Highest(S, k + 1)[1] = Max(S)
        /\ \A j \in 1..How(rest, k) : Highest(S, k + 1)[j + 1] = Highest(rest, k)[j]
    BY <2>0, HighestStep
  <2>2. Cardinality(rest) <= k
    <3>1. Cardinality(rest) = Cardinality(S) - 1 /\ Cardinality(S) \in Nat
      BY <2>1, RankSets, FS_RemoveElement
    <3> QED
      BY <3>1
  <2>3. r = Max(S) \/ r \in rest
    OBVIOUS
  <2>4. \A q \in rest : \E j \in 1..How(rest, k) : Highest(rest, k)[j] = q
    BY <1>2, <2>1, <2>2
  <2> HIDE DEF rest
  <2>5. CASE r = Max(S)
    <3>1. 1 \in 1..How(S, k + 1)
      BY <2>1
    <3> QED
      BY <2>1, <2>5, <3>1
  <2>6. CASE r \in rest
    <3>1. PICK j \in 1..How(rest, k) : Highest(rest, k)[j] = r
      BY <2>4, <2>6
    <3>2. j + 1 \in 1..How(S, k + 1) /\ Highest(S, k + 1)[j + 1] = r
      BY <2>1, <3>1
    <3> QED
      BY <3>2
  <2> QED
    BY <2>3, <2>5, <2>6
<1> HIDE DEF Good
<1>3. 0 \in G /\ \A k \in 0..4 : k \in G => k + 1 \in G
  BY <1>1, <1>2
<1> HIDE DEF G
<1>4. n \in G
  BY <1>3, UpToFive
<1>5. Cardinality(R) <= n => Listed(R, n)
  BY <1>4 DEF G, Good
<1>6. DOMAIN Highest(R, n) = 1..How(R, n) /\ \A i \in 1..How(R, n) : Highest(R, n)[i] \in R
  BY HighestAreOf, HighestSeq
<1> QED
  BY <1>5, <1>6 DEF ToSet

\* So many cards of each of some ranks
LEMMA CardsOfGroups ==
  ASSUME NEW cards \in SUBSET AllCards, NEW n \in 1..4,
         NEW H \in SUBSET Often(cards, n), Cardinality(H) <= 5
  PROVE  \E X \in SUBSET cards :
           /\ IsFiniteSet(X) /\ Cardinality(X) \in Nat /\ Cardinality(X) <= n * Cardinality(H)
           /\ \A Y : X \subseteq Y /\ Y \subseteq cards => H \subseteq Often(Y, n)
<1> DEFINE Enough(X, K) ==
             \A Y : X \subseteq Y /\ Y \subseteq cards => K \subseteq Often(Y, n)
           Good(j) ==
             \A K \in SUBSET Often(cards, n) : Cardinality(K) = j =>
               \E X \in SUBSET cards :
                 /\ IsFiniteSet(X) /\ Cardinality(X) \in Nat /\ Cardinality(X) <= n * j
                 /\ Enough(X, K)
           G == {j \in 0..5 : Good(j)}
<1>0. Often(cards, n) \in SUBSET (0..12)
  BY RanksFinite DEF Ranks
<1>1. Good(0)
  <2>1. ASSUME NEW K \in SUBSET Often(cards, n), Cardinality(K) = 0 PROVE K = {}
    BY <1>0, <2>1, RankSets
  <2>2. IsFiniteSet({}) /\ Cardinality({}) = 0 /\ Cardinality({}) <= n * 0
    BY FS_EmptySet
  <2> QED
    BY <2>1, <2>2
<1>2. ASSUME NEW j \in 0..4, Good(j) PROVE Good(j + 1)
  <2> SUFFICES ASSUME NEW K \in SUBSET Often(cards, n), Cardinality(K) = j + 1
               PROVE  \E X \in SUBSET cards :
                        /\ IsFiniteSet(X) /\ Cardinality(X) \in Nat
                        /\ Cardinality(X) <= n * (j + 1) /\ Enough(X, K)
    OBVIOUS
  <2>1. IsFiniteSet(K) /\ K # {}
    BY <1>0, RankSets
  <2>2. PICK r \in K : TRUE
    BY <2>1
  <2>3. K \ {r} \in SUBSET Often(cards, n) /\ Cardinality(K \ {r}) = j
    BY <2>1, <2>2, FS_RemoveElement
  <2>4. PICK X \in SUBSET cards :
          /\ IsFiniteSet(X) /\ Cardinality(X) \in Nat /\ Cardinality(X) <= n * j
          /\ Enough(X, K \ {r})
    BY <1>2, <2>3
  <2>5. PICK Z \in SUBSET cards :
          /\ IsFiniteSet(Z) /\ Cardinality(Z) = n
          /\ \A Y : Z \subseteq Y /\ Y \subseteq cards => Count(Y, r) >= n /\ Count(Y, r) \in Nat
    BY <2>2, SomeOfRank
  <2>6. /\ IsFiniteSet(X \cup Z) /\ Cardinality(X \cup Z) \in Nat
        /\ Cardinality(X \cup Z) <= Cardinality(X) + n
    BY <2>4, <2>5, Union
  <2>7. ASSUME NEW a \in Nat, NEW b \in Nat, a <= n * j, b <= a + n PROVE b <= n * (j + 1)
    <3>1. n = 1 \/ n = 2 \/ n = 3 \/ n = 4
      OBVIOUS
    <3> QED
      BY <2>7, <3>1
  <2>8. Cardinality(X \cup Z) <= n * (j + 1)
    BY <2>4, <2>6, <2>7
  <2>9. Enough(X \cup Z, K)
    <3> SUFFICES ASSUME NEW Y, X \cup Z \subseteq Y, Y \subseteq cards, NEW q \in K
                 PROVE  q \in Often(Y, n)
      OBVIOUS
    <3>1. CASE q = r
      <4>1. Count(Y, r) >= n /\ Count(Y, r) \in Nat
        BY <2>5
      <4> QED
        BY <3>1, <4>1, RankAgain
    <3>2. CASE q # r
      BY <2>4, <3>2
    <3> QED
      BY <3>1, <3>2
  <2> QED
    BY <2>6, <2>8, <2>9
<1> HIDE DEF Good
<1>3. 0 \in G /\ \A j \in 0..4 : j \in G => j + 1 \in G
  BY <1>1, <1>2
<1> HIDE DEF G
<1>4. Cardinality(H) \in 0..5
  BY <1>0, RankSets
<1>5. Cardinality(H) \in G
  BY <1>3, <1>4, UpToFive
<1> QED
  BY <1>5 DEF G, Good

LEMMA OftenOnce ==
  ASSUME NEW cards \in SUBSET AllCards
  PROVE  Often(cards, 1) = RanksOf(cards)
<1>1. \A r : Count(cards, r) \in 0..4
  BY FourOfARankAtMost
<1>2. RanksCounted(cards, 1) = RanksOf(cards) \ Often(cards, 2)
  BY OftenNested
<1>3. ASSUME NEW r \in RanksOf(cards) PROVE Count(cards, r) >= 1
  <2>1. r \in Often(cards, 2) \/ r \in RanksCounted(cards, 1)
    BY <1>2
  <2>2. Count(cards, r) >= 2 \/ Count(cards, r) = 1
    BY <2>1 DEF Often, RanksCounted
  <2> QED
    BY <1>1, <2>2
<1> QED
  BY <1>3 DEF Often

\* Of the ranks that come n times the m highest, then of the others that come w
\* times the k highest
Tops(cards, n, m) == Highest(Often(cards, n), m)
Others(cards, n, m, w, k) == Highest(Often(cards, w) \ ToSet(Tops(cards, n, m)), k)
ByGroups(cards, n, m, w, k) == Tops(cards, n, m) \o Others(cards, n, m, w, k)

\* The categories that groups tell: five cards in all
Shape(c, n, m, w, k) ==
  \/ c = 0 /\ n = 2 /\ m = 0 /\ w = 1 /\ k = 5
  \/ c = 1 /\ n = 2 /\ m = 1 /\ w = 1 /\ k = 3
  \/ c = 2 /\ n = 2 /\ m = 2 /\ w = 1 /\ k = 1
  \/ c = 3 /\ n = 3 /\ m = 1 /\ w = 1 /\ k = 2
  \/ c = 6 /\ n = 3 /\ m = 1 /\ w = 2 /\ k = 1
  \/ c = 7 /\ n = 4 /\ m = 1 /\ w = 1 /\ k = 1

LEMMA RanksOften ==
  ASSUME NEW cards \in SUBSET AllCards, NEW n
  PROVE  Often(cards, n) \in SUBSET (0..12)
BY RanksFinite DEF Ranks

\* getComparisonKey sorts the ranks of five cards into their groups.
LEMMA KeyByGroups ==
  ASSUME NEW five \in SUBSET AllCards, Cardinality(five) = 5,
         NEW n, NEW m, NEW w, NEW k, Shape(Category(five), n, m, w, k)
  PROVE  /\ Key(five, Category(five)) = ByGroups(five, n, m, w, k)
         /\ Len(Tops(five, n, m)) = m /\ Len(Others(five, n, m, w, k)) = k
<1> DEFINE O(i) == Often(five, i)
           R == RanksOf(five)
           c == Category(five)
           none == Highest({}, 5)
           H(S) == Highest(S, 5)
<1>1. /\ \A i : O(i) \in SUBSET (0..12)
      /\ O(1) = R /\ R \in SUBSET (0..12)
  BY RanksOften, OftenOnce
<1>2. /\ RanksCounted(five, 4) = O(4) /\ RanksCounted(five, 3) = O(3) \ O(4)
      /\ RanksCounted(five, 2) = O(2) \ O(3) /\ RanksCounted(five, 1) = R \ O(2)
      /\ O(2) \subseteq R
  BY OftenNested
<1>3. GroupedAs(c, five)
  BY GroupsOfFive
<1>4. Key(five, c) = H(O(4)) \o H(O(3) \ O(4)) \o H(O(2) \ O(3)) \o H(R \ O(2))
  <2>1. c \in {0, 1, 2, 3, 6, 7}
    BY DEF Shape
  <2>2. Key(five, c) = Grouped(five)
    BY <2>1 DEF Key, STRAIGHT, FLUSH, STRAIGHT_FLUSH, ROYAL_FLUSH
  <2> QED
    BY <1>2, <2>2 DEF Grouped
<1>5. none = <<>> /\ \A S \in SUBSET (0..12) : H(S) \in Seq(Int)
  <2>1. {} \in SUBSET (0..12) /\ 5 \in 0..5
    OBVIOUS
  <2> QED
    BY <2>1, NoneHighest, HighestSeq
<1>6. \A s \in Seq(Int) : <<>> \o s = s /\ s \o <<>> = s
  BY ConcatEmptySeq
<1>7. \A x, y : x # y => IsFiniteSet({x, y}) /\ Cardinality({x, y}) = 2
  <2>1. ASSUME NEW x, NEW y, x # y PROVE IsFiniteSet({x, y}) /\ Cardinality({x, y}) = 2
    <3>1. IsFiniteSet({x}) /\ Cardinality({x}) = 1 /\ y \notin {x} /\ {x} \cup {y} = {x, y}
      BY <2>1, FS_Singleton
    <3>2. IsFiniteSet({x} \cup {y}) /\ Cardinality({x} \cup {y}) = Cardinality({x}) + 1
      BY <3>1, FS_AddElement
    <3> QED
      BY <3>1, <3>2
  <2> QED
    BY <2>1
<1>8. (\A x : Cardinality({x}) = 1) /\ Cardinality({}) = 0
  BY FS_Singleton, FS_EmptySet
<1> DEFINE Told == /\ Key(five, c) = ByGroups(five, n, m, w, k)
                   /\ Len(Highest(O(n), m)) = m
                   /\ Len(Highest(O(w) \ ToSet(Highest(O(n), m)), k)) = k
<1>9. ASSUME m \in 0..5, k \in 0..5, Cardinality(O(n)) = m, Cardinality(O(w) \ O(n)) = k,
             Key(five, c) = H(O(n)) \o H(O(w) \ O(n))
      PROVE  Told
  <2>1. O(n) \in SUBSET (0..12) /\ O(w) \in SUBSET (0..12)
    BY <1>1
  <2>2. ByGroups(five, n, m, w, k)
          = Highest(O(n), m) \o Highest(O(w) \ ToSet(Highest(O(n), m)), k)
    BY DEF ByGroups, Tops, Others
  <2> DEFINE P == O(n)
             Q == O(w)
  <2>3. /\ P \in SUBSET (0..12) /\ Q \in SUBSET (0..12) /\ m \in 0..5 /\ k \in 0..5
        /\ Cardinality(P) = m /\ Cardinality(Q \ P) = k
    BY <1>9, <2>1
  <2> HIDE DEF P, Q
  <2>4. /\ Highest(P, m) \o Highest(Q \ ToSet(Highest(P, m)), k)
             = Highest(P, 5) \o Highest(Q \ P, 5)
        /\ Len(Highest(P, m)) = m
        /\ Len(Highest(Q \ ToSet(Highest(P, m)), k)) = k
    <3>1. ToSet(Highest(P, m)) = P
      BY <2>3, AllHighest
    <3>2. Q \ P \in SUBSET (0..12) /\ 5 \in 0..5
      BY <2>3
    <3>3. Highest(P, m) = Highest(P, 5) /\ Len(Highest(P, m)) = m
      BY <2>3, <3>2, HighestAll
    <3>4. Highest(Q \ P, k) = Highest(Q \ P, 5) /\ Len(Highest(Q \ P, k)) = k
      BY <2>3, <3>2, HighestAll
    <3> QED
      BY <3>1, <3>3, <3>4
  <2> QED
    BY <1>9, <2>2, <2>4 DEF P, Q
<1> HIDE DEF H, none, O, R, c, Told
<1>10. \A S : S = {} => H(S) = <<>>
  BY <1>5 DEF none, H
<1>17. \A a, b \in Seq(Int) :
         /\ <<>> \o <<>> \o <<>> \o b = b /\ <<>> \o <<>> \o a \o b = a \o b
         /\ <<>> \o a \o <<>> \o b = a \o b /\ <<>> \o a \o b \o <<>> = a \o b
         /\ a \o <<>> \o <<>> \o b = a \o b /\ <<>> \o b = b
  <2>1. \A a, b \in Seq(Int) : a \o b \in Seq(Int)
    BY ConcatProperties
  <2>2. <<>> \in Seq(Int)
    BY EmptySeq
  <2> QED
    BY <1>6, <2>1, <2>2
<1>11. ASSUME c = 0 /\ n = 2 /\ m = 0 /\ w = 1 /\ k = 5
       PROVE  Told
  <2>1. O(4) = {} /\ O(3) = {} /\ O(2) = {} /\ Cardinality(R) = 5
    BY <1>3, <1>11 DEF GroupedAs, O, R
  <2>2. O(w) \ O(n) = R
    BY <1>1, <1>11, <2>1
  <2>3. O(3) \ O(4) = {} /\ O(2) \ O(3) = {} /\ R \ O(2) = R
    BY <2>1
  <2>4. Key(five, c) = H(O(n)) \o H(O(w) \ O(n))
    <3>1. H(O(n)) \in Seq(Int) /\ H(O(w) \ O(n)) \in Seq(Int)
      BY <1>1, <1>5, <2>2, <2>3
    <3>2. /\ H(O(4)) = <<>> /\ H(O(3) \ O(4)) = <<>>
          /\ H(O(2) \ O(3)) = <<>> /\ H(R \ O(2)) = H(O(w) \ O(n))
      BY <1>10, <1>11, <2>1, <2>2, <2>3, Zenon
    <3>3. Key(five, c) = <<>> \o <<>> \o <<>> \o H(O(w) \ O(n))
      BY <1>4, <3>2, Zenon
    <3>4. Key(five, c) = H(O(w) \ O(n))
      BY <1>17, <3>1, <3>3, Zenon
    <3> QED
      <4>1. H(O(n)) = <<>>
        BY <1>10, <1>11, <2>1
      <4> QED
        BY <1>17, <3>1, <3>4, <4>1, Zenon
  <2>5. m \in 0..5 /\ k \in 0..5 /\ Cardinality(O(n)) = m /\ Cardinality(O(w) \ O(n)) = k
    <3>1. O(n) = {} /\ O(w) \ O(n) = R
      BY <1>11, <2>1, <2>2, Zenon
    <3>2. Cardinality({}) = m /\ Cardinality(R) = k
      BY <1>8, <1>11, <2>1, Zenon
    <3>3. m \in 0..5 /\ k \in 0..5
      BY <1>11
    <3> QED
      BY <3>1, <3>2, <3>3, Zenon
  <2> QED
    BY <1>9, <2>4, <2>5
<1>12. ASSUME c = 1 /\ n = 2 /\ m = 1 /\ w = 1 /\ k = 3
       PROVE  Told
  <2>1. PICK p \in R : O(4) = {} /\ O(3) = {} /\ O(2) = {p} /\ Cardinality(R \ {p}) = 3
    BY <1>3, <1>12 DEF GroupedAs, O, R
  <2>2. O(w) \ O(n) = R \ {p}
    BY <1>1, <1>12, <2>1
  <2>3. O(3) \ O(4) = {} /\ O(2) \ O(3) = O(n) /\ R \ O(2) = R \ {p} /\ R \ {p} \in SUBSET (0..12)
    BY <1>1, <1>12, <2>1
  <2>4. Key(five, c) = H(O(n)) \o H(O(w) \ O(n))
    <3>1. H(O(n)) \in Seq(Int) /\ H(O(w) \ O(n)) \in Seq(Int)
      BY <1>1, <1>5, <2>2, <2>3
    <3>2. /\ H(O(4)) = <<>> /\ H(O(3) \ O(4)) = <<>>
          /\ H(O(2) \ O(3)) = H(O(n)) /\ H(R \ O(2)) = H(O(w) \ O(n))
      BY <1>10, <1>12, <2>1, <2>2, <2>3, Zenon
    <3>3. Key(five, c) = <<>> \o <<>> \o H(O(n)) \o H(O(w) \ O(n))
      BY <1>4, <3>2, Zenon
    <3>4. Key(five, c) = H(O(n)) \o H(O(w) \ O(n))
      BY <1>17, <3>1, <3>3, Zenon
    <3> QED
      BY <3>4
  <2>5. m \in 0..5 /\ k \in 0..5 /\ Cardinality(O(n)) = m /\ Cardinality(O(w) \ O(n)) = k
    <3>1. O(n) = {p} /\ O(w) \ O(n) = R \ {p}
      BY <1>12, <2>1, <2>2, Zenon
    <3>2. Cardinality({p}) = m /\ Cardinality(R \ {p}) = k
      BY <1>8, <1>12, <2>1, Zenon
    <3>3. m \in 0..5 /\ k \in 0..5
      BY <1>12
    <3> QED
      BY <3>1, <3>2, <3>3, Zenon
  <2> QED
    BY <1>9, <2>4, <2>5
<1>13. ASSUME c = 2 /\ n = 2 /\ m = 2 /\ w = 1 /\ k = 1
       PROVE  Told
  <2>1. PICK p, q \in R : /\ p # q /\ O(4) = {} /\ O(3) = {} /\ O(2) = {p, q}
                          /\ Cardinality(R \ {p, q}) = 1
    BY <1>3, <1>13 DEF GroupedAs, O, R
  <2>2. O(w) \ O(n) = R \ {p, q}
    BY <1>1, <1>13, <2>1
  <2>3. O(3) \ O(4) = {} /\ O(2) \ O(3) = O(n) /\ R \ O(2) = R \ {p, q}
        /\ R \ {p, q} \in SUBSET (0..12)
    BY <1>1, <1>13, <2>1
  <2>4. Key(five, c) = H(O(n)) \o H(O(w) \ O(n))
    <3>1. H(O(n)) \in Seq(Int) /\ H(O(w) \ O(n)) \in Seq(Int)
      BY <1>1, <1>5, <2>2, <2>3
    <3>2. /\ H(O(4)) = <<>> /\ H(O(3) \ O(4)) = <<>>
          /\ H(O(2) \ O(3)) = H(O(n)) /\ H(R \ O(2)) = H(O(w) \ O(n))
      BY <1>10, <1>13, <2>1, <2>2, <2>3, Zenon
    <3>3. Key(five, c) = <<>> \o <<>> \o H(O(n)) \o H(O(w) \ O(n))
      BY <1>4, <3>2, Zenon
    <3>4. Key(five, c) = H(O(n)) \o H(O(w) \ O(n))
      BY <1>17, <3>1, <3>3, Zenon
    <3> QED
      BY <3>4
  <2>5. m \in 0..5 /\ k \in 0..5 /\ Cardinality(O(n)) = m /\ Cardinality(O(w) \ O(n)) = k
    <3>1. O(n) = {p, q} /\ O(w) \ O(n) = R \ {p, q}
      BY <1>13, <2>1, <2>2, Zenon
    <3>2. Cardinality({p, q}) = m /\ Cardinality(R \ {p, q}) = k
      BY <1>7, <1>13, <2>1, Zenon
    <3>3. m \in 0..5 /\ k \in 0..5
      BY <1>13
    <3> QED
      BY <3>1, <3>2, <3>3, Zenon
  <2> QED
    BY <1>9, <2>4, <2>5
<1>14. ASSUME c = 3 /\ n = 3 /\ m = 1 /\ w = 1 /\ k = 2
       PROVE  Told
  <2>1. PICK t \in R : O(4) = {} /\ O(3) = {t} /\ O(2) = {t} /\ Cardinality(R \ {t}) = 2
    BY <1>3, <1>14 DEF GroupedAs, O, R
  <2>2. O(w) \ O(n) = R \ {t}
    BY <1>1, <1>14, <2>1
  <2>3. O(3) \ O(4) = O(n) /\ O(2) \ O(3) = {} /\ R \ O(2) = R \ {t} /\ R \ {t} \in SUBSET (0..12)
    BY <1>1, <1>14, <2>1
  <2>4. Key(five, c) = H(O(n)) \o H(O(w) \ O(n))
    <3>1. H(O(n)) \in Seq(Int) /\ H(O(w) \ O(n)) \in Seq(Int)
      BY <1>1, <1>5, <2>2, <2>3
    <3>2. /\ H(O(4)) = <<>> /\ H(O(3) \ O(4)) = H(O(n))
          /\ H(O(2) \ O(3)) = <<>> /\ H(R \ O(2)) = H(O(w) \ O(n))
      BY <1>10, <1>14, <2>1, <2>2, <2>3, Zenon
    <3>3. Key(five, c) = <<>> \o H(O(n)) \o <<>> \o H(O(w) \ O(n))
      BY <1>4, <3>2, Zenon
    <3>4. Key(five, c) = H(O(n)) \o H(O(w) \ O(n))
      BY <1>17, <3>1, <3>3, Zenon
    <3> QED
      BY <3>4
  <2>5. m \in 0..5 /\ k \in 0..5 /\ Cardinality(O(n)) = m /\ Cardinality(O(w) \ O(n)) = k
    <3>1. O(n) = {t} /\ O(w) \ O(n) = R \ {t}
      BY <1>14, <2>1, <2>2, Zenon
    <3>2. Cardinality({t}) = m /\ Cardinality(R \ {t}) = k
      BY <1>8, <1>14, <2>1, Zenon
    <3>3. m \in 0..5 /\ k \in 0..5
      BY <1>14
    <3> QED
      BY <3>1, <3>2, <3>3, Zenon
  <2> QED
    BY <1>9, <2>4, <2>5
<1>15. ASSUME c = 6 /\ n = 3 /\ m = 1 /\ w = 2 /\ k = 1
       PROVE  Told
  <2>1. PICK t, p \in R : t # p /\ O(4) = {} /\ O(3) = {t} /\ O(2) = {t, p} /\ R = {t, p}
    BY <1>3, <1>15 DEF GroupedAs, O, R
  <2>2. O(w) \ O(n) = {p}
    BY <1>1, <1>15, <2>1
  <2>3. O(3) \ O(4) = O(n) /\ O(2) \ O(3) = {p} /\ R \ O(2) = {} /\ {p} \in SUBSET (0..12)
    BY <1>1, <1>15, <2>1
  <2>4. Key(five, c) = H(O(n)) \o H(O(w) \ O(n))
    <3>1. H(O(n)) \in Seq(Int) /\ H(O(w) \ O(n)) \in Seq(Int)
      BY <1>1, <1>5, <2>2, <2>3
    <3>2. /\ H(O(4)) = <<>> /\ H(O(3) \ O(4)) = H(O(n))
          /\ H(O(2) \ O(3)) = H(O(w) \ O(n)) /\ H(R \ O(2)) = <<>>
      BY <1>10, <1>15, <2>1, <2>2, <2>3, Zenon
    <3>3. Key(five, c) = <<>> \o H(O(n)) \o H(O(w) \ O(n)) \o <<>>
      BY <1>4, <3>2, Zenon
    <3>4. Key(five, c) = H(O(n)) \o H(O(w) \ O(n))
      BY <1>17, <3>1, <3>3, Zenon
    <3> QED
      BY <3>4
  <2>5. m \in 0..5 /\ k \in 0..5 /\ Cardinality(O(n)) = m /\ Cardinality(O(w) \ O(n)) = k
    <3>1. O(n) = {t} /\ O(w) \ O(n) = {p}
      BY <1>15, <2>1, <2>2, Zenon
    <3>2. Cardinality({t}) = m /\ Cardinality({p}) = k
      BY <1>8, <1>15, <2>1, Zenon
    <3>3. m \in 0..5 /\ k \in 0..5
      BY <1>15
    <3> QED
      BY <3>1, <3>2, <3>3, Zenon
  <2> QED
    BY <1>9, <2>4, <2>5
<1>16. ASSUME c = 7 /\ n = 4 /\ m = 1 /\ w = 1 /\ k = 1
       PROVE  Told
  <2>1. PICK q \in R : O(4) = {q} /\ O(3) = {q} /\ O(2) = {q} /\ Cardinality(R \ {q}) = 1
    BY <1>3, <1>16 DEF GroupedAs, O, R
  <2>2. O(w) \ O(n) = R \ {q}
    BY <1>1, <1>16, <2>1
  <2>3. O(4) = O(n) /\ O(3) \ O(4) = {} /\ O(2) \ O(3) = {} /\ R \ O(2) = R \ {q}
        /\ R \ {q} \in SUBSET (0..12)
    BY <1>1, <1>16, <2>1
  <2>4. Key(five, c) = H(O(n)) \o H(O(w) \ O(n))
    <3>1. H(O(n)) \in Seq(Int) /\ H(O(w) \ O(n)) \in Seq(Int)
      BY <1>1, <1>5, <2>2, <2>3
    <3>2. /\ H(O(4)) = H(O(n)) /\ H(O(3) \ O(4)) = <<>>
          /\ H(O(2) \ O(3)) = <<>> /\ H(R \ O(2)) = H(O(w) \ O(n))
      BY <1>10, <1>16, <2>1, <2>2, <2>3, Zenon
    <3>3. Key(five, c) = H(O(n)) \o <<>> \o <<>> \o H(O(w) \ O(n))
      BY <1>4, <3>2, Zenon
    <3>4. Key(five, c) = H(O(n)) \o H(O(w) \ O(n))
      BY <1>17, <3>1, <3>3, Zenon
    <3> QED
      BY <3>4
  <2>5. m \in 0..5 /\ k \in 0..5 /\ Cardinality(O(n)) = m /\ Cardinality(O(w) \ O(n)) = k
    <3>1. O(n) = {q} /\ O(w) \ O(n) = R \ {q}
      BY <1>16, <2>1, <2>2, Zenon
    <3>2. Cardinality({q}) = m /\ Cardinality(R \ {q}) = k
      BY <1>8, <1>16, <2>1, Zenon
    <3>3. m \in 0..5 /\ k \in 0..5
      BY <1>16
    <3> QED
      BY <3>1, <3>2, <3>3, Zenon
  <2> QED
    BY <1>9, <2>4, <2>5
<1> QED
  <2>1. Told
    BY <1>11, <1>12, <1>13, <1>14, <1>15, <1>16 DEF Shape, c
  <2> QED
    BY <2>1 DEF Told, c, O, Tops, Others

LEMMA OftenGrows ==
  ASSUME NEW B \in SUBSET AllCards, NEW A \in SUBSET B, NEW n \in Nat
  PROVE  Often(A, n) \subseteq Often(B, n)
<1> SUFFICES ASSUME NEW r \in Often(A, n) PROVE r \in Often(B, n)
  OBVIOUS
<1>1. r \in RanksOf(B) /\ Count(A, r) >= n
  BY DEF Often, RanksOf
<1>2. Count(A, r) \in Nat /\ Count(B, r) \in Nat /\ Count(A, r) <= Count(B, r)
  BY CountGrows
<1>3. Count(B, r) >= n
  BY <1>1, <1>2
<1> QED
  BY <1>1, <1>3 DEF Often

\* More cards decide for themselves, if as much is told of them.
LEMMA GroupsGrow ==
  ASSUME NEW B \in SUBSET AllCards, NEW A \in SUBSET B,
         NEW n \in Nat, NEW w \in Nat, NEW m \in 0..5, NEW k \in 0..5,
         Len(Tops(B, n, m)) = Len(Tops(A, n, m)),
         Len(Others(B, n, m, w, k)) = Len(Others(A, n, m, w, k))
  PROVE  AtLeast(ByGroups(B, n, m, w, k), ByGroups(A, n, m, w, k))
<1> DEFINE P == Often(B, n)
           Q == Often(B, w) \ ToSet(Highest(P, m))
           S == Often(A, n)
           T == Often(A, w) \ ToSet(Highest(S, m))
<1>1. P \in SUBSET (0..12) /\ Q \in SUBSET (0..12) /\ S \in SUBSET P /\ T \in SUBSET (0..12)
  <2>1. A \in SUBSET AllCards
    OBVIOUS
  <2>2. /\ Often(B, n) \in SUBSET (0..12) /\ Often(B, w) \in SUBSET (0..12)
        /\ Often(A, w) \in SUBSET (0..12)
    BY <2>1, RanksOften
  <2>3. Often(A, n) \subseteq Often(B, n)
    BY OftenGrows
  <2> QED
    BY <2>2, <2>3
<1>2. Highest(S, m) = Highest(P, m) => T \in SUBSET Q
  <2>1. Often(A, w) \subseteq Often(B, w)
    BY OftenGrows
  <2> QED
    BY <2>1
<1>3. ByGroups(B, n, m, w, k) = Highest(P, m) \o Highest(Q, k)
  BY DEF ByGroups, Tops, Others
<1>4. ByGroups(A, n, m, w, k) = Highest(S, m) \o Highest(T, k)
  BY DEF ByGroups, Tops, Others
<1>5. Len(Highest(P, m)) = Len(Highest(S, m)) /\ Len(Highest(Q, k)) = Len(Highest(T, k))
  BY DEF Tops, Others
<1> HIDE DEF P, Q, S, T
<1>6. S \in SUBSET (0..12)
  BY <1>1
<1>7. /\ Highest(P, m) \in Seq(Int) /\ Len(Highest(P, m)) = How(P, m)
      /\ Highest(S, m) \in Seq(Int) /\ Len(Highest(S, m)) = How(S, m)
  BY <1>1, <1>6, HighestSeq
<1>8. /\ Highest(Q, k) \in Seq(Int) /\ Len(Highest(Q, k)) = How(Q, k)
      /\ Highest(T, k) \in Seq(Int) /\ Len(Highest(T, k)) = How(T, k)
  BY <1>1, HighestSeq
<1>9. AtLeast(Highest(P, m), Highest(S, m))
  <2>1. How(P, m) = How(S, m)
    BY <1>5, <1>7
  <2> QED
    BY <1>1, <2>1, AtLeastHighest
<1>10. ASSUME Highest(P, m) = Highest(S, m) PROVE AtLeast(Highest(Q, k), Highest(T, k))
  <2>1. T \in SUBSET Q /\ How(Q, k) = How(T, k)
    BY <1>2, <1>5, <1>8, <1>10
  <2> QED
    BY <1>1, <2>1, AtLeastHighest
<1>11. AtLeast(Highest(P, m) \o Highest(Q, k), Highest(S, m) \o Highest(T, k))
  BY <1>5, <1>7, <1>8, <1>9, <1>10, AtLeastJoin
<1> QED
  BY <1>3, <1>4, <1>11

\* What is told tells how many there are.
LEMMA HowManyTold ==
  ASSUME NEW R \in SUBSET (0..12)
  PROVE  /\ \A n \in 1..5 : Highest(R, n) = <<>> <=> R = {}
         /\ Len(Highest(R, 2)) = 2 <=> Cardinality(R) >= 2
<1>1. Cardinality(R) \in Nat /\ (Cardinality(R) = 0 <=> R = {})
  BY RankSets
<1>2. ASSUME NEW n \in 1..5 PROVE Highest(R, n) = <<>> <=> R = {}
  <2>1. n \in 0..5 /\ n # 0
    BY <1>2
  <2>2. Highest(R, n) \in Seq(Int) /\ Len(Highest(R, n)) = How(R, n)
    BY <2>1, HighestSeq
  <2>3. Highest(R, n) = <<>> <=> How(R, n) = 0
    BY <2>2, EmptySeq
  <2>4. How(R, n) = 0 <=> Cardinality(R) = 0
    BY <1>1, <2>1 DEF How
  <2> QED
    BY <1>1, <2>3, <2>4
<1>3. Len(Highest(R, 2)) = 2 <=> Cardinality(R) >= 2
  <2>1. 2 \in 0..5
    OBVIOUS
  <2>2. Len(Highest(R, 2)) = How(R, 2)
    BY <2>1, HighestSeq
  <2>3. How(R, 2) = 2 <=> Cardinality(R) >= 2
    BY <1>1 DEF How
  <2> QED
    BY <2>2, <2>3
<1> QED
  BY <1>2, <1>3

LEMMA ShapeTypes ==
  ASSUME NEW c, NEW n, NEW m, NEW w, NEW k, Shape(c, n, m, w, k)
  PROVE  /\ c \in {0, 1, 2, 3, 6, 7} /\ n \in 1..4 /\ w \in 1..4 /\ n \in Nat /\ w \in Nat
         /\ m \in 0..5 /\ k \in 0..5 /\ k >= 1
         /\ \A a, b \in Nat : a <= m /\ b <= k => n * a + w * b <= 5
<1>1. /\ c \in {0, 1, 2, 3, 6, 7} /\ n \in 1..4 /\ w \in 1..4 /\ n \in Nat /\ w \in Nat
      /\ m \in 0..5 /\ k \in 0..5 /\ k >= 1
  BY DEF Shape
<1>2. ASSUME NEW a \in Nat, NEW b \in Nat, a <= m, b <= k PROVE n * a + w * b <= 5
  BY <1>2 DEF Shape
<1> QED
  BY <1>1, <1>2

\* The category that groups tell is made by them.
LEMMA MadeOfGroups ==
  ASSUME NEW cards \in SUBSET AllCards, NEW five \in SUBSET cards,
         NEW c, NEW n, NEW m, NEW w, NEW k, Shape(c, n, m, w, k), Made(c, cards),
         Tops(five, n, m) = Tops(cards, n, m),
         Others(five, n, m, w, k) = Others(cards, n, m, w, k)
  PROVE  Made(c, five)
<1> DEFINE O(i) == Often(cards, i)
           F(i) == Often(five, i)
           S == ToSet(Highest(O(n), m))
<1> USE DEF ROYAL_FLUSH, STRAIGHT_FLUSH, FOUR_OF_A_KIND, FULL_HOUSE, FLUSH, STRAIGHT,
            THREE_OF_A_KIND, TWO_PAIR, ONE_PAIR
<1>8. /\ Highest(F(n), m) = Highest(O(n), m)
      /\ Highest(F(w) \ S, k) = Highest(O(w) \ S, k)
  <2>1. Highest(F(n), m) = Highest(O(n), m)
    BY DEF Tops
  <2>2. Others(five, n, m, w, k) = Highest(F(w) \ S, k) /\ Others(cards, n, m, w, k) = Highest(O(w) \ S, k)
    BY <2>1 DEF Tops, Others
  <2> QED
    BY <2>1, <2>2
<1>1. /\ \A i : O(i) \in SUBSET (0..12) /\ F(i) \in SUBSET (0..12)
      /\ F(3) \subseteq F(2) /\ O(3) \subseteq O(2)
  <2>1. five \in SUBSET AllCards
    OBVIOUS
  <2> QED
    BY <2>1, RanksOften, OftenNested
<1>2. m = 1 => (O(n) # {} <=> F(n) # {})
  <2>1. 1 \in 1..5
    OBVIOUS
  <2>2. \A R \in SUBSET (0..12) : Highest(R, 1) = <<>> <=> R = {}
    BY <2>1, HowManyTold
  <2>3. O(n) \in SUBSET (0..12) /\ F(n) \in SUBSET (0..12)
    BY <1>1
  <2>4. m = 1 => Highest(F(n), 1) = Highest(O(n), 1)
    BY <1>8
  <2> HIDE DEF O, F
  <2> QED
    BY <2>2, <2>3, <2>4
<1>3. CASE c = 0
  BY <1>3 DEF Made
<1>4. CASE c \in {1, 3, 7}
  <2>1. m = 1 /\ n = (IF c = 1 THEN 2 ELSE IF c = 3 THEN 3 ELSE 4)
    BY <1>4 DEF Shape
  <2>2. O(n) # {}
    BY <1>4, <2>1 DEF Made
  <2>3. F(n) # {}
    BY <1>2, <2>1, <2>2
  <2> QED
    BY <1>4, <2>1, <2>3 DEF Made
<1>5. CASE c = 2
  <2>1. m = 2 /\ n = 2 /\ Cardinality(O(2)) >= 2
    BY <1>5 DEF Shape, Made
  <2>2. O(2) \in SUBSET (0..12) /\ F(2) \in SUBSET (0..12)
    BY <1>1
  <2>3. Highest(F(2), 2) = Highest(O(2), 2)
    BY <1>8, <2>1
  <2>4. Cardinality(F(2)) >= 2
    <3> HIDE DEF O, F
    <3> QED
      BY <2>1, <2>2, <2>3, HowManyTold
  <2> QED
    BY <1>5, <2>4 DEF Made
<1>6. CASE c = 6
  <2>1. n = 3 /\ m = 1 /\ w = 2 /\ k = 1 /\ O(3) # {} /\ Cardinality(O(2)) >= 2
    BY <1>6 DEF Shape, Made
  <2>2. F(3) # {}
    BY <1>2, <2>1
  <2>3. Highest(O(3), 1) = <<Max(O(3))>> /\ Highest(F(3), 1) = <<Max(F(3))>> /\ Max(F(3)) \in F(3)
    <3>1. O(3) \in SUBSET (0..12) /\ F(3) \in SUBSET (0..12)
      BY <1>1
    <3> HIDE DEF O, F
    <3> QED
      BY <2>1, <2>2, <3>1, OneHighest
  <2>4. Max(F(3)) = Max(O(3))
    <3>1. Highest(F(3), 1) = Highest(O(3), 1)
      BY <1>8, <2>1
    <3> QED
      BY <2>3, <3>1
  <2>5. S = {Max(O(3))}
    BY <2>1, <2>3 DEF ToSet
  <2>6. O(2) \ S # {}
    <3>1. \E x, y \in O(2) : x # y
      BY <2>1, RanksFinite, AtLeastTwo
    <3> QED
      BY <2>5, <3>1
  <2>7. F(2) \ S # {}
    <3>1. O(2) \ S \in SUBSET (0..12) /\ F(2) \ S \in SUBSET (0..12) /\ 1 \in 1..5
      BY <1>1
    <3>2. Highest(F(2) \ S, 1) = Highest(O(2) \ S, 1)
      BY <1>8, <2>1
    <3> HIDE DEF O, F, S
    <3> QED
      BY <2>6, <3>1, <3>2, HowManyTold
  <2>8. \E x, y \in F(2) : x # y
    BY <1>1, <2>3, <2>4, <2>5, <2>7
  <2>9. Cardinality(F(2)) >= 2
    <3>1. five \in SUBSET AllCards
      OBVIOUS
    <3> QED
      BY <2>8, <3>1, RanksFinite, AtLeastTwo
  <2> QED
    BY <1>6, <2>2, <2>9 DEF Made
<1>7. c \in {0, 1, 2, 3, 6, 7}
  BY ShapeTypes
<1> QED
  BY <1>3, <1>4, <1>5, <1>6, <1>7

\* Five cards that make all that the category asks have the category.
LEMMA FiveOfCategory ==
  ASSUME NEW cards \in SUBSET AllCards, NEW five \in SUBSET cards, Cardinality(five) = 5,
         Made(Category(cards), five)
  PROVE  five \in kSubset(5, cards) /\ Category(five) = Category(cards)
<1>1. five \in kSubset(5, cards)
  BY DEF kSubset
<1>2. Category(cards) \in 0..9 /\ Category(five) \in 0..9 /\ Category(five) >= Category(cards)
  BY CategoryIsTheBestMade
<1>3. Category(five) <= Category(cards)
  BY CategoryGrows
<1> QED
  BY <1>1, <1>2, <1>3

\* Five of the cards have the groups that decide.
LEMMA GroupsAttained ==
  ASSUME NEW cards \in SUBSET AllCards, CanEvaluate(cards),
         NEW n, NEW m, NEW w, NEW k, Shape(Category(cards), n, m, w, k)
  PROVE  \E five \in kSubset(5, cards) :
           /\ Category(five) = Category(cards)
           /\ Tops(five, n, m) = Tops(cards, n, m)
           /\ Others(five, n, m, w, k) = Others(cards, n, m, w, k)
<1> DEFINE P == Often(cards, n)
           S == ToSet(Highest(P, m))
           Q == Often(cards, w) \ S
<1>1. /\ n \in 1..4 /\ w \in 1..4 /\ n \in Nat /\ w \in Nat /\ m \in 0..5 /\ k \in 0..5
      /\ \A a, b \in Nat : a <= m /\ b <= k => n * a + w * b <= 5
  BY ShapeTypes
<1>2. P \in SUBSET (0..12) /\ Q \in SUBSET (0..12)
  <2>1. Often(cards, n) \in SUBSET (0..12) /\ Often(cards, w) \in SUBSET (0..12)
    BY RanksOften
  <2> QED
    BY <2>1
<1>3. PICK H \in SUBSET P :
        /\ IsFiniteSet(H) /\ Cardinality(H) <= m
        /\ \A i \in 1..How(P, m) : Highest(P, m)[i] \in H
  <2> HIDE DEF P
  <2> QED
    BY <1>1, <1>2, HighestSet
<1>4. PICK I \in SUBSET Q :
        /\ IsFiniteSet(I) /\ Cardinality(I) <= k
        /\ \A i \in 1..How(Q, k) : Highest(Q, k)[i] \in I
  <2> HIDE DEF Q
  <2> QED
    BY <1>1, <1>2, HighestSet
<1>5. Cardinality(H) \in Nat /\ Cardinality(I) \in Nat /\ Cardinality(H) <= 5 /\ Cardinality(I) <= 5
  BY <1>1, <1>3, <1>4, FS_CardinalityType
<1>6. PICK X \in SUBSET cards :
        /\ IsFiniteSet(X) /\ Cardinality(X) \in Nat /\ Cardinality(X) <= n * Cardinality(H)
        /\ \A Y : X \subseteq Y /\ Y \subseteq cards => H \subseteq Often(Y, n)
  BY <1>1, <1>5, CardsOfGroups
<1>7. PICK Z \in SUBSET cards :
        /\ IsFiniteSet(Z) /\ Cardinality(Z) \in Nat /\ Cardinality(Z) <= w * Cardinality(I)
        /\ \A Y : Z \subseteq Y /\ Y \subseteq cards => I \subseteq Often(Y, w)
  <2>1. I \in SUBSET Often(cards, w)
    OBVIOUS
  <2> QED
    BY <1>1, <1>5, <2>1, CardsOfGroups
<1>8. X \cup Z \in SUBSET cards /\ Cardinality(X \cup Z) <= 5
  <2>1. /\ Cardinality(X \cup Z) \in Nat
        /\ Cardinality(X \cup Z) <= Cardinality(X) + Cardinality(Z)
    BY <1>6, <1>7, Union
  <2>2. n * Cardinality(H) + w * Cardinality(I) <= 5
    BY <1>1, <1>3, <1>4, <1>5
  <2>3. n * Cardinality(H) \in Nat /\ w * Cardinality(I) \in Nat
    BY <1>1, <1>5
  <2>4. \A a, b, c, x, z \in Nat : a <= x + z /\ x <= b /\ z <= c /\ b + c <= 5 => a <= 5
    OBVIOUS
  <2>5. Cardinality(X \cup Z) <= 5
    BY <1>6, <1>7, <2>1, <2>2, <2>3, <2>4
  <2> QED
    BY <2>5
<1>9. PICK five \in SUBSET cards : X \cup Z \subseteq five /\ Cardinality(five) = 5
  <2>1. IsFiniteSet(cards) /\ 5 <= Cardinality(cards) /\ 5 \in 0..5
    BY CardsFinite DEF CanEvaluate
  <2> QED
    BY <1>8, <2>1, Grows
<1>10. H \subseteq Often(five, n) /\ I \subseteq Often(five, w)
  <2>1. X \subseteq five /\ Z \subseteq five /\ five \subseteq cards
    BY <1>9
  <2> QED
    BY <1>6, <1>7, <2>1
<1>11. Often(five, n) \subseteq P /\ Often(five, w) \ S \subseteq Q
  <2>1. Often(five, n) \subseteq Often(cards, n) /\ Often(five, w) \subseteq Often(cards, w)
    BY <1>1, OftenGrows
  <2> QED
    BY <2>1
<1>12. Highest(Often(five, n), m) = Highest(P, m)
  <2>1. \A i \in 1..How(P, m) : Highest(P, m)[i] \in Often(five, n)
    BY <1>3, <1>10
  <2> HIDE DEF P
  <2> QED
    BY <1>1, <1>2, <1>11, <2>1, HighestAgree
<1>13. Highest(Often(five, w) \ S, k) = Highest(Q, k)
  <2> DEFINE T == Often(five, w) \ S
  <2>1. I \subseteq T
    BY <1>10
  <2>2. T \in SUBSET Q /\ \A i \in 1..How(Q, k) : Highest(Q, k)[i] \in T
    BY <1>4, <1>11, <2>1
  <2> HIDE DEF T, Q
  <2>3. Highest(T, k) = Highest(Q, k)
    BY <1>1, <1>2, <2>2, HighestAgree
  <2> QED
    BY <2>3 DEF T
<1>16. Tops(five, n, m) = Tops(cards, n, m)
  BY <1>12 DEF Tops
<1>17. Others(five, n, m, w, k) = Others(cards, n, m, w, k)
  BY <1>13, <1>16 DEF Tops, Others
<1>14. Made(Category(cards), five)
  <2>1. Made(Category(cards), cards)
    BY CategoryIsTheBestMade
  <2> QED
    BY <1>16, <1>17, <2>1, MadeOfGroups
<1>15. five \in kSubset(5, cards) /\ Category(five) = Category(cards)
  BY <1>9, <1>14, FiveOfCategory
<1> QED
  BY <1>15, <1>16, <1>17

LEMMA PairJoined ==
  ASSUME NEW a \in Int, NEW b \in Int
  PROVE  <<a>> \o <<b>> = <<a, b>>
<1>1. <<a>> \in Seq(Int) /\ <<b>> \in Seq(Int) /\ <<a, b>> \in Seq(Int)
  OBVIOUS
<1>2. Len(<<a>>) = 1 /\ Len(<<b>>) = 1 /\ Len(<<a, b>>) = 2
  OBVIOUS
<1>3. /\ <<a>> \o <<b>> \in Seq(Int) /\ Len(<<a>> \o <<b>>) = 1 + 1
      /\ \A i \in 1..(1 + 1) :
           (<<a>> \o <<b>>)[i] = IF i <= 1 THEN <<a>>[i] ELSE <<b>>[i - 1]
  BY <1>1, <1>2, ConcatProperties
<1>4. (<<a>> \o <<b>>)[1] = a /\ (<<a>> \o <<b>>)[2] = b
  <2>1. 1 \in 1..(1 + 1) /\ 2 \in 1..(1 + 1) /\ 1 <= 1 /\ ~(2 <= 1) /\ 2 - 1 = 1
    OBVIOUS
  <2>2. <<a>>[1] = a /\ <<b>>[1] = b
    OBVIOUS
  <2> QED
    BY <1>3, <2>1, <2>2
<1>5. \A i \in 1..2 : i = 1 \/ i = 2
  OBVIOUS
<1>6. ASSUME NEW s \in Seq(Int), NEW t \in Seq(Int), Len(s) = 2, Len(t) = 2,
             s[1] = t[1], s[2] = t[2]
      PROVE  s = t
  BY <1>5, <1>6, SeqEqual
<1>7. <<a, b>>[1] = a /\ <<a, b>>[2] = b
  OBVIOUS
<1> DEFINE s == <<a>> \o <<b>>
           t == <<a, b>>
<1>8. /\ s \in Seq(Int) /\ t \in Seq(Int) /\ Len(s) = 2 /\ Len(t) = 2
      /\ s[1] = t[1] /\ s[2] = t[2]
  BY <1>1, <1>2, <1>3, <1>4, <1>7
<1> HIDE DEF s, t
<1>9. s = t
  BY <1>6, <1>8
<1> QED
  BY <1>9 DEF s, t

\* What decides by the rules is told by the groups.
LEMMA StrengthByGroups ==
  ASSUME NEW cards \in SUBSET AllCards,
         NEW n, NEW m, NEW w, NEW k, Shape(Category(cards), n, m, w, k)
  PROVE  Strength(cards) = ByGroups(cards, n, m, w, k)
<1> DEFINE O(i) == Often(cards, i)
           R == RanksOf(cards)
           c == Category(cards)
           top(i) == Max(Often(cards, i))
<1> USE DEF ROYAL_FLUSH, STRAIGHT_FLUSH, FOUR_OF_A_KIND, FULL_HOUSE, FLUSH, STRAIGHT,
            THREE_OF_A_KIND, TWO_PAIR, ONE_PAIR
<1>1. Strength(cards) =
        CASE c \in {8, 9} -> <<Max(Runs(FlushRanks(cards)))>>
          [] c = 7 -> <<top(4)>> \o Highest(R \ {top(4)}, 1)
          [] c = 6 -> <<top(3), Max(O(2) \ {top(3)})>>
          [] c = 5 -> Highest(FlushRanks(cards), 5)
          [] c = 4 -> <<Max(Runs(R))>>
          [] c = 3 -> <<top(3)>> \o Highest(R \ {top(3)}, 2)
          [] c = 2 -> Highest(O(2), 2) \o Highest(R \ {Highest(O(2), 2)[1], Highest(O(2), 2)[2]}, 1)
          [] c = 1 -> <<top(2)>> \o Highest(R \ {top(2)}, 3)
          [] OTHER -> Highest(R, 5)
  BY DEF Strength
<1>2. ByGroups(cards, n, m, w, k) = Highest(O(n), m) \o Highest(O(w) \ ToSet(Highest(O(n), m)), k)
  BY DEF ByGroups, Tops, Others
<1>3. /\ \A i : O(i) \in SUBSET (0..12)
      /\ O(1) = R /\ R \in SUBSET (0..12)
  BY RanksOften, OftenOnce
<1>4. Made(c, cards)
  BY CategoryIsTheBestMade
<1>5. ASSUME NEW i, O(i) # {} PROVE Highest(O(i), 1) = <<top(i)>>
  <2>1. O(i) \in SUBSET (0..12)
    BY <1>3
  <2> QED
    BY <1>5, <2>1, OneHighest
<1>6. \A x : ToSet(<<x>>) = {x}
  BY DEF ToSet
<1>7. CASE c = 0 /\ n = 2 /\ m = 0 /\ w = 1 /\ k = 5
  <2>1. Strength(cards) = Highest(R, 5)
    BY <1>1, <1>7
  <2>2. Highest(O(2), 0) = <<>>
    <3>1. O(2) \in SUBSET (0..12) /\ 5 \in 0..5
      BY <1>3
    <3> QED
      BY <3>1, NoneHighest
  <2>3. ToSet(<<>>) = {} /\ R \ {} = R
    BY DEF ToSet
  <2>4. <<>> \o Highest(R, 5) = Highest(R, 5)
    <3>1. R \in SUBSET (0..12) /\ 5 \in 0..5
      BY <1>3
    <3>2. Highest(R, 5) \in Seq(Int)
      BY <3>1, HighestSeq
    <3> QED
      BY <3>2, ConcatEmptySeq
  <2>5. ByGroups(cards, n, m, w, k) = Highest(O(2), 0) \o Highest(R \ ToSet(Highest(O(2), 0)), 5)
    BY <1>2, <1>3, <1>7
  <2> QED
    BY <2>1, <2>2, <2>3, <2>4, <2>5, Zenon
<1>8. CASE c \in {1, 3, 7} /\ m = 1 /\ w = 1
  <2>1. /\ n = (IF c = 1 THEN 2 ELSE IF c = 3 THEN 3 ELSE 4)
        /\ k = (IF c = 1 THEN 3 ELSE IF c = 3 THEN 2 ELSE 1)
    BY <1>8 DEF Shape
  <2>2. O(n) # {}
    BY <1>4, <1>8, <2>1 DEF Made
  <2>3. Strength(cards) = <<top(n)>> \o Highest(R \ {top(n)}, k)
    <3> HIDE DEF c, R, O, top
    <3>1. CASE c = 1
      <4>1. Strength(cards) = <<top(2)>> \o Highest(R \ {top(2)}, 3) /\ n = 2 /\ k = 3
        BY <1>1, <2>1, <3>1
      <4> QED
        BY <4>1
    <3>2. CASE c = 3
      <4>1. Strength(cards) = <<top(3)>> \o Highest(R \ {top(3)}, 2) /\ n = 3 /\ k = 2
        BY <1>1, <2>1, <3>2
      <4> QED
        BY <4>1
    <3>3. CASE c = 7
      <4>1. Strength(cards) = <<top(4)>> \o Highest(R \ {top(4)}, 1) /\ n = 4 /\ k = 1
        BY <1>1, <2>1, <3>3
      <4> QED
        BY <4>1
    <3> QED
      BY <1>8, <3>1, <3>2, <3>3
  <2>4. ByGroups(cards, n, m, w, k) = Highest(O(n), 1) \o Highest(R \ ToSet(Highest(O(n), 1)), k)
    BY <1>2, <1>3, <1>8
  <2>5. Highest(O(n), 1) = <<top(n)>> /\ ToSet(<<top(n)>>) = {top(n)}
    BY <1>5, <1>6, <2>2
  <2> QED
    BY <2>3, <2>4, <2>5, Zenon
<1>9. CASE c = 2 /\ n = 2 /\ m = 2 /\ w = 1 /\ k = 1
  <2> DEFINE pairs == Highest(O(2), 2)
  <2>1. Strength(cards) = pairs \o Highest(R \ {pairs[1], pairs[2]}, 1)
    BY <1>1, <1>9
  <2>2. ByGroups(cards, n, m, w, k) = pairs \o Highest(R \ ToSet(pairs), 1)
    BY <1>2, <1>3, <1>9
  <2>3. pairs \in Seq(Int) /\ Len(pairs) = 2
    <3>1. O(2) \in SUBSET (0..12) /\ Cardinality(O(2)) >= 2 /\ 2 \in 0..5
      BY <1>3, <1>4, <1>9 DEF Made
    <3> QED
      BY <3>1, HowManyTold, HighestSeq
  <2>4. ToSet(pairs) = {pairs[1], pairs[2]}
    <3> HIDE DEF pairs
    <3>1. DOMAIN pairs = 1..2 /\ \A i : i \in 1..2 <=> i = 1 \/ i = 2
      BY <2>3, LenProperties
    <3> QED
      BY <3>1 DEF ToSet
  <2> QED
    BY <2>1, <2>2, <2>4, Zenon
<1>10. CASE c = 6 /\ n = 3 /\ m = 1 /\ w = 2 /\ k = 1
  <2> DEFINE rest == O(2) \ {top(3)}
  <2>1. O(3) # {} /\ Cardinality(O(2)) >= 2
    BY <1>4, <1>10 DEF Made
  <2>2. Strength(cards) = <<top(3), Max(rest)>>
    BY <1>1, <1>10
  <2>3. Highest(O(3), 1) = <<top(3)>> /\ ToSet(<<top(3)>>) = {top(3)}
    BY <1>5, <1>6, <2>1
  <2>4. ByGroups(cards, n, m, w, k) = Highest(O(3), 1) \o Highest(O(2) \ ToSet(Highest(O(3), 1)), 1)
    BY <1>2, <1>10
  <2>5. ByGroups(cards, n, m, w, k) = <<top(3)>> \o Highest(rest, 1)
    BY <2>3, <2>4, Zenon
  <2>6. rest # {} /\ rest \in SUBSET (0..12)
    <3>1. \E x, y \in O(2) : x # y
      BY <2>1, RanksFinite, AtLeastTwo
    <3>2. O(2) \in SUBSET (0..12)
      BY <1>3
    <3> QED
      BY <3>1, <3>2
  <2>7. Highest(rest, 1) = <<Max(rest)>> /\ Max(rest) \in Int
    <3> HIDE DEF rest
    <3> QED
      BY <2>6, OneHighest
  <2>8. top(3) \in Int
    <3>1. O(3) \in SUBSET (0..12)
      BY <1>3
    <3> QED
      BY <2>1, <3>1, OneHighest
  <2>9. <<top(3)>> \o <<Max(rest)>> = <<top(3), Max(rest)>>
    BY <2>7, <2>8, PairJoined
  <2> QED
    BY <2>2, <2>5, <2>7, <2>9, Zenon
<1> QED
  BY <1>7, <1>8, <1>9, <1>10 DEF Shape

-----------------------------------------------------------------------------
(* Straights and flushes                                                   *)

\* A straight of five cards has one top, the five in the wheel.
LEMMA TopOfRun ==
  ASSUME NEW five \in SUBSET AllCards, Cardinality(five) = 5, NEW h \in Runs(RanksOf(five))
  PROVE  /\ Runs(RanksOf(five)) = {h} /\ h \in 3..12
         /\ Top(five, 4) = h /\ Top(five, 8) = h
         /\ h = 12 => Top(five, 9) = 12
<1> DEFINE R == RanksOf(five)
<1>1. R \in SUBSET (0..12)
  BY RanksFinite DEF Ranks
<1>2. ASSUME NEW g \in Runs(R)
      PROVE  (g \in 4..12 /\ R = RunTo(g)) \/ (g = 3 /\ R = Wheel)
  <2>1. CASE g \in 4..12 /\ RunTo(g) \subseteq R
    <3>1. IsFiniteSet(RunTo(g)) /\ Cardinality(RunTo(g)) = 5
      BY <2>1, RunOfFive
    <3>2. RunTo(g) \in SUBSET RanksOf(five)
      BY <2>1
    <3>3. R = RunTo(g)
      BY <3>1, <3>2, OnlyTheRun
    <3>4. g \in 4..12
      BY <2>1
    <3> HIDE DEF R
    <3> QED
      BY <3>3, <3>4
  <2>2. CASE g = 3 /\ Wheel \subseteq R
    BY <2>2, WheelOfFive, OnlyTheRun
  <2> QED
    BY <2>1, <2>2 DEF Runs, Ace, RunTo
<1> HIDE DEF R
<1>3. \A g \in 4..12 : R = RunTo(g) => \A r : r \in R <=> r \in Int /\ g - 4 <= r /\ r <= g
  BY RunOfFive
<1>4. R = Wheel => \A r : r \in R <=> r \in {0, 1, 2, 3, 12}
  BY DEF Wheel, Ace
<1>5. ASSUME NEW g \in 4..12, R = RunTo(g) PROVE ~({0, 12} \subseteq R) /\ g \in R /\ Max(R) = g
  <2>1. \A r : r \in R <=> r \in Int /\ g - 4 <= r /\ r <= g
    BY <1>3, <1>5
  <2>2. ~(0 \in R /\ 12 \in R)
    BY <2>1
  <2>3. g \in R
    BY <2>1
  <2>4. Max(R) \in R /\ Max(R) >= g
    BY <1>1, <2>3, MaxAndMin
  <2>5. Max(R) = g
    BY <2>1, <2>4
  <2> QED
    BY <2>2, <2>3, <2>5
<1>6. R = Wheel => {0, 12} \subseteq R
  BY <1>4
<1>7. ASSUME NEW g \in Runs(R) PROVE g = h
  <2>1. /\ (g \in 4..12 /\ R = RunTo(g)) \/ (g = 3 /\ R = Wheel)
        /\ (h \in 4..12 /\ R = RunTo(h)) \/ (h = 3 /\ R = Wheel)
    BY <1>2 DEF R
  <2> QED
    BY <1>5, <1>6, <2>1
<1>8. Runs(R) = {h}
  BY <1>7 DEF R
<1>9. (h \in 4..12 /\ R = RunTo(h)) \/ (h = 3 /\ R = Wheel)
  BY <1>2 DEF R
<1>10. /\ Top(five, 4) = IF {0, 12} \subseteq R THEN 3 ELSE Max(R)
       /\ Top(five, 8) = IF {0, 12} \subseteq R THEN 3 ELSE Max(R)
       /\ Top(five, 9) = Max(R)
  BY DEF Top, R, STRAIGHT, STRAIGHT_FLUSH, Ace
<1>11. CASE h \in 4..12 /\ R = RunTo(h)
  BY <1>5, <1>8, <1>10, <1>11 DEF R
<1>12. CASE h = 3 /\ R = Wheel
  BY <1>6, <1>8, <1>10, <1>12 DEF R
<1> QED
  BY <1>9, <1>11, <1>12

LEMMA RunsAreRanks ==
  ASSUME NEW R
  PROVE  Runs(R) \in SUBSET (0..12)
BY DEF Runs, Ace

\* The key of best_combo: one that some combination has and none exceeds
LEMMA BestOf ==
  ASSUME NEW cards \in SUBSET AllCards, NEW c, NEW K \in Seq(Int), Len(K) <= 5,
         NEW good \in kSubset(5, cards), Category(good) = c, Key(good, c) = K,
         \A five \in kSubset(5, cards) : Category(five) = c =>
            /\ Key(five, c) \in Seq(Int) /\ Len(Key(five, c)) = Len(K)
            /\ AtLeast(K, Key(five, c))
  PROVE  BestKey(cards, c) = K
<1> DEFINE keys == {Key(five, c) :
                      five \in {f \in kSubset(5, cards) : EvaluateFive(f) = c}}
<1>1. \A five \in kSubset(5, cards) : EvaluateFive(five) = Category(five)
  <2>1. \A five \in kSubset(5, cards) : five \in SUBSET AllCards /\ Cardinality(five) = 5
    BY DEF kSubset
  <2> QED
    BY <2>1, FiveCards
<1>2. K \in keys
  BY <1>1
<1>3. \A l \in keys : l \in Seq(Int) /\ Len(l) = Len(K) /\ AtLeast(K, l)
  BY <1>1
<1> HIDE DEF keys
<1>4. \A l \in keys : Difference(K, l) >= 0
  BY <1>3, AtLeastDiffers
<1>5. ASSUME NEW l \in keys, \A k \in keys : Difference(l, k) >= 0 PROVE l = K
  <2>1. Difference(K, l) >= 0 /\ Difference(l, K) >= 0
    BY <1>2, <1>4, <1>5
  <2>2. l \in Seq(Int) /\ Len(K) = Len(l)
    BY <1>3
  <2> QED
    BY <2>1, <2>2, DifferenceOrders
<1>6. (CHOOSE l \in keys : \A k \in keys : Difference(l, k) >= 0) = K
  BY <1>2, <1>4, <1>5
<1>7. BestKey(cards, c) = CHOOSE l \in keys : \A k \in keys : Difference(l, k) >= 0
  BY DEF BestKey, keys
<1> QED
  BY <1>6, <1>7

\* Of keys of one number, the highest number
LEMMA BestOfOne ==
  ASSUME NEW cards \in SUBSET AllCards, NEW c, NEW top \in Int,
         NEW good \in kSubset(5, cards), Category(good) = c, Key(good, c) = <<top>>,
         \A five \in kSubset(5, cards) : Category(five) = c =>
            \E t \in Int : Key(five, c) = <<t>> /\ t <= top
  PROVE  BestKey(cards, c) = <<top>>
<1>1. <<top>> \in Seq(Int) /\ Len(<<top>>) = 1 /\ <<top>>[1] = top
  OBVIOUS
<1>2. ASSUME NEW t \in Int, t <= top
      PROVE  <<t>> \in Seq(Int) /\ Len(<<t>>) = Len(<<top>>) /\ AtLeast(<<top>>, <<t>>)
  <2>1. <<t>> \in Seq(Int) /\ Len(<<t>>) = 1 /\ <<t>>[1] = t
    OBVIOUS
  <2>2. (\A i \in 1..1 : i = 1) /\ top >= t
    BY <1>2
  <2>3. \A i \in 1..Len(<<top>>) : <<top>>[i] >= <<t>>[i]
    BY <1>1, <2>1, <2>2
  <2> QED
    BY <1>1, <2>1, <2>3 DEF AtLeast
<1> DEFINE K == <<top>>
<1>3. K \in Seq(Int) /\ Len(K) <= 5
  BY <1>1
<1>4. \A five \in kSubset(5, cards) : Category(five) = c =>
        /\ Key(five, c) \in Seq(Int) /\ Len(Key(five, c)) = Len(K)
        /\ AtLeast(K, Key(five, c))
  BY <1>2
<1>5. Key(good, c) = K
  OBVIOUS
<1> HIDE DEF K
<1>6. BestKey(cards, c) = K
  BY <1>3, <1>4, <1>5, BestOf
<1> QED
  BY <1>6 DEF K

-----------------------------------------------------------------------------
(* The best key is what decides by the rules                               *)

LEMMA CombinationsOf ==
  ASSUME NEW cards \in SUBSET AllCards, NEW five \in kSubset(5, cards)
  PROVE  five \in SUBSET cards /\ five \in SUBSET AllCards /\ Cardinality(five) = 5
BY DEF kSubset

LEMMA RanksGrow ==
  ASSUME NEW B \in SUBSET AllCards, NEW A \in SUBSET B
  PROVE  RanksOf(A) \subseteq RanksOf(B) /\ FlushRanks(A) \subseteq FlushRanks(B)
<1>1. RanksOf(A) \subseteq RanksOf(B) /\ SuitsOf(A) \subseteq SuitsOf(B)
  BY DEF RanksOf, SuitsOf
<1>2. ASSUME NEW s \in FlushSuits(A)
      PROVE  s \in FlushSuits(B) /\ RanksOf(OfSuit(A, s)) \subseteq RanksOf(OfSuit(B, s))
  <2>1. s \in SuitsOf(B) /\ Cardinality(OfSuit(A, s)) >= 5
    BY <1>1, <1>2 DEF FlushSuits
  <2>2. /\ OfSuit(A, s) \subseteq OfSuit(B, s)
        /\ Cardinality(OfSuit(A, s)) \in Nat /\ Cardinality(OfSuit(B, s)) \in Nat
        /\ Cardinality(OfSuit(A, s)) <= Cardinality(OfSuit(B, s))
    BY CountGrows
  <2>3. Cardinality(OfSuit(B, s)) >= 5
    BY <2>1, <2>2
  <2> QED
    BY <2>1, <2>2, <2>3 DEF FlushSuits, RanksOf
<1> QED
  BY <1>1, <1>2 DEF FlushRanks

\* What the category says of runs and suits
LEMMA RunsOfCategory ==
  ASSUME NEW cards \in SUBSET AllCards
  PROVE  LET c == Category(cards)
         IN /\ c = 4 => Runs(RanksOf(cards)) # {}
            /\ c \in {8, 9} => Runs(FlushRanks(cards)) # {}
            /\ c = 9 <=> 12 \in Runs(FlushRanks(cards))
            /\ c = 5 => FlushSuits(cards) # {}
<1>1. Made(Category(cards), cards) /\ (Made(9, cards) => Category(cards) >= 9) /\ Category(cards) \in 0..9
  BY CategoryIsTheBestMade
<1>2. /\ Made(9, cards) <=> 12 \in Runs(FlushRanks(cards))
      /\ Made(8, cards) <=> Runs(FlushRanks(cards)) # {}
      /\ Made(5, cards) <=> FlushSuits(cards) # {}
      /\ Made(4, cards) <=> Runs(RanksOf(cards)) # {}
  BY DEF Made, ROYAL_FLUSH, STRAIGHT_FLUSH, FOUR_OF_A_KIND, FULL_HOUSE, FLUSH, STRAIGHT,
         THREE_OF_A_KIND, TWO_PAIR, ONE_PAIR, Ace
<1> QED
  BY <1>1, <1>2

LEMMA BestByGroups ==
  ASSUME NEW cards \in SUBSET AllCards, CanEvaluate(cards),
         NEW n, NEW m, NEW w, NEW k, Shape(Category(cards), n, m, w, k)
  PROVE  LET best == BestKey(cards, Category(cards))
         IN best = Strength(cards) /\ best \in Seq(Int) /\ Len(best) = m + k
<1> DEFINE c == Category(cards)
           K == ByGroups(cards, n, m, w, k)
           tops(A) == Tops(A, n, m)
           rest(A) == Others(A, n, m, w, k)
<1>1. /\ n \in Nat /\ w \in Nat /\ m \in 0..5 /\ k \in 0..5 /\ m + k \in 0..5
  <2>1. m + k \in 0..5
    BY DEF Shape
  <2> QED
    BY <2>1, ShapeTypes
<1>2. ASSUME NEW A \in SUBSET AllCards
      PROVE  /\ ByGroups(A, n, m, w, k) = tops(A) \o rest(A)
             /\ tops(A) \in Seq(Int) /\ rest(A) \in Seq(Int)
  <2>1. Often(A, n) \in SUBSET (0..12) /\ Often(A, w) \ ToSet(Tops(A, n, m)) \in SUBSET (0..12)
    <3>1. Often(A, n) \in SUBSET (0..12) /\ Often(A, w) \in SUBSET (0..12)
      BY RanksOften
    <3> QED
      BY <3>1
  <2>2. tops(A) \in Seq(Int) /\ rest(A) \in Seq(Int)
    BY <1>1, <2>1, HighestSeq DEF Tops, Others
  <2> QED
    BY <2>2 DEF ByGroups
<1>3. ASSUME NEW five \in kSubset(5, cards), Category(five) = c
      PROVE  /\ Key(five, c) = ByGroups(five, n, m, w, k)
             /\ Len(tops(five)) = m /\ Len(rest(five)) = k
  <2>1. five \in SUBSET AllCards /\ Cardinality(five) = 5
    BY CombinationsOf
  <2>2. Shape(Category(five), n, m, w, k)
    BY <1>3
  <2> QED
    BY <1>3, <2>1, <2>2, KeyByGroups
<1>4. PICK good \in kSubset(5, cards) :
        Category(good) = c /\ tops(good) = tops(cards) /\ rest(good) = rest(cards)
  BY GroupsAttained
<1>5. Len(tops(cards)) = m /\ Len(rest(cards)) = k
  BY <1>3, <1>4
<1>6. ASSUME NEW five \in kSubset(5, cards), Category(five) = c
      PROVE  AtLeast(K, ByGroups(five, n, m, w, k))
  <2>1. five \in SUBSET cards
    BY CombinationsOf
  <2>2. Len(tops(cards)) = Len(tops(five)) /\ Len(rest(cards)) = Len(rest(five))
    BY <1>3, <1>5, <1>6
  <2> QED
    BY <1>1, <2>1, <2>2, GroupsGrow
<1>7. ASSUME NEW A \in SUBSET AllCards, Len(tops(A)) = m, Len(rest(A)) = k
      PROVE  ByGroups(A, n, m, w, k) \in Seq(Int) /\ Len(ByGroups(A, n, m, w, k)) = m + k
  <2>1. ByGroups(A, n, m, w, k) = tops(A) \o rest(A) /\ tops(A) \in Seq(Int) /\ rest(A) \in Seq(Int)
    BY <1>2
  <2> HIDE DEF tops, rest
  <2> QED
    BY <1>7, <2>1, ConcatProperties
<1>8. K \in Seq(Int) /\ Len(K) = m + k /\ Len(K) <= 5
  BY <1>1, <1>5, <1>7
<1>9. Key(good, c) = K
  <2>1. good \in SUBSET AllCards
    BY CombinationsOf
  <2>2. Key(good, c) = tops(good) \o rest(good)
    BY <1>2, <1>3, <1>4, <2>1
  <2>3. K = tops(cards) \o rest(cards)
    BY <1>2
  <2> HIDE DEF tops, rest, K
  <2> QED
    BY <1>4, <2>2, <2>3
<1>10. ASSUME NEW five \in kSubset(5, cards), Category(five) = c
       PROVE  /\ Key(five, c) \in Seq(Int) /\ Len(Key(five, c)) = Len(K)
              /\ AtLeast(K, Key(five, c))
  <2>1. five \in SUBSET AllCards
    BY CombinationsOf
  <2>2. /\ ByGroups(five, n, m, w, k) \in Seq(Int)
        /\ Len(ByGroups(five, n, m, w, k)) = m + k
    BY <1>3, <1>7, <1>10, <2>1
  <2>3. Key(five, c) = ByGroups(five, n, m, w, k) /\ AtLeast(K, ByGroups(five, n, m, w, k))
    BY <1>3, <1>6, <1>10
  <2> HIDE DEF K, c
  <2> QED
    BY <1>8, <2>2, <2>3
<1>11. Category(good) = c
  BY <1>4
<1>12. Strength(cards) = K
  BY StrengthByGroups
<1> HIDE DEF K, c, tops, rest
<1>13. BestKey(cards, c) = K
  BY <1>8, <1>9, <1>10, <1>11, BestOf
<1> QED
  BY <1>8, <1>12, <1>13 DEF c

\* A straight, of one suit or not, is told by its top.
LEMMA BestOfStraights ==
  ASSUME NEW cards \in SUBSET AllCards, CanEvaluate(cards), Category(cards) \in {4, 8, 9}
  PROVE  \E top \in Int :
           BestKey(cards, Category(cards)) = <<top>> /\ Strength(cards) = <<top>>
<1> DEFINE c == Category(cards)
           ranks(A) == IF c = 4 THEN RanksOf(A) ELSE FlushRanks(A)
           top == Max(Runs(ranks(cards)))
<1>1. Strength(cards) = <<top>>
  BY DEF Strength, ROYAL_FLUSH, STRAIGHT_FLUSH, FOUR_OF_A_KIND, FULL_HOUSE, FLUSH, STRAIGHT,
         THREE_OF_A_KIND, TWO_PAIR, ONE_PAIR
<1>2. top \in Runs(ranks(cards)) /\ (\A h \in Runs(ranks(cards)) : top >= h) /\ top \in Int
  <2>1. Runs(ranks(cards)) # {}
    BY RunsOfCategory
  <2>2. Runs(ranks(cards)) \in SUBSET (0..12)
    BY RunsAreRanks
  <2>3. top \in Runs(ranks(cards)) /\ (\A h \in Runs(ranks(cards)) : top >= h)
    <3> HIDE DEF ranks
    <3> QED
      BY <2>1, <2>2, MaxAndMin
  <2>4. top \in 0..12
    BY <2>2, <2>3
  <2> QED
    BY <2>3, <2>4
<1>3. c = 9 => top = 12
  <2>1. c = 9 => 12 \in Runs(ranks(cards))
    BY RunsOfCategory
  <2>2. top \in 0..12
    BY <1>2, RunsAreRanks
  <2>3. c = 9 => top >= 12
    BY <1>2, <2>1
  <2> HIDE DEF top, c
  <2> QED
    BY <2>2, <2>3
<1>4. ASSUME NEW five \in kSubset(5, cards), Category(five) = c
      PROVE  /\ ranks(five) = RanksOf(five) /\ ranks(five) \subseteq ranks(cards)
             /\ \E h \in Runs(RanksOf(five)) :
                  h \in 3..12 /\ Runs(RanksOf(five)) = {h} /\ Key(five, c) = <<h>>
  <2>1. five \in SUBSET cards /\ five \in SUBSET AllCards /\ Cardinality(five) = 5
    BY CombinationsOf
  <2>2. c \in {8, 9} => FlushRanks(five) = RanksOf(five)
    <3>1. c \in {8, 9} => Runs(FlushRanks(five)) # {}
      BY <1>4, <2>1, RunsOfCategory
    <3> QED
      BY <2>1, <3>1, FlushIsSuit
  <2>3. ranks(five) = RanksOf(five)
    BY <2>2
  <2>4. RanksOf(five) \subseteq RanksOf(cards) /\ FlushRanks(five) \subseteq FlushRanks(cards)
    BY <2>1, RanksGrow
  <2>5. Runs(RanksOf(five)) # {} /\ (c = 9 => 12 \in Runs(RanksOf(five)))
    <3>1. Runs(ranks(five)) # {} /\ (c = 9 => 12 \in Runs(ranks(five)))
      BY <1>4, <2>1, RunsOfCategory
    <3> QED
      BY <2>3, <3>1, Zenon
  <2>6. PICK h \in Runs(RanksOf(five)) : TRUE
    BY <2>5
  <2>7. /\ Runs(RanksOf(five)) = {h} /\ h \in 3..12
        /\ Top(five, 4) = h /\ Top(five, 8) = h /\ (h = 12 => Top(five, 9) = 12)
    BY <2>1, TopOfRun
  <2>8. c = 9 => h = 12
    BY <2>5, <2>7
  <2>9. Key(five, c) = <<Top(five, c)>>
    BY DEF Key, STRAIGHT, FLUSH, STRAIGHT_FLUSH, ROYAL_FLUSH
  <2>10. Top(five, c) = h
    BY <2>7, <2>8
  <2> QED
    BY <2>3, <2>4, <2>7, <2>9, <2>10
<1>5. \A five \in kSubset(5, cards) : Category(five) = c =>
        \E t \in Int : Key(five, c) = <<t>> /\ t <= top
  <2> SUFFICES ASSUME NEW five \in kSubset(5, cards), Category(five) = c
               PROVE  \E t \in Int : Key(five, c) = <<t>> /\ t <= top
    OBVIOUS
  <2>1. PICK h \in Runs(RanksOf(five)) : h \in 3..12 /\ Key(five, c) = <<h>>
    BY <1>4
  <2>2. h \in Runs(ranks(cards))
    <3>1. RanksOf(five) \subseteq ranks(cards)
      BY <1>4
    <3> HIDE DEF ranks
    <3> QED
      BY <3>1, RunsGrow
  <2>3. top >= h
    BY <1>2, <2>2
  <2> HIDE DEF top
  <2>4. h \in Int /\ h <= top
    BY <1>2, <2>1, <2>3
  <2> QED
    BY <2>1, <2>4
<1>6. PICK good \in kSubset(5, cards) : Category(good) = c /\ top \in Runs(RanksOf(good))
  <2>1. PICK X \in SUBSET cards :
          IsFiniteSet(X) /\ Cardinality(X) <= 5 /\ top \in Runs(ranks(X))
    <3>1. CASE c = 4
      <4>1. top \in Runs(RanksOf(cards))
        BY <1>2, <3>1
      <4>2. PICK X \in SUBSET cards :
              IsFiniteSet(X) /\ Cardinality(X) <= 5 /\ top \in Runs(RanksOf(X))
        <5> HIDE DEF top
        <5> QED
          BY <4>1, SmallStraight
      <4> QED
        BY <3>1, <4>2
    <3>2. CASE c \in {8, 9}
      <4>1. top \in Runs(FlushRanks(cards)) /\ Cardinality(cards) <= 7
        BY <1>2, <3>2 DEF CanEvaluate
      <4>2. PICK X \in SUBSET cards :
              IsFiniteSet(X) /\ Cardinality(X) = 5 /\ top \in Runs(FlushRanks(X))
        <5> HIDE DEF top
        <5> QED
          BY <4>1, SmallStraightFlush
      <4> QED
        BY <3>2, <4>2
    <3> QED
      BY <3>1, <3>2
  <2>2. PICK five \in SUBSET cards : X \subseteq five /\ Cardinality(five) = 5
    <3>1. IsFiniteSet(cards) /\ 5 <= Cardinality(cards) /\ 5 \in 0..5
      BY CardsFinite DEF CanEvaluate
    <3> QED
      BY <2>1, <3>1, Grows
  <2>3. top \in Runs(ranks(five))
    <3>1. RanksOf(X) \subseteq RanksOf(five) /\ FlushRanks(X) \subseteq FlushRanks(five)
      BY <2>2, RanksGrow
    <3>2. ranks(X) \subseteq ranks(five)
      BY <3>1
    <3> HIDE DEF ranks, top
    <3> QED
      BY <2>1, <3>2, RunsGrow
  <2>4. Made(c, five)
    <3>1. c = 9 => 12 \in Runs(FlushRanks(five))
      BY <1>3, <2>3
    <3>2. c = 8 => Runs(FlushRanks(five)) # {}
      BY <2>3
    <3>3. c = 4 => Runs(RanksOf(five)) # {}
      BY <2>3
    <3> HIDE DEF top, ranks
    <3> QED
      BY <3>1, <3>2, <3>3 DEF Made, ROYAL_FLUSH, STRAIGHT_FLUSH, FOUR_OF_A_KIND, FULL_HOUSE,
         FLUSH, STRAIGHT, THREE_OF_A_KIND, TWO_PAIR, ONE_PAIR, Ace
  <2>5. five \in kSubset(5, cards) /\ Category(five) = c
    BY <2>2, <2>4, FiveOfCategory
  <2>6. top \in Runs(RanksOf(five))
    <3>1. ranks(five) = RanksOf(five)
      BY <1>4, <2>5
    <3> QED
      BY <2>3, <3>1, Zenon
  <2> QED
    BY <2>5, <2>6
<1>7. Key(good, c) = <<top>>
  <2>1. PICK h \in Runs(RanksOf(good)) : Runs(RanksOf(good)) = {h} /\ Key(good, c) = <<h>>
    BY <1>4, <1>6
  <2>2. h = top
    BY <1>6, <2>1
  <2> QED
    BY <2>1, <2>2
<1>8. Category(good) = c
  BY <1>6
<1> HIDE DEF top, c
<1>9. BestKey(cards, c) = <<top>>
  BY <1>2, <1>5, <1>7, <1>8, BestOfOne
<1> QED
  BY <1>1, <1>2, <1>9 DEF c

\* Of a flush getComparisonKey tells the highest card alone.
LEMMA BestOfFlush ==
  ASSUME NEW cards \in SUBSET AllCards, CanEvaluate(cards), Category(cards) = 5
  PROVE  /\ BestKey(cards, 5) = <<Max(FlushRanks(cards))>>
         /\ Max(FlushRanks(cards)) \in Int
         /\ Strength(cards) \in Seq(Int) /\ Len(Strength(cards)) >= 1
         /\ Strength(cards)[1] = Max(FlushRanks(cards))
<1> DEFINE F == FlushRanks(cards)
           top == Max(F)
<1>1. PICK s \in FlushSuits(cards) : TRUE
  BY RunsOfCategory
<1>2. F = RanksOf(OfSuit(cards, s))
  BY <1>1, OneFlush DEF CanEvaluate
<1>3. OfSuit(cards, s) \in SUBSET AllCards /\ Cardinality(OfSuit(cards, s)) >= 5
  BY <1>1 DEF OfSuit, FlushSuits
<1>4. F \in SUBSET (0..12) /\ F # {}
  <2>1. OfSuit(cards, s) # {}
    BY <1>3, FS_EmptySet
  <2>2. F \in SUBSET (0..12)
    BY <1>2, <1>3, RanksFinite DEF Ranks
  <2> QED
    BY <1>2, <2>1, <2>2 DEF RanksOf
<1>5. top \in F /\ (\A r \in F : top >= r) /\ top \in Int
  <2> HIDE DEF F
  <2>1. top \in F /\ (\A r \in F : top >= r)
    BY <1>4, MaxAndMin
  <2>2. F \subseteq Int
    BY <1>4
  <2> QED
    BY <2>1, <2>2
<1>6. /\ Strength(cards) \in Seq(Int) /\ Len(Strength(cards)) >= 1
      /\ Strength(cards)[1] = top
  <2>1. Strength(cards) = Highest(F, 5)
    BY DEF Strength, ROYAL_FLUSH, STRAIGHT_FLUSH, FOUR_OF_A_KIND, FULL_HOUSE, FLUSH, STRAIGHT,
         THREE_OF_A_KIND, TWO_PAIR, ONE_PAIR
  <2>2. 5 \in 0..5 /\ 4 \in Nat /\ 4 + 1 = 5
    OBVIOUS
  <2> DEFINE rest == F \ {Max(F)}
  <2> HIDE DEF F
  <2>3. How(rest, 4) \in Nat /\ How(F, 4 + 1) = How(rest, 4) + 1 /\ Highest(F, 4 + 1)[1] = Max(F)
    BY <1>4, <2>2, HighestStep
  <2>4. Highest(F, 5) \in Seq(Int) /\ Len(Highest(F, 5)) = How(F, 5)
    BY <1>4, <2>2, HighestSeq
  <2> HIDE DEF rest
  <2>5. Len(Highest(F, 5)) >= 1 /\ Highest(F, 5)[1] = Max(F)
    BY <2>2, <2>3, <2>4
  <2> QED
    BY <2>1, <2>4, <2>5
<1>7. ASSUME NEW five \in kSubset(5, cards), Category(five) = 5
      PROVE  /\ RanksOf(five) \in SUBSET F /\ RanksOf(five) # {}
             /\ Key(five, 5) = <<Max(RanksOf(five))>>
  <2>1. five \in SUBSET cards /\ five \in SUBSET AllCards /\ Cardinality(five) = 5
    BY CombinationsOf
  <2>2. FlushSuits(five) # {}
    BY <1>7, <2>1, RunsOfCategory
  <2>3. FlushRanks(five) = RanksOf(five)
    BY <2>1, <2>2, FlushIsSuit
  <2>4. FlushRanks(five) \subseteq F
    BY <2>1, RanksGrow
  <2>5. RanksOf(five) # {}
    BY <2>1, FS_EmptySet DEF RanksOf
  <2>6. Key(five, 5) = <<Max(RanksOf(five))>>
    BY DEF Key, Top, STRAIGHT, FLUSH, STRAIGHT_FLUSH, ROYAL_FLUSH
  <2> QED
    BY <2>3, <2>4, <2>5, <2>6
<1>8. \A five \in kSubset(5, cards) : Category(five) = 5 =>
        \E t \in Int : Key(five, 5) = <<t>> /\ t <= top
  <2> SUFFICES ASSUME NEW five \in kSubset(5, cards), Category(five) = 5
               PROVE  \E t \in Int : Key(five, 5) = <<t>> /\ t <= top
    OBVIOUS
  <2> DEFINE t == Max(RanksOf(five))
  <2>1. RanksOf(five) \in SUBSET F /\ RanksOf(five) # {} /\ Key(five, 5) = <<t>>
    BY <1>7
  <2>2. t \in RanksOf(five)
    BY <1>4, <2>1, MaxAndMin
  <2>3. t \in F
    BY <2>1, <2>2
  <2> HIDE DEF t, F, top
  <2>4. t \in Int /\ t <= top
    BY <1>4, <1>5, <2>3
  <2> QED
    BY <2>1, <2>4
<1>9. PICK good \in kSubset(5, cards) : Category(good) = 5 /\ top \in RanksOf(good)
  <2>1. PICK d \in OfSuit(cards, s) : d[1] = top
    BY <1>2, <1>5 DEF RanksOf
  <2>2. IsFiniteSet(OfSuit(cards, s)) /\ 5 <= Cardinality(OfSuit(cards, s)) /\ 5 \in 0..5
    BY <1>3, CardsFinite, FS_CardinalityType
  <2>3. {d} \in SUBSET OfSuit(cards, s) /\ Cardinality({d}) <= 5
    BY FS_Singleton
  <2>4. PICK five \in SUBSET OfSuit(cards, s) : {d} \subseteq five /\ Cardinality(five) = 5
    BY <2>2, <2>3, Grows
  <2>5. five \in SUBSET cards /\ OfSuit(five, s) = five /\ s \in SuitsOf(five)
    BY <2>4 DEF OfSuit, SuitsOf
  <2>6. s \in FlushSuits(five)
    BY <2>4, <2>5 DEF FlushSuits
  <2>7. Made(5, five)
    BY <2>6 DEF Made, ROYAL_FLUSH, STRAIGHT_FLUSH, FOUR_OF_A_KIND, FULL_HOUSE,
         FLUSH, STRAIGHT, THREE_OF_A_KIND, TWO_PAIR, ONE_PAIR
  <2>8. five \in kSubset(5, cards) /\ Category(five) = 5
    BY <2>4, <2>5, <2>7, FiveOfCategory
  <2>9. top \in RanksOf(five)
    BY <2>1, <2>4 DEF RanksOf
  <2> QED
    BY <2>8, <2>9
<1>10. Key(good, 5) = <<top>>
  <2> DEFINE t == Max(RanksOf(good))
  <2>1. RanksOf(good) \in SUBSET F /\ RanksOf(good) # {} /\ Key(good, 5) = <<t>>
    BY <1>7, <1>9
  <2>2. t \in RanksOf(good) /\ \A r \in RanksOf(good) : t >= r
    BY <1>4, <2>1, MaxAndMin
  <2>3. t \in F /\ t >= top /\ top >= t
    BY <1>5, <1>9, <2>1, <2>2
  <2> HIDE DEF t, F, top
  <2>4. t \in Int
    BY <1>4, <2>3
  <2>5. t = top
    BY <1>5, <2>3, <2>4
  <2> QED
    BY <2>1, <2>5
<1>11. Category(good) = 5
  BY <1>9
<1> HIDE DEF top, F
<1>12. BestKey(cards, 5) = <<top>>
  BY <1>5, <1>8, <1>10, <1>11, BestOfOne
<1> QED
  BY <1>5, <1>6, <1>12 DEF top, F

\* The key of best_combo is what decides by the rules, unless it is of a flush.
LEMMA BestIsStrength ==
  ASSUME NEW cards \in SUBSET AllCards, CanEvaluate(cards), Category(cards) # 5
  PROVE  /\ BestKey(cards, Category(cards)) = Strength(cards)
         /\ Strength(cards) \in Seq(Int) /\ Len(Strength(cards)) <= 5
         /\ \A other \in SUBSET AllCards :
              CanEvaluate(other) /\ Category(other) = Category(cards)
                => Len(Strength(other)) = Len(Strength(cards))
<1> DEFINE c == Category(cards)
<1>1. Category(cards) \in 0..9
  BY CategoryIsTheBestMade
<1>2. CASE Category(cards) \in {4, 8, 9}
  <2>1. ASSUME NEW A \in SUBSET AllCards, CanEvaluate(A), Category(A) = Category(cards)
        PROVE  \E t \in Int : BestKey(A, Category(A)) = <<t>> /\ Strength(A) = <<t>>
    BY <1>2, <2>1, BestOfStraights
  <2>2. \A t \in Int : <<t>> \in Seq(Int) /\ Len(<<t>>) = 1
    OBVIOUS
  <2>3. ASSUME NEW A \in SUBSET AllCards, CanEvaluate(A), Category(A) = Category(cards)
        PROVE  /\ BestKey(A, Category(A)) = Strength(A)
               /\ Strength(A) \in Seq(Int) /\ Len(Strength(A)) = 1
    <3>1. PICK t \in Int : BestKey(A, Category(A)) = <<t>> /\ Strength(A) = <<t>>
      BY <2>1, <2>3
    <3> QED
      BY <2>2, <3>1, Zenon
  <2>4. 1 <= 5
    OBVIOUS
  <2> QED
    BY <2>3, <2>4
<1>3. CASE Category(cards) \in {0, 1, 2, 3, 6, 7}
  <2>1. PICK n, m, w, k : Shape(c, n, m, w, k)
    BY <1>3 DEF Shape
  <2>2. ASSUME NEW A \in SUBSET AllCards, CanEvaluate(A), Category(A) = c
        PROVE  /\ BestKey(A, Category(A)) = Strength(A)
               /\ Strength(A) \in Seq(Int) /\ Len(Strength(A)) = m + k
    <3>1. Shape(Category(A), n, m, w, k)
      BY <2>1, <2>2
    <3> QED
      BY <2>2, <3>1, BestByGroups
  <2>3. m + k <= 5
    BY <2>1 DEF Shape
  <2> QED
    BY <2>2, <2>3
<1> QED
  BY <1>1, <1>2, <1>3

\* Where the first numbers differ they decide.
LEMMA FirstDecides ==
  ASSUME NEW k \in Seq(Int), NEW l \in Seq(Int), Len(k) >= 1, Len(l) >= 1, k[1] # l[1]
  PROVE  Difference(k, l) = k[1] - l[1]
<1>1. Len(k) \in Nat /\ Len(l) \in Nat /\ DOMAIN k = 1..Len(k) /\ DOMAIN l = 1..Len(l)
  BY LenProperties
<1>2. 1 \in Apart(k, l) /\ \A i \in Apart(k, l) : i \in Nat /\ 1 <= i
  BY <1>1 DEF Apart
<1>3. Min(Apart(k, l)) = 1
  <2>1. /\ Min(Apart(k, l)) \in Apart(k, l)
        /\ \A i \in Apart(k, l) : Min(Apart(k, l)) <= i
    BY <1>2 DEF Min
  <2> QED
    BY <1>2, <2>1
<1>4. Difference(k, l) = IF Apart(k, l) = {} THEN 0 ELSE k[Min(Apart(k, l))] - l[Min(Apart(k, l))]
  BY DEF Difference, Apart
<1> QED
  BY <1>2, <1>3, <1>4

\* HandRanking::compare, for every two hands of five to seven cards: it decides
\* as the rules do, and by as much, unless both are flushes; of flushes it only
\* tells what the highest card tells, and never the opposite of the rules.
THEOREM CompareIsRuleOrder ==
  ASSUME NEW cards1 \in SUBSET AllCards, CanEvaluate(cards1),
         NEW cards2 \in SUBSET AllCards, CanEvaluate(cards2)
  PROVE  LET verdict == Compare(cards1, cards2)
             rules == RuleOrder(cards1, cards2)
             flushes == Category(cards1) = FLUSH /\ Category(cards2) = FLUSH
         IN /\ verdict \in Int
            /\ ~flushes => verdict = rules
            /\ flushes => \/ verdict = rules
                          \/ verdict = 0 /\ Max(FlushRanks(cards1)) = Max(FlushRanks(cards2))
<1> DEFINE c == Category(cards1)
           d == Category(cards2)
           S == Strength(cards1)
           T == Strength(cards2)
<1>1. Evaluate(cards1) = c /\ Evaluate(cards2) = d
  BY EvaluateIsCategory
<1>2. c \in 0..9 /\ d \in 0..9
  BY CategoryIsTheBestMade
<1>3. Compare(cards1, cards2) =
        IF c # d THEN c - d ELSE Difference(BestKey(cards1, c), BestKey(cards2, c))
  BY <1>1 DEF Compare
<1>4. RuleOrder(cards1, cards2) = IF c # d THEN c - d ELSE Difference(S, T)
  BY DEF RuleOrder
<1>5. CASE c # d
  BY <1>2, <1>3, <1>4, <1>5 DEF FLUSH
<1>6. CASE c = d /\ c # 5
  <2>1. BestKey(cards1, c) = S /\ S \in Seq(Int) /\ Len(S) <= 5 /\ Len(T) = Len(S)
    BY <1>6, BestIsStrength
  <2>2. BestKey(cards2, d) = T /\ T \in Seq(Int)
    BY <1>6, BestIsStrength
  <2> HIDE DEF S, T, c, d
  <2>3. Difference(S, T) \in Int
    BY <2>1, <2>2, DifferenceOrders
  <2>4. Compare(cards1, cards2) = RuleOrder(cards1, cards2) /\ Compare(cards1, cards2) \in Int
    BY <1>3, <1>4, <1>6, <2>1, <2>2, <2>3
  <2> QED
    BY <1>6, <2>4 DEF c, d, FLUSH
<1>7. CASE c = 5 /\ d = 5
  <2> DEFINE x == Max(FlushRanks(cards1))
             y == Max(FlushRanks(cards2))
  <2>1. /\ BestKey(cards1, 5) = <<x>> /\ x \in Int
        /\ S \in Seq(Int) /\ Len(S) >= 1 /\ S[1] = x
    BY <1>7, BestOfFlush
  <2>2. /\ BestKey(cards2, 5) = <<y>> /\ y \in Int
        /\ T \in Seq(Int) /\ Len(T) >= 1 /\ T[1] = y
    BY <1>7, BestOfFlush
  <2> HIDE DEF S, T, c, d, x, y
  <2>3. /\ <<x>> \in Seq(Int) /\ Len(<<x>>) = 1 /\ <<x>>[1] = x /\ DOMAIN <<x>> = 1..1
        /\ <<y>> \in Seq(Int) /\ Len(<<y>>) = 1 /\ <<y>>[1] = y /\ DOMAIN <<y>> = 1..1
    BY <2>1, <2>2
  <2>4. Compare(cards1, cards2) = Difference(<<x>>, <<y>>)
    BY <1>3, <1>7, <2>1, <2>2
  <2>5. RuleOrder(cards1, cards2) = Difference(S, T)
    BY <1>4, <1>7
  <2>6. /\ x # y => Difference(<<x>>, <<y>>) = x - y
        /\ x = y => Difference(<<x>>, <<y>>) = 0
    <3>1. \A k : Difference(k, k) = 0
      BY DEF Difference
    <3>2. x # y => Difference(<<x>>, <<y>>) = x - y
      <4> DEFINE k == <<x>>
                 l == <<y>>
      <4>1. /\ k \in Seq(Int) /\ Len(k) >= 1 /\ k[1] = x
            /\ l \in Seq(Int) /\ Len(l) >= 1 /\ l[1] = y
        BY <2>3
      <4> HIDE DEF k, l
      <4>2. x # y => Difference(k, l) = x - y
        BY <4>1, FirstDecides
      <4> QED
        BY <4>2 DEF k, l
    <3> QED
      BY <3>1, <3>2, Zenon
  <2>7. x # y => Difference(S, T) = x - y
    BY <2>1, <2>2, FirstDecides
  <2>8. x - y \in Int
    BY <2>1, <2>2
  <2>9. /\ Compare(cards1, cards2) \in Int
        /\ x # y => Compare(cards1, cards2) = RuleOrder(cards1, cards2)
        /\ x = y => Compare(cards1, cards2) = 0
    BY <2>4, <2>5, <2>6, <2>7, <2>8
  <2>10. Category(cards1) = FLUSH /\ Category(cards2) = FLUSH
    BY <1>7 DEF c, d, FLUSH
  <2> QED
    BY <2>9, <2>10, Zenon DEF x, y
<1> QED
  BY <1>5, <1>6, <1>7

=============================================================================
