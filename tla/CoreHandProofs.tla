---------------------------- MODULE CoreHandProofs ----------------------------
(***************************************************************************)
(* Theorems about CoreHand.  What the players hold and what lies on the    *)
(* table are the first cards of the hand's deck, in the order they were    *)
(* dealt; a deck of distinct cards then cannot deal one twice.             *)
(***************************************************************************)
EXTENDS CoreHand, HandRankingProofs

-----------------------------------------------------------------------------
(* Dealing from a deck                                                     *)

\* As many cards as were dealt: Deck::deal never repeats a card.
LEMMA CardsCounted ==
  ASSUME NEW d \in Decks, NEW k \in Nat, NEW n \in Nat, k + n <= 9
  PROVE  IsFiniteSet(Cards(d, k, n)) /\ Cardinality(Cards(d, k, n)) = n
<1>1. d \in Seq(Ranks \X Suits) /\ Len(d) >= 9 /\ IsInjective(d)
  BY CoreAssumption DEF CoreAssumption
<1>2. (k + 1)..(k + n) \subseteq DOMAIN d
  BY <1>1
<1>3. \A i, j \in (k + 1)..(k + n) : d[i] = d[j] => i = j
  BY <1>1, <1>2 DEF IsInjective
<1>4. IsFiniteSet((k + 1)..(k + n)) /\ Cardinality((k + 1)..(k + n)) = n
  BY FS_Interval
<1> DEFINE f == [i \in (k + 1)..(k + n) |-> d[i]]
<1>5. f \in Bijection((k + 1)..(k + n), Cards(d, k, n))
  BY <1>3 DEF Bijection, Injection, Surjection, IsInjective, Cards
<1>6. ExistsBijection((k + 1)..(k + n), Cards(d, k, n))
  BY <1>5 DEF ExistsBijection
<1> QED
  BY <1>4, <1>6, FS_Bijection

\* n more cards on a board of m
LEMMA BoardGrows ==
  ASSUME NEW d, NEW m \in Nat, NEW n \in Nat
  PROVE  Cards(d, 4, m) \cup Cards(d, 4 + m, n) = Cards(d, 4, m + n)
<1>1. (4 + 1)..(4 + m) \cup ((4 + m) + 1)..((4 + m) + n) = (4 + 1)..(4 + (m + n))
  OBVIOUS
<1> QED
  BY <1>1 DEF Cards

\* Both players' cards and a board of n cards after them
LEMMA WholeDeal ==
  ASSUME NEW d, NEW n \in Nat
  PROVE  Cards(d, 0, 2) \cup Cards(d, 2, 2) \cup Cards(d, 4, n) = Cards(d, 0, 4 + n)
<1>1. (0 + 1)..(0 + 2) \cup (2 + 1)..(2 + 2) \cup (4 + 1)..(4 + n) = (0 + 1)..(0 + (4 + n))
  OBVIOUS
<1> QED
  BY <1>1 DEF Cards

-----------------------------------------------------------------------------
(* The inductive invariant                                                 *)

\* The community cards a round has dealt
Board(r) == <<0, 3, 4, 5, 5>>[r + 1]

\* Hole cards and board are consecutive pieces of the deck.
DealtInOrder ==
  /\ players = <<>> \/ \E sb, bb \in Players : sb # bb /\ players = <<sb, bb>>
  /\ hole \in [Players -> SUBSET (Ranks \X Suits)]
  /\ round \in 0..SHOWDOWN
  /\ InPlay =>
       /\ deck \in Decks
       /\ hole[players[1]] = Cards(deck, 0, 2)
       /\ hole[players[2]] = Cards(deck, 2, 2)
       /\ community = Cards(deck, 4, Board(round))
       /\ next = 4 + Board(round)

LEMMA BoardIsDealt ==
  \A r \in 0..3 : Board(r) \in Nat /\ Dealt(r + 1) \in Nat /\ Board(r + 1) = Board(r) + Dealt(r + 1)
BY DEF Board, Dealt

LEMMA CardsAreCards ==
  ASSUME NEW d \in Decks, NEW k \in Nat, NEW n \in Nat, k + n <= 9
  PROVE  Cards(d, k, n) \in SUBSET (Ranks \X Suits)
<1>1. d \in Seq(Ranks \X Suits) /\ Len(d) >= 9
  BY CoreAssumption DEF CoreAssumption
<1>2. \A i \in (k + 1)..(k + n) : i \in 1..Len(d)
  BY <1>1
<1> QED
  BY <1>1, <1>2 DEF Cards

LEMMA DealtInitially == Init => DealtInOrder
BY DEF Init, DealtInOrder, InPlay, SHOWDOWN

LEMMA DealtByStart ==
  ASSUME DealtInOrder, NEW sb \in Players, NEW bb \in Players, StartHand(sb, bb)
  PROVE  DealtInOrder'
<1>1. PICK d \in Decks :
        /\ deck' = d
        /\ hole' = [hole EXCEPT ![sb] = Cards(d, 0, 2), ![bb] = Cards(d, 2, 2)]
  BY DEF StartHand
<1>2. sb # bb /\ players' = <<sb, bb>> /\ next' = 4 /\ community' = {} /\ round' = 0
  BY DEF StartHand, AfterHoleCards
<1>3. Cards(d, 0, 2) \in SUBSET (Ranks \X Suits) /\ Cards(d, 2, 2) \in SUBSET (Ranks \X Suits)
  BY CardsAreCards
<1>4. hole \in [Players -> SUBSET (Ranks \X Suits)]
  BY DEF DealtInOrder
<1>5. /\ hole' \in [Players -> SUBSET (Ranks \X Suits)]
      /\ hole'[sb] = Cards(d, 0, 2) /\ hole'[bb] = Cards(d, 2, 2)
  BY <1>1, <1>2, <1>3, <1>4
<1>6. Cards(d, 4, 0) = {} /\ Board(0) = 0
  BY DEF Cards, Board
<1> QED
  BY <1>1, <1>2, <1>5, <1>6 DEF DealtInOrder, SHOWDOWN

LEMMA DealtByRound ==
  ASSUME DealtInOrder, AdvanceBettingRound
  PROVE  DealtInOrder'
<1>1. /\ InPlay /\ InPlay' /\ round \in 0..3 /\ round' = round + 1
      /\ community' = community \cup Cards(deck, next, Dealt(round + 1))
      /\ next' = next + Dealt(round + 1)
      /\ UNCHANGED <<hole, deck, players>>
  BY DEF AdvanceBettingRound, DealtInOrder, InPlay, SHOWDOWN
<1>2. /\ community = Cards(deck, 4, Board(round)) /\ next = 4 + Board(round)
      /\ Board(round) \in Nat /\ Dealt(round + 1) \in Nat
      /\ Board(round + 1) = Board(round) + Dealt(round + 1)
  BY <1>1, BoardIsDealt DEF DealtInOrder
<1>3. community' = Cards(deck, 4, Board(round)) \cup Cards(deck, 4 + Board(round), Dealt(round + 1))
  BY <1>1, <1>2
<1>4. community' = Cards(deck, 4, Board(round) + Dealt(round + 1))
  <2>1. Cards(deck, 4, Board(round)) \cup Cards(deck, 4 + Board(round), Dealt(round + 1))
          = Cards(deck, 4, Board(round) + Dealt(round + 1))
    <3>1. Board(round) \in Nat /\ Dealt(round + 1) \in Nat
      BY <1>2
    <3> QED
      BY <3>1, BoardGrows, Zenon
  <2> QED
    BY <1>3, <2>1
<1>5. next' = 4 + Board(round')
  BY <1>1, <1>2
<1> QED
  BY <1>1, <1>2, <1>4, <1>5 DEF DealtInOrder, SHOWDOWN

LEMMA DealtByReset ==
  ASSUME DealtInOrder, ResetHand
  PROVE  DealtInOrder'
BY DEF DealtInOrder, ResetHand, InPlay, SHOWDOWN

\* Bets, pots and folds leave the cards alone.
LEMMA DealtByTheRest ==
  ASSUME DealtInOrder, UNCHANGED <<cards, players>>
  PROVE  DealtInOrder'
BY DEF DealtInOrder, InPlay, cards

LEMMA DealtInductive == DealtInOrder /\ [Next]_vars => DealtInOrder'
<1> SUFFICES ASSUME DealtInOrder, [Next]_vars PROVE DealtInOrder'
  OBVIOUS
<1>1. ASSUME NEW sb \in Players, NEW bb \in Players, StartHand(sb, bb) PROVE DealtInOrder'
  BY <1>1, DealtByStart
<1>2. CASE AdvanceBettingRound
  BY <1>2, DealtByRound
<1>3. CASE ResetHand
  BY <1>3, DealtByReset
<1>4. ASSUME NEW p \in Playing, Fold(p) \/ \E n \in Amounts : Call(p, n) \/ Raise(p, n)
      PROVE  DealtInOrder'
  <2>1. Applied
    BY <1>4 DEF Fold, Call, Raise
  <2> QED
    BY <2>1, DealtByTheRest DEF Applied
<1>5. CASE CalculateSidePots
  BY <1>5, DealtByTheRest DEF CalculateSidePots
<1>6. ASSUME NEW w \in WinnerLists, DistributePot(w) PROVE DealtInOrder'
  BY <1>6, DealtByTheRest DEF DistributePot
<1>7. CASE UNCHANGED vars
  BY <1>7, DealtByTheRest DEF vars
<1> QED
  BY <1>1, <1>2, <1>3, <1>4, <1>5, <1>6, <1>7 DEF Next

\* dealHoleCards, dealCommunityCards: in every reachable state the hole cards
\* and the board are consecutive pieces of the hand's own deck.
THEOREM AlwaysDealtInOrder == Spec => []DealtInOrder
BY DealtInitially, DealtInductive, PTL DEF Spec

-----------------------------------------------------------------------------
(* No card twice                                                           *)

LEMMA DealtInOrderIsOnce == DealtInOrder => DealtOnce
<1> SUFFICES ASSUME DealtInOrder, InPlay
             PROVE  /\ \A p \in Playing : Cardinality(hole[p]) = 2
                    /\ Cardinality(community) = <<0, 3, 4, 5, 5>>[round + 1]
                    /\ Cardinality(community \cup UNION {hole[p] : p \in Playing})
                         = Cardinality(community) + 4
  BY DEF DealtOnce
<1>1. PICK sb, bb \in Players : players = <<sb, bb>>
  BY DEF DealtInOrder, InPlay
<1>2. Playing = {sb, bb}
  BY <1>1 DEF Playing, ToSet
<1>3. /\ deck \in Decks
      /\ hole[sb] = Cards(deck, 0, 2) /\ hole[bb] = Cards(deck, 2, 2)
      /\ community = Cards(deck, 4, Board(round))
  BY <1>1 DEF DealtInOrder
<1>4. Board(round) \in 0..5
  BY DEF DealtInOrder, SHOWDOWN, Board
<1>5. Cardinality(hole[sb]) = 2 /\ Cardinality(hole[bb]) = 2
  BY <1>3, CardsCounted
<1>6. Cardinality(community) = Board(round)
  BY <1>3, <1>4, CardsCounted
<1>7. community \cup UNION {hole[p] : p \in Playing} = Cards(deck, 0, 4 + Board(round))
  <2>1. UNION {hole[p] : p \in Playing} = hole[sb] \cup hole[bb]
    BY <1>2
  <2>2. Cards(deck, 0, 2) \cup Cards(deck, 2, 2) \cup Cards(deck, 4, Board(round))
          = Cards(deck, 0, 4 + Board(round))
    <3>1. Board(round) \in Nat
      BY <1>4
    <3> QED
      BY <3>1, WholeDeal, Zenon
  <2> QED
    BY <1>3, <2>1, <2>2
<1>8. Cardinality(Cards(deck, 0, 4 + Board(round))) = 4 + Board(round)
  BY <1>3, <1>4, CardsCounted
<1> QED
  BY <1>2, <1>4, <1>5, <1>6, <1>7, <1>8 DEF Board

\* Through all rounds, and whether or not the Hand is reset in between, no card
\* is dealt twice and the board is what the round has dealt, for every set of
\* decks of distinct cards.
THEOREM DealtOnceTheorem == Spec => []DealtOnce
BY AlwaysDealtInOrder, DealtInOrderIsOnce, PTL

-----------------------------------------------------------------------------
(* Chips: the inductive invariant                                          *)

ChipTypes ==
  /\ stack \in [Players -> Nat] /\ bets \in [Seats -> Nat]
  /\ pot \in Nat /\ paid \in Nat
  /\ side_pots \in [Seats -> [amount: Nat, eligible: SUBSET Players]]

HandTypes ==
  /\ folded \subseteq Seats /\ turn \in Seats
  /\ min_raise \in Int /\ min_raise >= BigBlind
  /\ hands \in 0..MaxHands /\ actions \in 0..MaxActions /\ fresh \in BOOLEAN

\* Before the first hand and after a reset the vectors are empty.
NothingLeft ==
  ~InPlay =>
    /\ deck = <<>> /\ next = 0 /\ community = {}
    /\ bets = [i \in Seats |-> 0] /\ folded = {}

\* A side pot holds chips exactly if it is owed to somebody, and to a player of the hand.
PotsOwed ==
  \A k \in Seats :
    /\ side_pots[k].eligible \subseteq Playing
    /\ side_pots[k].amount = 0 <=> side_pots[k].eligible = {}

\* A hand that started from empty vectors has bets for all its main pot holds and has paid.
BetsAccounted == fresh /\ InPlay => bets[1] + bets[2] = pot + paid

CoreInv ==
  /\ DealtInOrder
  /\ ChipTypes /\ HandTypes
  /\ NothingLeft /\ PotsOwed /\ BetsAccounted

-----------------------------------------------------------------------------
(* Two players at their seats                                              *)

LEMMA TwoPlay ==
  ASSUME DealtInOrder, InPlay
  PROVE  /\ players[1] \in Players /\ players[2] \in Players /\ players[1] # players[2]
         /\ Playing = {players[1], players[2]}
         /\ players = <<players[1], players[2]>>
<1>1. PICK sb, bb \in Players : sb # bb /\ players = <<sb, bb>>
  BY DEF DealtInOrder, InPlay
<1> QED
  BY <1>1 DEF Playing, ToSet

LEMMA SeatIsTaken ==
  ASSUME DealtInOrder, InPlay, NEW p \in Playing
  PROVE  Seat(p) \in Seats /\ players[Seat(p)] = p
<1>1. \E i \in Seats : players[i] = p
  BY TwoPlay DEF Seats
<1> QED
  BY <1>1 DEF Seat

LEMMA Initially == Init => CoreInv
<1> SUFFICES ASSUME Init PROVE CoreInv
  OBVIOUS
<1>1. DealtInOrder
  BY DealtInitially
<1>2. ChipTypes
  BY CoreAssumption DEF Init, ChipTypes, NoSidePots, NoPot, CoreAssumption
<1>3. HandTypes
  BY CoreAssumption DEF Init, HandTypes, CoreAssumption, Seats
<1>4. NothingLeft /\ BetsAccounted
  BY DEF Init, NothingLeft, BetsAccounted, InPlay
<1>5. PotsOwed
  BY DEF Init, PotsOwed, NoSidePots, NoPot
<1> QED
  BY <1>1, <1>2, <1>3, <1>4, <1>5 DEF CoreInv

LEMMA StartKeeps ==
  ASSUME CoreInv, NEW sb \in Players, NEW bb \in Players, StartHand(sb, bb)
  PROVE  CoreInv'
<1>1. /\ players' = <<sb, bb>> /\ hands < MaxHands /\ hands' = hands + 1 /\ actions' = actions
      /\ pot' = 0 /\ paid' = 0 /\ side_pots' = NoSidePots /\ turn' = 1 /\ min_raise' = BigBlind
      /\ fresh' = (players = <<>>) /\ stack' = stack /\ bets' = bets /\ folded' = folded
  BY DEF StartHand
<1>2. DealtInOrder'
  BY DealtByStart DEF CoreInv
<1>3. ChipTypes'
  BY <1>1 DEF CoreInv, ChipTypes, NoSidePots, NoPot
<1>4. HandTypes'
  BY <1>1, CoreAssumption DEF CoreInv, HandTypes, CoreAssumption, Seats
<1>5. InPlay'
  BY <1>1 DEF InPlay
<1>6. PotsOwed'
  BY <1>1 DEF PotsOwed, NoSidePots, NoPot
<1>7. BetsAccounted'
  BY <1>1 DEF BetsAccounted, CoreInv, NothingLeft, InPlay, Seats
<1> QED
  BY <1>2, <1>3, <1>4, <1>5, <1>6, <1>7 DEF CoreInv, NothingLeft

LEMMA RoundKeeps ==
  ASSUME CoreInv, AdvanceBettingRound
  PROVE  CoreInv'
<1>1. /\ InPlay /\ UNCHANGED <<money, players, folded, turn, min_raise, hands, actions, fresh>>
  BY DEF AdvanceBettingRound
<1>2. DealtInOrder'
  BY DealtByRound DEF CoreInv
<1>3. ChipTypes' /\ HandTypes'
  BY <1>1 DEF CoreInv, ChipTypes, HandTypes, money
<1>4. NothingLeft' /\ BetsAccounted'
  BY <1>1 DEF CoreInv, NothingLeft, BetsAccounted, InPlay, money
<1>5. PotsOwed'
  BY <1>1 DEF CoreInv, PotsOwed, Playing, money
<1> QED
  BY <1>2, <1>3, <1>4, <1>5 DEF CoreInv

LEMMA ResetKeeps ==
  ASSUME CoreInv, ResetHand
  PROVE  CoreInv'
<1>1. /\ players' = <<>> /\ folded' = {} /\ bets' = [i \in Seats |-> 0]
      /\ deck' = <<>> /\ next' = 0 /\ community' = {}
      /\ pot' = 0 /\ paid' = 0 /\ side_pots' = NoSidePots /\ turn' = 1 /\ min_raise' = BigBlind
      /\ UNCHANGED <<stack, hands, actions, fresh>>
  BY DEF ResetHand
<1>2. DealtInOrder'
  BY DealtByReset DEF CoreInv
<1>3. ChipTypes'
  BY <1>1 DEF CoreInv, ChipTypes, NoSidePots, NoPot
<1>4. HandTypes'
  BY <1>1, CoreAssumption DEF CoreInv, HandTypes, CoreAssumption, Seats
<1>5. NothingLeft' /\ BetsAccounted'
  BY <1>1 DEF NothingLeft, BetsAccounted, InPlay
<1>6. PotsOwed'
  BY <1>1 DEF PotsOwed, NoSidePots, NoPot
<1> QED
  BY <1>2, <1>3, <1>4, <1>5, <1>6 DEF CoreInv

\* What every action of a player leaves as it is, and what it must see to
LEMMA ActionKeeps ==
  ASSUME CoreInv, Applied,
         stack' \in [Players -> Nat], bets' \in [Seats -> Nat], pot' \in Nat,
         folded' \subseteq Seats, min_raise' \in Int, min_raise' >= BigBlind,
         bets'[1] + bets'[2] - pot' = bets[1] + bets[2] - pot
  PROVE  CoreInv'
<1>1. /\ InPlay /\ actions < MaxActions /\ actions' = actions + 1 /\ turn' = 3 - turn
      /\ UNCHANGED <<cards, side_pots, players, hands, fresh, paid>>
  BY DEF Applied
<1>2. DealtInOrder'
  BY <1>1, DealtByTheRest DEF CoreInv
<1>3. ChipTypes'
  BY <1>1 DEF CoreInv, ChipTypes
<1>4. HandTypes'
  BY <1>1, CoreAssumption DEF CoreInv, HandTypes, CoreAssumption, Seats
<1>5. NothingLeft'
  BY <1>1 DEF NothingLeft, InPlay
<1>6. BetsAccounted'
  <2>1. bets[1] \in Nat /\ bets[2] \in Nat /\ bets'[1] \in Nat /\ bets'[2] \in Nat
        /\ pot \in Nat /\ paid \in Nat /\ paid' = paid
    BY <1>1 DEF CoreInv, ChipTypes, Seats
  <2>2. ASSUME fresh' PROVE bets'[1] + bets'[2] = pot' + paid'
    <3>1. bets[1] + bets[2] = pot + paid
      BY <1>1, <2>2 DEF CoreInv, BetsAccounted
    <3> QED
      BY <2>1, <3>1
  <2> QED
    BY <2>2 DEF BetsAccounted
<1>7. PotsOwed'
  BY <1>1 DEF CoreInv, PotsOwed, Playing
<1> QED
  BY <1>2, <1>3, <1>4, <1>5, <1>6, <1>7 DEF CoreInv

LEMMA FoldKeeps ==
  ASSUME CoreInv, NEW p \in Playing, Fold(p)
  PROVE  CoreInv'
<1>1. Applied /\ folded' = folded \cup {Seat(p)} /\ UNCHANGED <<stack, pot, bets, min_raise>>
  BY DEF Fold
<1>2. Seat(p) \in Seats
  BY <1>1, SeatIsTaken DEF CoreInv, Applied
<1>3. folded' \subseteq Seats
  BY <1>1, <1>2 DEF CoreInv, HandTypes
<1> QED
  BY <1>1, <1>3, ActionKeeps DEF CoreInv, ChipTypes, HandTypes

LEMMA Paying ==
  ASSUME CoreInv, InPlay, NEW p \in Playing, NEW n \in Amounts, Pay(p, n)
  PROVE  /\ stack' \in [Players -> Nat] /\ bets' \in [Seats -> Nat] /\ pot' \in Nat
         /\ bets'[1] + bets'[2] - pot' = bets[1] + bets[2] - pot
<1>1. p \in Players /\ Seat(p) \in Seats
  BY TwoPlay, SeatIsTaken DEF CoreInv
<1>2. /\ n \in 0..stack[p] /\ stack' = [stack EXCEPT ![p] = stack[p] - n]
      /\ pot' = pot + n /\ bets' = [bets EXCEPT ![Seat(p)] = bets[Seat(p)] + n]
  BY DEF Pay
<1>3. stack \in [Players -> Nat] /\ bets \in [Seats -> Nat] /\ pot \in Nat /\ stack[p] \in Nat
  BY <1>1 DEF CoreInv, ChipTypes
<1>4. n \in Nat /\ stack[p] - n \in Nat
  BY <1>2, <1>3
<1>5. stack' \in [Players -> Nat]
  BY <1>2, <1>3, <1>4
<1>6. bets[Seat(p)] + n \in Nat /\ pot' \in Nat
  BY <1>1, <1>2, <1>3, <1>4
<1>7. bets' \in [Seats -> Nat]
  BY <1>2, <1>3, <1>6
<1>8. bets'[1] + bets'[2] = bets[1] + bets[2] + n
  <2>1. Seat(p) = 1 \/ Seat(p) = 2
    BY <1>1 DEF Seats
  <2>2. bets[1] \in Nat /\ bets[2] \in Nat
    BY <1>3 DEF Seats
  <2>3. CASE Seat(p) = 1
    <3>1. bets'[1] = bets[1] + n /\ bets'[2] = bets[2]
      BY <1>2, <1>3, <2>3 DEF Seats
    <3> QED
      BY <3>1, <2>2, <1>4
  <2>4. CASE Seat(p) = 2
    <3>1. bets'[2] = bets[2] + n /\ bets'[1] = bets[1]
      BY <1>2, <1>3, <2>4 DEF Seats
    <3> QED
      BY <3>1, <2>2, <1>4
  <2> QED
    BY <2>1, <2>3, <2>4
<1>9. bets'[1] + bets'[2] - pot' = bets[1] + bets[2] - pot
  <2>1. bets[1] \in Nat /\ bets[2] \in Nat
    BY <1>3 DEF Seats
  <2> QED
    BY <1>2, <1>3, <1>4, <1>8, <2>1
<1> QED
  BY <1>5, <1>6, <1>7, <1>9

LEMMA CallKeeps ==
  ASSUME CoreInv, NEW p \in Playing, NEW n \in Amounts, Call(p, n)
  PROVE  CoreInv'
<1>1. Applied /\ InPlay /\ Pay(p, n) /\ UNCHANGED <<folded, min_raise>>
  BY DEF Call, Applied
<1> QED
  BY <1>1, Paying, ActionKeeps DEF CoreInv, HandTypes

LEMMA RaiseKeeps ==
  ASSUME CoreInv, NEW p \in Playing, NEW n \in Amounts, Raise(p, n)
  PROVE  CoreInv'
<1>1. /\ Applied /\ InPlay /\ Pay(p, n) /\ n >= min_raise /\ min_raise' = n /\ folded' = folded
  BY DEF Raise, Applied
<1>2. min_raise' \in Int /\ min_raise' >= BigBlind
  BY <1>1, CoreAssumption DEF CoreInv, HandTypes, CoreAssumption
<1> QED
  BY <1>1, <1>2, Paying, ActionKeeps DEF CoreInv, HandTypes

-----------------------------------------------------------------------------
(* Side pots                                                               *)

LEMMA SmallSets ==
  /\ Cardinality({}) = 0 /\ Cardinality({1, 2}) = 2
  /\ \A x : Cardinality({x}) = 1
<1>1. \A x : Cardinality({x}) = 1
  BY FS_Singleton
<1>2. IsFiniteSet({1}) /\ Cardinality({1}) = 1
  BY FS_Singleton
<1>3. Cardinality({1} \cup {2}) = 1 + 1
  BY <1>2, FS_AddElement
<1>4. {1} \cup {2} = {1, 2}
  OBVIOUS
<1> QED
  BY <1>1, <1>3, <1>4, FS_EmptySet

\* A layer of so many chips, owed to players of the hand
Owed(layer, amount) ==
  /\ layer \in [amount: Nat, eligible: SUBSET Players]
  /\ layer.amount = amount
  /\ layer.eligible \subseteq Playing
  /\ layer.amount = 0 <=> layer.eligible = {}

Reached(below, top) == {i \in Seats : below < top /\ bets[i] >= top}

LEMMA LevelIsOwed ==
  ASSUME CoreInv, InPlay, NEW below \in Nat, NEW top \in Nat, NEW n \in Nat,
         Cardinality(Reached(below, top)) = n, n = 0 <=> Reached(below, top) = {},
         below <= top, Reached(below, top) # {} => below < top
  PROVE  Owed(Level(below, top), (top - below) * n)
<1>1. /\ players[1] \in Players /\ players[2] \in Players
      /\ Playing = {players[1], players[2]}
  BY TwoPlay DEF CoreInv
<1>2. \A S \in SUBSET Seats :
        /\ {players[i] : i \in S} \subseteq Playing
        /\ {players[i] : i \in S} = {} <=> S = {}
  BY <1>1 DEF Seats
<1>3. Reached(below, top) \in SUBSET Seats
  BY DEF Reached
<1>4. Level(below, top) = [amount |-> (top - below) * n,
                           eligible |-> {players[i] : i \in Reached(below, top)}]
  BY DEF Level, Reached
<1>5. (top - below) * n \in Nat /\ ((top - below) * n = 0 <=> Reached(below, top) = {})
  <2>1. CASE Reached(below, top) = {}
    BY <2>1
  <2>2. CASE Reached(below, top) # {}
    <3>1. top - below \in Nat \ {0} /\ n \in Nat \ {0}
      BY <2>2
    <3>2. \A x, y \in Nat \ {0} : x * y \in Nat \ {0}
      OBVIOUS
    <3> QED
      BY <3>1, <3>2, <2>2
  <2> QED
    BY <2>1, <2>2
<1>6. Playing \subseteq Players
  BY <1>1
<1> DEFINE owed == {players[i] : i \in Reached(below, top)}
<1>7. owed \subseteq Playing /\ (owed = {} <=> Reached(below, top) = {})
  BY <1>2, <1>3
<1> HIDE DEF owed
<1>8. Level(below, top) = [amount |-> (top - below) * n, eligible |-> owed]
  BY <1>4 DEF owed
<1>9. owed \in SUBSET Players
  BY <1>6, <1>7
<1> DEFINE chips == (top - below) * n
<1>10. chips \in Nat /\ (chips = 0 <=> owed = {})
  BY <1>5, <1>7
<1>11. Level(below, top) = [amount |-> chips, eligible |-> owed]
  BY <1>8
<1> HIDE DEF chips
<1>12. Owed(Level(below, top), chips)
  BY <1>7, <1>9, <1>10, <1>11 DEF Owed
<1> QED
  BY <1>12 DEF chips

\* The two layers, and what their amounts come to
LEMMA LayersOfBets ==
  ASSUME CoreInv, InPlay
  PROVE  /\ Owed(Layers[1], Lower * 2) /\ Owed(Layers[2], Higher - Lower)
         /\ Layers \in [Seats -> [amount: Nat, eligible: SUBSET Players]]
         /\ Layers[1].amount + Layers[2].amount = bets[1] + bets[2]
<1>1. bets[1] \in Nat /\ bets[2] \in Nat
  BY DEF CoreInv, ChipTypes, Seats
<1>2. /\ Lower \in Nat /\ Higher \in Nat /\ Lower <= Higher
      /\ Lower + Higher = bets[1] + bets[2]
      /\ Lower <= bets[1] /\ Lower <= bets[2]
  BY <1>1 DEF Lower, Higher
<1>3. Owed(Level(0, Lower), Lower * 2)
  <2>1. CASE Lower = 0
    <3>1. Reached(0, Lower) = {}
      BY <2>1 DEF Reached
    <3>2. Owed(Level(0, Lower), (Lower - 0) * 0)
      <4>1. /\ 0 \in Nat /\ Lower \in Nat /\ 0 \in Nat /\ 0 <= Lower
            /\ Cardinality(Reached(0, Lower)) = 0
            /\ 0 = 0 <=> Reached(0, Lower) = {}
            /\ Reached(0, Lower) # {} => 0 < Lower
        BY <1>2, <3>1, SmallSets
      <4> QED
        BY <4>1, LevelIsOwed, Zenon
    <3>3. (Lower - 0) * 0 = Lower * 2
      BY <2>1
    <3> QED
      BY <3>2, <3>3
  <2>2. CASE Lower # 0
    <3>1. Reached(0, Lower) = {1, 2} /\ 0 < Lower
      BY <2>2, <1>1, <1>2 DEF Seats, Reached
    <3>2. Owed(Level(0, Lower), (Lower - 0) * 2)
      <4>1. /\ 0 \in Nat /\ Lower \in Nat /\ 2 \in Nat /\ 0 <= Lower
            /\ Cardinality(Reached(0, Lower)) = 2
            /\ 2 = 0 <=> Reached(0, Lower) = {}
            /\ Reached(0, Lower) # {} => 0 < Lower
        BY <1>2, <3>1, SmallSets
      <4> QED
        BY <4>1, LevelIsOwed, Zenon
    <3>3. (Lower - 0) * 2 = Lower * 2
      BY <1>2
    <3> QED
      BY <3>2, <3>3
  <2> QED
    BY <2>1, <2>2
<1>4. Owed(Level(Lower, Higher), Higher - Lower)
  <2>1. CASE Lower = Higher
    <3>1. Reached(Lower, Higher) = {}
      BY <2>1, <1>2 DEF Reached
    <3>2. Owed(Level(Lower, Higher), (Higher - Lower) * 0)
      <4>1. /\ Lower \in Nat /\ Higher \in Nat /\ 0 \in Nat /\ Lower <= Higher
            /\ Cardinality(Reached(Lower, Higher)) = 0
            /\ 0 = 0 <=> Reached(Lower, Higher) = {}
            /\ Reached(Lower, Higher) # {} => Lower < Higher
        BY <1>2, <3>1, SmallSets
      <4> QED
        BY <4>1, LevelIsOwed, Zenon
    <3>3. (Higher - Lower) * 0 = Higher - Lower
      BY <1>2, <2>1
    <3> QED
      BY <3>2, <3>3
  <2>2. CASE Lower # Higher
    <3>1. Lower < Higher
      BY <1>2, <2>2
    <3>2. PICK i \in Seats : Reached(Lower, Higher) = {i}
      <4>1. CASE bets[1] <= bets[2]
        <5>1. Reached(Lower, Higher) = {2}
          BY <1>1, <2>2, <4>1 DEF Lower, Higher, Seats, Reached
        <5> QED
          BY <5>1 DEF Seats
      <4>2. CASE bets[2] < bets[1]
        <5>1. Reached(Lower, Higher) = {1}
          BY <1>1, <2>2, <4>2 DEF Lower, Higher, Seats, Reached
        <5> QED
          BY <5>1 DEF Seats
      <4> QED
        BY <4>1, <4>2, <1>1
    <3>3. Cardinality(Reached(Lower, Higher)) = 1 /\ Reached(Lower, Higher) # {}
      BY <3>2, SmallSets
    <3>4. Owed(Level(Lower, Higher), (Higher - Lower) * 1)
      BY <1>2, <3>1, <3>3, LevelIsOwed
    <3>5. (Higher - Lower) * 1 = Higher - Lower
      BY <1>2
    <3> QED
      BY <3>4, <3>5
  <2> QED
    BY <2>1, <2>2
<1>5. /\ Layers = [k \in Seats |-> IF k = 1 THEN Level(0, Lower) ELSE Level(Lower, Higher)]
      /\ Layers[1] = Level(0, Lower) /\ Layers[2] = Level(Lower, Higher)
  BY DEF Layers, Seats
<1>6. Layers \in [Seats -> [amount: Nat, eligible: SUBSET Players]]
  BY <1>3, <1>4, <1>5 DEF Owed
<1>7. Layers[1].amount + Layers[2].amount = bets[1] + bets[2]
  <2>1. Layers[1].amount = Lower * 2 /\ Layers[2].amount = Higher - Lower
    BY <1>3, <1>4, <1>5 DEF Owed
  <2> QED
    BY <1>1, <1>2, <2>1
<1> QED
  BY <1>3, <1>4, <1>5, <1>6, <1>7

LEMMA SidePotsKeep ==
  ASSUME CoreInv, CalculateSidePots
  PROVE  CoreInv'
<1>1. /\ InPlay /\ side_pots' = Layers
      /\ UNCHANGED <<cards, stack, pot, bets, paid, players, folded, turn, min_raise, hands,
                     actions, fresh>>
  BY DEF CalculateSidePots
<1>2. DealtInOrder'
  BY <1>1, DealtByTheRest DEF CoreInv
<1>3. ChipTypes' /\ HandTypes'
  BY <1>1, LayersOfBets DEF CoreInv, ChipTypes, HandTypes
<1>4. NothingLeft' /\ BetsAccounted'
  BY <1>1 DEF CoreInv, NothingLeft, BetsAccounted, InPlay
<1>5. PotsOwed'
  BY <1>1, LayersOfBets DEF PotsOwed, Playing, Owed, Seats
<1> QED
  BY <1>2, <1>3, <1>4, <1>5 DEF CoreInv

-----------------------------------------------------------------------------
(* Payments                                                                *)

\* To one alone the whole amount, to the first of two the odd chip
LEMMA Shares ==
  ASSUME NEW m \in Nat
  PROVE  /\ Share(m, 1, 0) = m
         /\ Share(m, 2, 0) \in Nat /\ Share(m, 2, 1) \in Nat
         /\ Share(m, 2, 0) + Share(m, 2, 1) = m
         /\ Share(m, 2, 0) - Share(m, 2, 1) \in 0..1
<1>1. m \div 1 = m /\ m % 1 = 0
  OBVIOUS
<1>2. /\ m \div 2 \in Nat /\ m % 2 \in 0..1 /\ m = 2 * (m \div 2) + (m % 2)
  OBVIOUS
<1>3. Share(m, 1, 0) = m
  BY <1>1 DEF Share
<1>4. Share(m, 2, 0) = (m \div 2) + (m % 2) /\ Share(m, 2, 1) = m \div 2
  BY <1>2 DEF Share
<1> QED
  BY <1>2, <1>3, <1>4

Sharing(w, E) == {i \in DOMAIN w : w[i] \in E}
Before(w, E, i) == {j \in Sharing(w, E) : j < i}

LEMMA GainOfSharer ==
  ASSUME NEW m, NEW w, NEW E, NEW i \in Sharing(w, E), IsInjective(w)
  PROVE  Gain(w[i], m, w, E) =
           Share(m, Cardinality(Sharing(w, E)), Cardinality(Before(w, E, i)))
<1>1. w[i] \in ToSet(w) \cap E
  BY DEF Sharing, ToSet
<1>2. (CHOOSE k \in Sharing(w, E) : w[k] = w[i]) = i
  <2>1. \A k \in Sharing(w, E) : w[k] = w[i] => k = i
    BY DEF Sharing, IsInjective
  <2> QED
    BY <2>1
<1> QED
  BY <1>1, <1>2 DEF Gain, Sharing, Before

LEMMA GainOfOthers ==
  ASSUME NEW m, NEW w, NEW E, NEW p, p \notin ToSet(w) \cap E
  PROVE  Gain(p, m, w, E) = 0
BY DEF Gain

\* One winner or both, in either order
LEMMA OneOrBoth ==
  ASSUME CoreInv, InPlay, NEW w \in WinnerLists
  PROVE  /\ IsInjective(w) /\ ToSet(w) \subseteq Playing
         /\ \/ DOMAIN w = {1} /\ ToSet(w) = {w[1]}
            \/ DOMAIN w = {1, 2} /\ ToSet(w) = {w[1], w[2]} /\ w[1] # w[2] /\ Playing = {w[1], w[2]}
<1>1. IsInjective(w) /\ \E n \in Seats : w \in [1..n -> Playing]
  BY DEF WinnerLists
<1>2. PICK n \in Seats : w \in [1..n -> Playing]
  BY <1>1
<1>3. ToSet(w) \subseteq Playing
  BY <1>2 DEF ToSet
<1>4. Playing = {players[1], players[2]}
  BY TwoPlay DEF CoreInv
<1>5. CASE n = 1
  <2>1. DOMAIN w = {1}
    BY <1>2, <1>5
  <2> QED
    BY <2>1, <1>1, <1>3 DEF ToSet
<1>6. CASE n = 2
  <2>1. DOMAIN w = {1, 2} /\ w[1] \in Playing /\ w[2] \in Playing
    BY <1>2, <1>6
  <2>2. w[1] # w[2]
    BY <1>1, <2>1 DEF IsInjective
  <2> QED
    BY <2>1, <2>2, <1>1, <1>3, <1>4 DEF ToSet
<1> QED
  BY <1>2, <1>5, <1>6 DEF Seats

\* How an amount that the players E have a claim to is split among the winners w
Split(m, w, E) ==
  /\ \A p \in Players : Gain(p, m, w, E) \in Nat
  /\ Gain(players[1], m, w, E) + Gain(players[2], m, w, E)
       = IF E \cap ToSet(w) # {} THEN m ELSE 0
  /\ \A p \in Players : p \notin ToSet(w) => Gain(p, m, w, E) = 0
  /\ E \cap ToSet(w) = {} => \A p \in Players : Gain(p, m, w, E) = 0
  /\ \A i, j \in DOMAIN w :
       i < j /\ ToSet(w) \subseteq E => Gain(w[i], m, w, E) - Gain(w[j], m, w, E) \in 0..1

LEMMA AmountIsSplit ==
  ASSUME CoreInv, InPlay, NEW w \in WinnerLists, NEW m \in Nat, NEW E \in SUBSET Playing
  PROVE  Split(m, w, E)
<1> DEFINE gain(p) == Gain(p, m, w, E)
<1>1. /\ players[1] # players[2] /\ Playing = {players[1], players[2]}
  BY TwoPlay DEF CoreInv
<1>2. IsInjective(w) /\ ToSet(w) \subseteq Playing
  BY OneOrBoth
<1>3. \A p : p \notin ToSet(w) \cap E => gain(p) = 0
  BY GainOfOthers
<1>4. CASE E \cap ToSet(w) = {}
  <2>1. \A p : gain(p) = 0
    BY <1>3, <1>4
  <2>2. ~(ToSet(w) \subseteq E) \/ DOMAIN w = {}
    BY <1>4 DEF ToSet
  <2> QED
    BY <1>4, <2>1, <2>2 DEF Split
<1>5. ASSUME NEW i \in DOMAIN w, E \cap ToSet(w) = {w[i]} PROVE Split(m, w, E)
  <2>1. Sharing(w, E) = {i}
    BY <1>2, <1>5 DEF Sharing, ToSet, IsInjective
  <2>2. Before(w, E, i) = {}
    <3>1. i = 1 \/ i = 2
      BY OneOrBoth, <1>5
    <3> QED
      BY <3>1, <2>1 DEF Before
  <2>3. gain(w[i]) = m
    <3>1. i \in Sharing(w, E) /\ Cardinality(Sharing(w, E)) = 1
          /\ Cardinality(Before(w, E, i)) = 0
      BY <2>1, <2>2, SmallSets
    <3>2. gain(w[i]) = Share(m, Cardinality(Sharing(w, E)),
                                Cardinality(Before(w, E, i)))
      BY <3>1, <1>2, GainOfSharer
    <3> QED
      BY <3>1, <3>2, Shares
  <2>4. \A p : p # w[i] => gain(p) = 0
    BY <1>3, <1>5
  <2>5. w[i] = players[1] \/ w[i] = players[2]
    BY <1>1, <1>2, <1>5
  <2>6. gain(players[1]) + gain(players[2]) = m
    BY <1>1, <2>3, <2>4, <2>5
  <2>7. \A k, l \in DOMAIN w : ToSet(w) \subseteq E => ~(k < l)
    <3>1. ASSUME ToSet(w) \subseteq E PROVE ToSet(w) = {w[i]}
      BY <1>5, <3>1
    <3> QED
      BY <3>1, OneOrBoth
  <2> HIDE DEF gain
  <2>8. /\ \A p \in Players : gain(p) \in Nat
        /\ E \cap ToSet(w) # {}
        /\ \A p \in Players : p \notin ToSet(w) => gain(p) = 0
    BY <2>3, <2>4, <1>5
  <2> QED
    BY <2>6, <2>7, <2>8 DEF Split, gain
<1>6. CASE DOMAIN w = {1, 2} /\ w[1] # w[2] /\ E = {w[1], w[2]} /\ ToSet(w) = E /\ Playing = E
  <2>1. Sharing(w, E) = {1, 2}
    BY <1>6 DEF Sharing
  <2>2. Before(w, E, 1) = {} /\ Before(w, E, 2) = {1}
    BY <2>1 DEF Before
  <2>3. gain(w[1]) = Share(m, 2, 0)
    <3>1. 1 \in Sharing(w, E) /\ Cardinality(Sharing(w, E)) = 2
          /\ Cardinality(Before(w, E, 1)) = 0
      BY <2>1, <2>2, SmallSets
    <3>2. gain(w[1]) = Share(m, Cardinality(Sharing(w, E)),
                              Cardinality(Before(w, E, 1)))
      BY <3>1, <1>2, GainOfSharer
    <3> QED
      BY <3>1, <3>2
  <2>4. gain(w[2]) = Share(m, 2, 1)
    <3>1. 2 \in Sharing(w, E) /\ Cardinality(Sharing(w, E)) = 2
          /\ Cardinality(Before(w, E, 2)) = 1
      BY <2>1, <2>2, SmallSets
    <3>2. gain(w[2]) = Share(m, Cardinality(Sharing(w, E)),
                              Cardinality(Before(w, E, 2)))
      BY <3>1, <1>2, GainOfSharer
    <3> QED
      BY <3>1, <3>2
  <2>5. /\ gain(w[1]) \in Nat /\ gain(w[2]) \in Nat
        /\ gain(w[1]) + gain(w[2]) = m /\ gain(w[1]) - gain(w[2]) \in 0..1
    BY <2>3, <2>4, Shares
  <2>6. \/ w[1] = players[1] /\ w[2] = players[2]
        \/ w[1] = players[2] /\ w[2] = players[1]
    BY <1>1, <1>6
  <2>7. gain(players[1]) + gain(players[2]) = m
    BY <2>5, <2>6
  <2>8. \A k, l \in DOMAIN w : k < l => k = 1 /\ l = 2
    BY <1>6
  <2>9. \A p \in Players : gain(p) \in Nat /\ (p \notin ToSet(w) => gain(p) = 0)
    <3>1. \A p : p \notin {w[1], w[2]} => gain(p) = 0
      BY <1>3, <1>6
    <3> HIDE DEF gain
    <3> QED
      BY <3>1, <1>6, <2>5
  <2> HIDE DEF gain
  <2> QED
    BY <1>6, <2>5, <2>7, <2>8, <2>9 DEF Split, gain
<1>7. \/ E \cap ToSet(w) = {}
      \/ \E i \in DOMAIN w : E \cap ToSet(w) = {w[i]}
      \/ DOMAIN w = {1, 2} /\ w[1] # w[2] /\ E = {w[1], w[2]} /\ ToSet(w) = E /\ Playing = E
  BY OneOrBoth
<1> QED
  BY <1>4, <1>5, <1>6, <1>7

\* The three amounts of a payment, each split by its own rule
LEMMA PaymentSplits ==
  ASSUME CoreInv, InPlay, NEW w \in WinnerLists
  PROVE  /\ Split(pot, w, Playing)
         /\ \A k \in Seats : Split(side_pots[k].amount, w, side_pots[k].eligible)
<1>1. pot \in Nat /\ \A k \in Seats : side_pots[k].amount \in Nat
  BY DEF CoreInv, ChipTypes
<1>2. \A k \in Seats : side_pots[k].eligible \in SUBSET Playing
  BY DEF CoreInv, PotsOwed
<1>3. Split(pot, w, Playing)
  BY <1>1, AmountIsSplit
<1>4. ASSUME NEW k \in Seats PROVE Split(side_pots[k].amount, w, side_pots[k].eligible)
  <2>1. side_pots[k].amount \in Nat /\ side_pots[k].eligible \in SUBSET Playing
    BY <1>1, <1>2
  <2> QED
    BY <2>1, AmountIsSplit
<1> QED
  BY <1>3, <1>4

LEMMA PaymentKeeps ==
  ASSUME CoreInv, NEW w \in WinnerLists, DistributePot(w)
  PROVE  CoreInv'
<1>1. /\ InPlay /\ pot' = 0 /\ paid' = paid + pot
      /\ side_pots' = [k \in Seats |-> IF Paid(k, w) THEN NoPot ELSE side_pots[k]]
      /\ UNCHANGED <<cards, bets, players, folded, turn, min_raise, hands, actions, fresh>>
  BY DEF DistributePot
<1>2. DealtInOrder'
  BY <1>1, DealtByTheRest DEF CoreInv
<1>3. stack' \in [Players -> Nat]
  <2>1. \A p \in Players :
          /\ stack[p] \in Nat /\ Gain(p, pot, w, Playing) \in Nat
          /\ Gain(p, side_pots[1].amount, w, side_pots[1].eligible) \in Nat
          /\ Gain(p, side_pots[2].amount, w, side_pots[2].eligible) \in Nat
    BY <1>1, PaymentSplits DEF CoreInv, ChipTypes, Split, Seats
  <2>2. stack' = [p \in Players |->
          stack[p] + Gain(p, pot, w, Playing)
            + Gain(p, side_pots[1].amount, w, side_pots[1].eligible)
            + Gain(p, side_pots[2].amount, w, side_pots[2].eligible)]
    BY DEF DistributePot
  <2> QED
    BY <2>1, <2>2
<1>4. ChipTypes'
  <2>1. side_pots \in [Seats -> [amount: Nat, eligible: SUBSET Players]]
        /\ pot \in Nat /\ paid \in Nat /\ bets \in [Seats -> Nat]
    BY DEF CoreInv, ChipTypes
  <2>2. NoPot \in [amount: Nat, eligible: SUBSET Players]
    BY DEF NoPot
  <2>3. side_pots' \in [Seats -> [amount: Nat, eligible: SUBSET Players]]
    BY <1>1, <2>1, <2>2
  <2> QED
    BY <1>1, <1>3, <2>1, <2>3 DEF ChipTypes
<1>5. HandTypes'
  BY <1>1 DEF CoreInv, HandTypes
<1>6. NothingLeft'
  BY <1>1 DEF NothingLeft, InPlay
<1>7. BetsAccounted'
  <2>1. pot \in Nat /\ paid \in Nat
    BY DEF CoreInv, ChipTypes
  <2>2. ASSUME fresh PROVE bets[1] + bets[2] = pot + paid
    BY <1>1, <2>2 DEF CoreInv, BetsAccounted
  <2> QED
    BY <1>1, <2>1, <2>2 DEF BetsAccounted
<1>8. PotsOwed'
  <2>1. /\ Playing' = Playing
        /\ \A k \in Seats : side_pots'[k] = IF Paid(k, w) THEN NoPot ELSE side_pots[k]
    BY <1>1 DEF Playing
  <2> QED
    BY <2>1 DEF CoreInv, PotsOwed, NoPot
<1> QED
  BY <1>2, <1>4, <1>5, <1>6, <1>7, <1>8 DEF CoreInv

-----------------------------------------------------------------------------
(* Chips: the theorems                                                     *)

LEMMA CoreInductive == CoreInv /\ [Next]_vars => CoreInv'
<1> SUFFICES ASSUME CoreInv, [Next]_vars PROVE CoreInv'
  OBVIOUS
<1>1. ASSUME NEW sb \in Players, NEW bb \in Players, StartHand(sb, bb) PROVE CoreInv'
  BY <1>1, StartKeeps
<1>2. CASE AdvanceBettingRound
  BY <1>2, RoundKeeps
<1>3. CASE ResetHand
  BY <1>3, ResetKeeps
<1>4. ASSUME NEW p \in Playing, Fold(p) PROVE CoreInv'
  BY <1>4, FoldKeeps
<1>5. ASSUME NEW p \in Playing, NEW n \in Amounts, Call(p, n) PROVE CoreInv'
  BY <1>5, CallKeeps
<1>6. ASSUME NEW p \in Playing, NEW n \in Amounts, Raise(p, n) PROVE CoreInv'
  BY <1>6, RaiseKeeps
<1>7. CASE CalculateSidePots
  BY <1>7, SidePotsKeep
<1>8. ASSUME NEW w \in WinnerLists, DistributePot(w) PROVE CoreInv'
  BY <1>8, PaymentKeeps
<1>9. CASE UNCHANGED vars
  <2>1. UNCHANGED <<cards, money, players, folded, turn, min_raise, hands, actions, fresh>>
    BY <1>9 DEF vars
  <2>2. DealtInOrder'
    BY <2>1, DealtByTheRest DEF CoreInv
  <2>3. ChipTypes' /\ HandTypes' /\ NothingLeft' /\ BetsAccounted'
    BY <2>1 DEF CoreInv, ChipTypes, HandTypes, NothingLeft, BetsAccounted, InPlay, money, cards
  <2>4. PotsOwed'
    BY <2>1 DEF CoreInv, PotsOwed, Playing, money
  <2> QED
    BY <2>2, <2>3, <2>4 DEF CoreInv
<1> QED
  BY <1>1, <1>2, <1>3, <1>4, <1>5, <1>6, <1>7, <1>8, <1>9 DEF Next

\* Whatever is bet, folded, advanced, paid, reset and started again, the chips
\* stay natural numbers, the side pots are owed to players of the hand, and a
\* hand that started from empty vectors has bets for all its pot held.
THEOREM AlwaysCore == Spec => []CoreInv
BY Initially, CoreInductive, PTL DEF Spec

LEMMA CoreIsTyped == CoreInv => CTypeOK
<1> SUFFICES ASSUME CoreInv PROVE CTypeOK
  OBVIOUS
<1>1. players \in Seq(Players) /\ Len(players) \in {0, 2} /\ IsInjective(players)
  <2>1. CASE players = <<>>
    BY <2>1 DEF IsInjective
  <2>2. ASSUME NEW sb \in Players, NEW bb \in Players, sb # bb, players = <<sb, bb>>
        PROVE  players \in Seq(Players) /\ Len(players) \in {0, 2} /\ IsInjective(players)
    <3>1. DOMAIN players = {1, 2} /\ players[1] = sb /\ players[2] = bb
      BY <2>2
    <3>2. IsInjective(players)
      BY <2>2, <3>1 DEF IsInjective
    <3> QED
      BY <2>2, <3>2
  <2> QED
    BY <2>1, <2>2 DEF CoreInv, DealtInOrder
<1>2. deck \in Decks \cup {<<>>} /\ next \in 0..9 /\ community \subseteq Ranks \X Suits
  <2>1. CASE InPlay
    <3>1. /\ deck \in Decks /\ round \in 0..4 /\ community = Cards(deck, 4, Board(round))
          /\ next = 4 + Board(round)
      BY <2>1 DEF CoreInv, DealtInOrder, SHOWDOWN
    <3>2. Board(round) \in 0..5
      BY <3>1 DEF Board
    <3>3. Board(round) \in Nat /\ 4 + Board(round) <= 9
      BY <3>2
    <3>4. Cards(deck, 4, Board(round)) \in SUBSET (Ranks \X Suits)
      BY <3>1, <3>3, CardsAreCards
    <3> QED
      BY <3>1, <3>2, <3>4
  <2>2. CASE ~InPlay
    BY <2>2 DEF CoreInv, NothingLeft
  <2> QED
    BY <2>1, <2>2
<1> QED
  BY <1>1, <1>2 DEF CTypeOK, CoreInv, DealtInOrder, ChipTypes, HandTypes

\* The Hand object stays well formed and no stack, bet or pot becomes negative:
\* an action never pays more than the stack, in any order of the operations.
THEOREM CoreTypesTheorem == Spec => []CTypeOK
BY AlwaysCore, CoreIsTyped, PTL

LEMMA SidePotsStep ==
  CoreInv => [CalculateSidePots =>
                /\ fresh => side_pots'[1].amount + side_pots'[2].amount = pot + paid
                /\ \A k \in Seats :
                     side_pots'[k].amount > 0 => side_pots'[k].eligible # {}]_vars
<1> SUFFICES ASSUME CoreInv, CalculateSidePots
             PROVE  /\ fresh => side_pots'[1].amount + side_pots'[2].amount = pot + paid
                    /\ \A k \in Seats :
                         side_pots'[k].amount > 0 => side_pots'[k].eligible # {}
  OBVIOUS
<1>1. InPlay /\ side_pots' = Layers
  BY DEF CalculateSidePots
<1>2. fresh => bets[1] + bets[2] = pot + paid
  BY <1>1 DEF CoreInv, BetsAccounted
<1>3. /\ Owed(Layers[1], Lower * 2) /\ Owed(Layers[2], Higher - Lower)
      /\ Layers[1].amount + Layers[2].amount = bets[1] + bets[2]
  BY <1>1, LayersOfBets
<1>4. \A k \in Seats : side_pots'[k].amount > 0 => side_pots'[k].eligible # {}
  BY <1>1, <1>3 DEF Owed, Seats
<1> QED
  BY <1>1, <1>2, <1>3, <1>4

\* Whenever calculateSidePots is called in a hand that started from empty
\* vectors, its layers come to all the bets, which are all that the main pot
\* holds and has paid; and no chips are left without a claimant.
THEOREM SidePotsTheorem == Spec => SidePotsRepeatThePot
BY AlwaysCore, SidePotsStep, PTL DEF SidePotsRepeatThePot

-----------------------------------------------------------------------------
(* Payments are exact                                                      *)

\* How many side pots the winners w are paid of
PotsPaid(w) == Cardinality({k \in Seats : Due(k, w) > 0})

LEMMA PotsPaidCounted ==
  ASSUME NEW w, Due(1, w) \in Nat, Due(2, w) \in Nat
  PROVE  PotsPaid(w) = (IF Due(1, w) > 0 THEN 1 ELSE 0) + (IF Due(2, w) > 0 THEN 1 ELSE 0)
<1> DEFINE S == {k \in Seats : Due(k, w) > 0}
<1>1. CASE Due(1, w) > 0 /\ Due(2, w) > 0
  <2>1. S = {1, 2}
    BY <1>1 DEF Seats
  <2> QED
    BY <1>1, <2>1, SmallSets DEF PotsPaid
<1>2. CASE Due(1, w) > 0 /\ ~(Due(2, w) > 0)
  <2>1. S = {1}
    BY <1>2 DEF Seats
  <2> QED
    BY <1>2, <2>1, SmallSets DEF PotsPaid
<1>3. CASE ~(Due(1, w) > 0) /\ Due(2, w) > 0
  <2>1. S = {2}
    BY <1>3 DEF Seats
  <2> QED
    BY <1>3, <2>1, SmallSets DEF PotsPaid
<1>4. CASE ~(Due(1, w) > 0) /\ ~(Due(2, w) > 0)
  <2>1. S = {}
    BY <1>4 DEF Seats
  <2> QED
    BY <1>4, <2>1, SmallSets DEF PotsPaid
<1> QED
  BY <1>1, <1>2, <1>3, <1>4

\* A side pot is due exactly if the winners have a claim to it.
LEMMA DueIsPaid ==
  ASSUME CoreInv, NEW k \in Seats, NEW w
  PROVE  /\ Due(k, w) \in Nat
         /\ Due(k, w) > 0 <=> Paid(k, w)
         /\ Due(k, w) = IF side_pots[k].eligible \cap ToSet(w) # {} THEN side_pots[k].amount ELSE 0
<1>1. side_pots[k].amount \in Nat
  BY DEF CoreInv, ChipTypes
<1>2. side_pots[k].amount = 0 <=> side_pots[k].eligible = {}
  BY DEF CoreInv, PotsOwed
<1> QED
  BY <1>1, <1>2 DEF Due, Paid

\* What the player p gains of the main pot and of the two side pots
OfPot(p, w) == Gain(p, pot, w, Playing)
OfSidePot(p, w, k) == Gain(p, side_pots[k].amount, w, side_pots[k].eligible)

\* The three splits, said of these
LEMMA GainsAre ==
  ASSUME CoreInv, NEW w \in WinnerLists, DistributePot(w)
  PROVE  /\ \A p \in Players :
              /\ stack[p] \in Nat /\ OfPot(p, w) \in Nat
              /\ OfSidePot(p, w, 1) \in Nat /\ OfSidePot(p, w, 2) \in Nat
              /\ stack'[p] = stack[p] + OfPot(p, w) + OfSidePot(p, w, 1) + OfSidePot(p, w, 2)
              /\ p \notin ToSet(w) => /\ OfPot(p, w) = 0
                                      /\ OfSidePot(p, w, 1) = 0 /\ OfSidePot(p, w, 2) = 0
         /\ OfPot(players[1], w) + OfPot(players[2], w) = pot
         /\ \A k \in Seats :
              /\ OfSidePot(players[1], w, k) + OfSidePot(players[2], w, k) = Due(k, w)
              /\ \A p \in Players : Due(k, w) = 0 => OfSidePot(p, w, k) = 0
<1>1. InPlay
  BY DEF DistributePot
<1>2. /\ Split(pot, w, Playing)
      /\ \A k \in Seats : Split(side_pots[k].amount, w, side_pots[k].eligible)
  BY <1>1, PaymentSplits
<1>3. stack \in [Players -> Nat]
  BY DEF CoreInv, ChipTypes
<1>4. \A p \in Players :
        stack'[p] = stack[p] + OfPot(p, w) + OfSidePot(p, w, 1) + OfSidePot(p, w, 2)
  BY DEF DistributePot, OfPot, OfSidePot
<1>5. \A p \in Players : OfPot(p, w) \in Nat /\ (p \notin ToSet(w) => OfPot(p, w) = 0)
  BY <1>2 DEF Split, OfPot
<1>6. \A k \in Seats : \A p \in Players :
        OfSidePot(p, w, k) \in Nat /\ (p \notin ToSet(w) => OfSidePot(p, w, k) = 0)
  BY <1>2 DEF Split, OfSidePot
<1>7. OfPot(players[1], w) + OfPot(players[2], w) = pot
  <2>1. Playing \cap ToSet(w) # {}
    BY <1>1, OneOrBoth
  <2> QED
    BY <1>2, <2>1 DEF Split, OfPot
<1>8. ASSUME NEW k \in Seats
      PROVE  /\ OfSidePot(players[1], w, k) + OfSidePot(players[2], w, k) = Due(k, w)
             /\ \A p \in Players : Due(k, w) = 0 => OfSidePot(p, w, k) = 0
  <2>1. /\ Due(k, w) = IF side_pots[k].eligible \cap ToSet(w) # {} THEN side_pots[k].amount ELSE 0
        /\ Due(k, w) \in Nat /\ (Due(k, w) > 0 <=> Paid(k, w))
    BY DueIsPaid
  <2>2. OfSidePot(players[1], w, k) + OfSidePot(players[2], w, k) = Due(k, w)
    BY <1>2, <2>1 DEF Split, OfSidePot
  <2>3. Due(k, w) = 0 => side_pots[k].eligible \cap ToSet(w) = {}
    BY <2>1 DEF Paid
  <2> QED
    BY <1>2, <2>2, <2>3 DEF Split, OfSidePot
<1> QED
  BY <1>3, <1>4, <1>5, <1>6, <1>7, <1>8 DEF Seats

\* Of a pot that both can claim the earlier winner gets at most one chip more.
LEMMA OddChips ==
  ASSUME CoreInv, NEW w \in WinnerLists, DistributePot(w),
         NEW i \in DOMAIN w, NEW j \in DOMAIN w, i < j,
         \A k \in Seats : Due(k, w) > 0 => ToSet(w) \subseteq side_pots[k].eligible
  PROVE  /\ OfPot(w[i], w) - OfPot(w[j], w) \in 0..1
         /\ \A k \in Seats :
              OfSidePot(w[i], w, k) - OfSidePot(w[j], w, k)
                \in 0..(IF Due(k, w) > 0 THEN 1 ELSE 0)
<1>1. InPlay
  BY DEF DistributePot
<1>2. /\ Split(pot, w, Playing)
      /\ \A k \in Seats : Split(side_pots[k].amount, w, side_pots[k].eligible)
  BY <1>1, PaymentSplits
<1>3. ToSet(w) \subseteq Playing /\ w[i] \in ToSet(w) /\ w[j] \in ToSet(w)
  BY <1>1, OneOrBoth DEF ToSet
<1>4. w[i] \in Players /\ w[j] \in Players
  BY <1>1, <1>3, TwoPlay DEF CoreInv
<1>5. OfPot(w[i], w) - OfPot(w[j], w) \in 0..1
  BY <1>2, <1>3 DEF Split, OfPot
<1>6. ASSUME NEW k \in Seats
      PROVE  OfSidePot(w[i], w, k) - OfSidePot(w[j], w, k)
               \in 0..(IF Due(k, w) > 0 THEN 1 ELSE 0)
  <2>1. CASE Due(k, w) > 0
    <3>1. OfSidePot(w[i], w, k) - OfSidePot(w[j], w, k) \in 0..1
      BY <1>2, <2>1 DEF Split, OfSidePot
    <3> QED
      BY <2>1, <3>1
  <2>2. CASE ~(Due(k, w) > 0)
    <3>1. Due(k, w) = 0
      BY <2>2, DueIsPaid
    <3>2. OfSidePot(w[i], w, k) = 0 /\ OfSidePot(w[j], w, k) = 0
      BY <1>4, <3>1, GainsAre
    <3> QED
      BY <2>2, <3>2
  <2> QED
    BY <2>1, <2>2
<1> QED
  BY <1>5, <1>6

LEMMA PayoutStep ==
  ASSUME CoreInv, NEW w \in WinnerLists, DistributePot(w)
  PROVE  /\ (stack'[players[1]] - stack[players[1]]) + (stack'[players[2]] - stack[players[2]])
              = pot + Due(1, w) + Due(2, w)
         /\ \A p \in Players \ ToSet(w) : stack'[p] - stack[p] = 0
         /\ \A i, j \in DOMAIN w :
              /\ i < j
              /\ \A k \in Seats : Due(k, w) > 0 => ToSet(w) \subseteq side_pots[k].eligible
              => (stack'[w[i]] - stack[w[i]]) - (stack'[w[j]] - stack[w[j]])
                   \in 0..(1 + PotsPaid(w))
         /\ pot' = 0
         /\ \A k \in Seats : side_pots'[k] = IF Due(k, w) > 0 THEN NoPot ELSE side_pots[k]
<1>1. InPlay /\ pot' = 0
      /\ side_pots' = [k \in Seats |-> IF Paid(k, w) THEN NoPot ELSE side_pots[k]]
  BY DEF DistributePot
<1>2. \A p \in Players :
        /\ stack[p] \in Nat /\ OfPot(p, w) \in Nat
        /\ OfSidePot(p, w, 1) \in Nat /\ OfSidePot(p, w, 2) \in Nat
        /\ stack'[p] - stack[p] = OfPot(p, w) + OfSidePot(p, w, 1) + OfSidePot(p, w, 2)
  BY GainsAre
<1>3. (stack'[players[1]] - stack[players[1]]) + (stack'[players[2]] - stack[players[2]])
        = pot + Due(1, w) + Due(2, w)
  <2>1. players[1] \in Players /\ players[2] \in Players
    BY <1>1, TwoPlay DEF CoreInv
  <2>2. /\ OfPot(players[1], w) + OfPot(players[2], w) = pot
        /\ OfSidePot(players[1], w, 1) + OfSidePot(players[2], w, 1) = Due(1, w)
        /\ OfSidePot(players[1], w, 2) + OfSidePot(players[2], w, 2) = Due(2, w)
    BY GainsAre DEF Seats
  <2> QED
    BY <1>2, <2>1, <2>2
<1>4. \A p \in Players \ ToSet(w) : stack'[p] - stack[p] = 0
  BY <1>2, GainsAre
<1>5. ASSUME NEW i \in DOMAIN w, NEW j \in DOMAIN w, i < j,
             \A k \in Seats : Due(k, w) > 0 => ToSet(w) \subseteq side_pots[k].eligible
      PROVE  (stack'[w[i]] - stack[w[i]]) - (stack'[w[j]] - stack[w[j]]) \in 0..(1 + PotsPaid(w))
  <2>1. w[i] \in Players /\ w[j] \in Players
    <3>1. ToSet(w) \subseteq Playing /\ w[i] \in ToSet(w) /\ w[j] \in ToSet(w)
      BY <1>1, OneOrBoth DEF ToSet
    <3> QED
      BY <1>1, <3>1, TwoPlay DEF CoreInv
  <2>2. /\ OfPot(w[i], w) - OfPot(w[j], w) \in 0..1
        /\ \A k \in Seats :
             OfSidePot(w[i], w, k) - OfSidePot(w[j], w, k)
               \in 0..(IF Due(k, w) > 0 THEN 1 ELSE 0)
    BY <1>5, OddChips
  <2>3. /\ OfSidePot(w[i], w, 1) - OfSidePot(w[j], w, 1) \in 0..(IF Due(1, w) > 0 THEN 1 ELSE 0)
        /\ OfSidePot(w[i], w, 2) - OfSidePot(w[j], w, 2) \in 0..(IF Due(2, w) > 0 THEN 1 ELSE 0)
    BY <2>2 DEF Seats
  <2>4. PotsPaid(w) = (IF Due(1, w) > 0 THEN 1 ELSE 0) + (IF Due(2, w) > 0 THEN 1 ELSE 0)
    <3>1. Due(1, w) \in Nat /\ Due(2, w) \in Nat
      BY DueIsPaid DEF Seats
    <3> QED
      BY <3>1, PotsPaidCounted
  <2>5. ASSUME NEW x \in Int, NEW y \in Int, NEW z \in Int, NEW b \in {0, 1}, NEW c \in {0, 1},
               x \in 0..1, y \in 0..b, z \in 0..c
        PROVE  x + y + z \in 0..(1 + (b + c))
    BY <2>5
  <2>6. (stack'[w[i]] - stack[w[i]]) - (stack'[w[j]] - stack[w[j]])
          = (OfPot(w[i], w) - OfPot(w[j], w)) + (OfSidePot(w[i], w, 1) - OfSidePot(w[j], w, 1))
              + (OfSidePot(w[i], w, 2) - OfSidePot(w[j], w, 2))
    BY <1>2, <2>1
  <2> QED
    BY <2>2, <2>3, <2>4, <2>6
<1>6. \A k \in Seats : side_pots'[k] = IF Due(k, w) > 0 THEN NoPot ELSE side_pots[k]
  BY <1>1, DueIsPaid
<1> QED
  BY <1>1, <1>3, <1>4, <1>5, <1>6

\* distributePot, for whatever winners, bets, folds and side pots: the players
\* of the hand gain the pot and the side pots that are due, to the last chip,
\* nobody else gains, and a split is even up to the odd chip of each pot.
THEOREM PayoutsTheorem == Spec => PayoutsExact
<1>1. CoreInv /\ [Next]_vars =>
        [\A w \in WinnerLists : DistributePot(w) =>
           LET gain(p) == stack'[p] - stack[p]
           IN /\ gain(players[1]) + gain(players[2]) = pot + Due(1, w) + Due(2, w)
              /\ \A p \in Players \ ToSet(w) : gain(p) = 0
              /\ \A i, j \in DOMAIN w :
                   /\ i < j
                   /\ \A k \in Seats : Due(k, w) > 0 => ToSet(w) \subseteq side_pots[k].eligible
                   => gain(w[i]) - gain(w[j]) \in 0..(1 + Cardinality({k \in Seats : Due(k, w) > 0}))
              /\ pot' = 0
              /\ \A k \in Seats : side_pots'[k] = IF Due(k, w) > 0 THEN NoPot ELSE side_pots[k]]_vars
  BY PayoutStep DEF PotsPaid
<1> QED
  BY <1>1, AlwaysCore, PTL DEF PayoutsExact, Spec

-----------------------------------------------------------------------------
(* The winner                                                              *)

\* What a player holds with the board, once the flop is dealt, can be evaluated.
LEMMA HandsCanBeEvaluated ==
  ASSUME CoreInv, InPlay, Cardinality(community) >= 3, NEW p \in Playing
  PROVE  CardsOf(p) \in SUBSET AllCards /\ CanEvaluate(CardsOf(p))
<1>1. PICK q \in Playing : Playing = {p, q}
  BY TwoPlay DEF CoreInv
<1>2. /\ Cardinality(hole[p]) = 2 /\ Cardinality(hole[q]) = 2
      /\ Cardinality(community \cup (hole[p] \cup hole[q])) = Cardinality(community) + 4
      /\ Cardinality(community) \in {0, 3, 4, 5}
  <2>1. DealtOnce /\ round \in 0..4
    BY DealtInOrderIsOnce DEF CoreInv, DealtInOrder, SHOWDOWN
  <2>2. UNION {hole[x] : x \in Playing} = hole[p] \cup hole[q]
    BY <1>1
  <2> QED
    BY <2>1, <2>2 DEF DealtOnce
<1>3. hole[p] \subseteq AllCards /\ hole[q] \subseteq AllCards /\ community \subseteq AllCards
  <2>1. CTypeOK /\ p \in Players /\ q \in Players
    BY <1>1, CoreIsTyped, TwoPlay DEF CoreInv
  <2> QED
    BY <2>1 DEF CTypeOK, AllCards
<1>4. IsFiniteSet(hole[p]) /\ IsFiniteSet(hole[q]) /\ IsFiniteSet(community)
  BY <1>3, CardsFinite
<1>5. /\ IsFiniteSet(hole[p] \cup community) /\ Cardinality(hole[p] \cup community) \in Nat
      /\ Cardinality(hole[p] \cup community) <= 2 + Cardinality(community)
  BY <1>2, <1>4, Union
<1>6. Cardinality((hole[p] \cup community) \cup hole[q]) <= Cardinality(hole[p] \cup community) + 2
  <2> DEFINE mine == hole[p] \cup community
  <2>1. IsFiniteSet(mine) /\ IsFiniteSet(hole[q]) /\ Cardinality(hole[q]) = 2
    BY <1>2, <1>4, <1>5
  <2> HIDE DEF mine
  <2>2. Cardinality(mine \cup hole[q]) <= Cardinality(mine) + 2
    BY <2>1, Union
  <2> QED
    BY <2>2 DEF mine
<1>7. (hole[p] \cup community) \cup hole[q] = community \cup (hole[p] \cup hole[q])
  OBVIOUS
<1>8. Cardinality(hole[p] \cup community) \in 5..7
  BY <1>2, <1>5, <1>6, <1>7
<1> QED
  BY <1>3, <1>8 DEF CardsOf, CanEvaluate

LEMMA CoreWinner == CoreInv => WinnerIsBest
<1> SUFFICES ASSUME CoreInv, WinnersKnown
             PROVE  /\ ToSet(Winners) \subseteq {players[i] : i \in Active}
                    /\ Active # {} => Winners # <<>>
                    /\ Cardinality(Active) = 2 =>
                         \A p \in Playing, w \in ToSet(Winners) :
                           Category(CardsOf(w)) >= Category(CardsOf(p))
  BY DEF WinnerIsBest
<1>1. /\ InPlay /\ Playing = {players[1], players[2]}
      /\ Cardinality(Active) = 2 => Cardinality(community) >= 3
  BY TwoPlay DEF WinnersKnown, CoreInv
<1>2. \A x : ToSet(<<x>>) = {x} /\ <<x>> # <<>>
  BY DEF ToSet
<1>3. CASE Active = {}
  <2>1. Winners = <<>> /\ Cardinality(Active) = 0
    BY <1>3, SmallSets DEF Winners
  <2>2. ToSet(<<>>) = {}
    BY DEF ToSet
  <2> QED
    BY <1>3, <2>1, <2>2
<1>4. ASSUME NEW i \in Seats, Active = {i}
      PROVE  Winners = <<players[i]>> /\ Cardinality(Active) = 1
  <2>1. Min({i}) = i
    <3>1. i \in Int
      BY DEF Seats
    <3> QED
      BY <3>1 DEF Min
  <2> QED
    BY <1>4, <2>1, SmallSets DEF Winners
<1>5. ASSUME Active = {1, 2}
      PROVE  /\ Winners = <<players[1]>> \/ Winners = <<players[2]>>
             /\ \A p \in Playing, w \in ToSet(Winners) :
                  Category(CardsOf(w)) >= Category(CardsOf(p))
  <2>1. Cardinality(Active) = 2
    BY <1>5, SmallSets
  <2>2. Winners = IF Ahead(1, 2) THEN <<players[1]>> ELSE <<players[2]>>
    BY <1>5, <2>1 DEF Winners
  <2>3. \A p \in Playing :
          /\ Evaluate(CardsOf(p)) = Category(CardsOf(p))
          /\ Category(CardsOf(p)) \in 0..9
    BY <1>1, <2>1, HandsCanBeEvaluated, EvaluateIsCategory, CategoryIsTheBestMade
  <2>4. /\ Category(CardsOf(players[1])) \in 0..9 /\ Category(CardsOf(players[2])) \in 0..9
        /\ Ahead(1, 2) <=> Category(CardsOf(players[1])) >= Category(CardsOf(players[2]))
    BY <1>1, <2>3 DEF Ahead
  <2>5. CASE Ahead(1, 2)
    BY <1>1, <1>2, <2>2, <2>4, <2>5
  <2>6. CASE ~Ahead(1, 2)
    BY <1>1, <1>2, <2>2, <2>4, <2>6
  <2> QED
    BY <2>5, <2>6
<1>6. Active = {} \/ (\E i \in Seats : Active = {i}) \/ Active = {1, 2}
  BY DEF Active, Seats
<1>7. CASE \E i \in Seats : Active = {i}
  <2>1. PICK i \in Seats : Active = {i}
    BY <1>7
  <2>2. Winners = <<players[i]>> /\ Cardinality(Active) = 1
    BY <1>4, <2>1
  <2> QED
    BY <1>2, <2>1, <2>2
<1>8. CASE Active = {1, 2}
  <2>1. {players[i] : i \in Active} = {players[1], players[2]}
    BY <1>8
  <2> QED
    BY <1>2, <1>5, <1>8, <2>1
<1> QED
  BY <1>3, <1>6, <1>7, <1>8

\* determineWinners, for all cards dealt: the winner is in the hand, and of two
\* who are in no category of all their cards is better than the winner's.
THEOREM WinnerTheorem == Spec => []WinnerIsBest
BY AlwaysCore, CoreWinner, PTL

LEMMA CoreCompare == CoreInv => CompareFollowsRules
<1> DEFINE mine == CardsOf(players[1])
           yours == CardsOf(players[2])
           verdict == Compare(mine, yours)
           rules == RuleOrder(mine, yours)
<1> SUFFICES ASSUME CoreInv, InPlay, round > 0
             PROVE  /\ verdict > 0 => rules > 0
                    /\ verdict < 0 => rules < 0
                    /\ verdict = 0 => rules = 0 \/ Category(mine) = FLUSH
  BY DEF CompareFollowsRules
<1>1. players[1] \in Playing /\ players[2] \in Playing
  BY TwoPlay DEF CoreInv
<1>2. Cardinality(community) >= 3
  <2>1. DealtOnce /\ round \in 1..4
    BY DealtInOrderIsOnce DEF CoreInv, DealtInOrder, SHOWDOWN
  <2> QED
    BY <2>1 DEF DealtOnce
<1>3. /\ mine \in SUBSET AllCards /\ CanEvaluate(mine)
      /\ yours \in SUBSET AllCards /\ CanEvaluate(yours)
  BY <1>1, <1>2, HandsCanBeEvaluated
<1> HIDE DEF mine, yours
<1>4. \/ verdict = rules
      \/ verdict = 0 /\ Category(mine) = FLUSH
  BY <1>3, CompareIsRuleOrder
<1> HIDE DEF verdict, rules
<1> QED
  BY <1>4

\* HandRanking::compare, for all cards dealt: of two hands at the table it calls
\* none better that the rules do not, and misses a difference only of two flushes.
THEOREM CompareTheorem == Spec => []CompareFollowsRules
BY AlwaysCore, CoreCompare, PTL

=============================================================================
