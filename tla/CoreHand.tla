------------------------------- MODULE CoreHand -------------------------------
(***************************************************************************)
(* A hand of cards: core/hand.cpp with core/pot.cpp and core/deck.cpp.  The*)
(* server calls isHandComplete, determineWinners and distributePot; the    *)
(* rest is played by the integration tests, which call everything below in *)
(* any order once the hand has started, out of turn and after folds too.   *)
(* One Hand object is used over and over, reset in between or not.         *)
(***************************************************************************)
EXTENDS HandRanking

CONSTANTS
  Players,
  Decks,           \* the shuffles: sequences of distinct cards
  StartingStack,   \* the stack of each player
  BigBlind,
  Amounts,         \* the amounts of actions
  MaxHands,        \* bound: hands started
  MaxActions,      \* bound: actions applied
  MaxChips         \* bound: chips in the stacks, which side pots multiply

ASSUME CoreAssumption ==
  /\ StartingStack \in [Players -> Nat]
  /\ BigBlind \in Nat \ {0}
  /\ Amounts \subseteq Int
  /\ MaxHands \in Nat /\ MaxActions \in Nat
  /\ Decks \subseteq Seq(Ranks \X Suits)
  /\ \A d \in Decks : Len(d) >= 9 /\ IsInjective(d)

VARIABLES
  stack, hole,     \* Player::stack, Player::hole_cards
  players,         \* Hand::players: <<>> before the first hand and after a reset
  deck, next,      \* Hand::deck, its next_card_ as the number of cards dealt; between
                   \* hands <<>> stands for the deck that startHand will replace
  community,       \* Hand::community_cards
  pot, bets,       \* Hand::pot, Hand::player_bets
  side_pots,       \* Hand::side_pots by layers of the bets, the lower bet's first;
                   \* a layer without chips is no element of the vector
  folded,          \* the players whose entry in Hand::folded is true
  round,           \* current_betting_round: 0 PREFLOP to 4 SHOWDOWN
  turn,            \* current_player_to_act, as an index of players
  min_raise,
  hands, actions,  \* counts, for the bounds
  fresh,           \* history: the hand started from empty vectors
  paid             \* history: what this hand's main pot has paid

cards == <<hole, deck, next, community, round>>
money == <<stack, pot, bets, side_pots, paid>>
vars == <<cards, money, players, folded, turn, min_raise, hands, actions, fresh>>

SHOWDOWN == 4
Seats == {1, 2}
Playing == ToSet(players)
InPlay == players # <<>>
Total(f) == MapThenSumSet(LAMBDA i : f[i], DOMAIN f)

NoPot == [amount |-> 0, eligible |-> {}]
NoSidePots == [k \in Seats |-> NoPot]

Init ==
  /\ stack = StartingStack
  /\ hole = [p \in Players |-> {}]
  /\ players = <<>> /\ folded = {} /\ bets = [i \in Seats |-> 0]
  /\ deck = <<>> /\ next = 0 /\ community = {} /\ round = 0
  /\ pot = 0 /\ side_pots = NoSidePots /\ turn = 1 /\ min_raise = BigBlind
  /\ hands = 0 /\ actions = 0 /\ fresh = TRUE /\ paid = 0

-----------------------------------------------------------------------------
(* Dealing                                                                 *)

\* n cards of d after the first k
Cards(d, k, n) == {d[i] : i \in (k + 1)..(k + n)}

\* Mutant: the hole cards come from a copy of the hand's deck.
AfterHoleCardsCopied == 0

\* dealHoleCards takes four cards off the hand's own deck.
AfterHoleCards == 4

\* resize keeps what player_bets and folded hold of an earlier hand.
StartHand(small_blind, big_blind) ==
  /\ small_blind # big_blind
  /\ hands < MaxHands
  /\ players' = <<small_blind, big_blind>>
  /\ \E d \in Decks :
       /\ deck' = d
       /\ hole' = [hole EXCEPT ![small_blind] = Cards(d, 0, 2), ![big_blind] = Cards(d, 2, 2)]
  /\ next' = AfterHoleCards
  /\ community' = {} /\ round' = 0
  /\ pot' = 0 /\ side_pots' = NoSidePots /\ turn' = 1 /\ min_raise' = BigBlind
  /\ hands' = hands + 1 /\ paid' = 0
  /\ fresh' = (players = <<>>)
  /\ UNCHANGED <<stack, bets, folded, actions>>

\* dealCommunityCards after Hand::advanceRound
Dealt(r) == CASE r = 1 -> 3 [] r \in {2, 3} -> 1 [] OTHER -> 0

AdvanceBettingRound ==
  /\ InPlay
  /\ round < SHOWDOWN
  /\ round' = round + 1
  /\ community' = community \cup Cards(deck, next, Dealt(round'))
  /\ next' = next + Dealt(round')
  /\ UNCHANGED <<hole, deck, money, players, folded, turn, min_raise, hands, actions, fresh>>

ResetHand ==
  /\ InPlay
  /\ players' = <<>> /\ folded' = {} /\ bets' = [i \in Seats |-> 0]
  /\ deck' = <<>> /\ next' = 0 /\ community' = {} /\ round' = 0
  /\ pot' = 0 /\ side_pots' = NoSidePots /\ turn' = 1 /\ min_raise' = BigBlind
  /\ paid' = 0
  /\ UNCHANGED <<stack, hole, hands, actions, fresh>>

-----------------------------------------------------------------------------
(* Actions                                                                 *)

Seat(p) == CHOOSE i \in Seats : players[i] = p

\* The history entry is left out; the turn passes whoever acted.
Applied ==
  /\ InPlay /\ actions < MaxActions
  /\ actions' = actions + 1
  /\ turn' = 3 - turn
  /\ UNCHANGED <<cards, side_pots, players, hands, fresh, paid>>

Fold(p) ==
  /\ Applied
  /\ folded' = folded \cup {Seat(p)}
  /\ UNCHANGED <<stack, pot, bets, min_raise>>

\* Mutant: the amount is not compared with the stack.
PayOverdrawn(p, amount) ==
  /\ amount >= 0
  /\ stack' = [stack EXCEPT ![p] = @ - amount]
  /\ pot' = pot + amount
  /\ bets' = [bets EXCEPT ![Seat(p)] = @ + amount]

Pay(p, amount) ==
  /\ amount \in 0..stack[p]
  /\ stack' = [stack EXCEPT ![p] = @ - amount]
  /\ pot' = pot + amount
  /\ bets' = [bets EXCEPT ![Seat(p)] = @ + amount]

Call(p, amount) ==
  /\ Applied
  /\ Pay(p, amount)
  /\ UNCHANGED <<folded, min_raise>>

Raise(p, amount) ==
  /\ Applied
  /\ amount >= min_raise
  /\ Pay(p, amount)
  /\ min_raise' = amount
  /\ UNCHANGED folded

-----------------------------------------------------------------------------
(* The end of the hand                                                     *)

\* The layer of bets between two levels, owed to those who bet at least its top;
\* between equal levels there is none.
Level(below, top) ==
  LET reached == {i \in Seats : below < top /\ bets[i] >= top}
  IN [amount |-> (top - below) * Cardinality(reached), eligible |-> {players[i] : i \in reached}]

Lower == IF bets[1] <= bets[2] THEN bets[1] ELSE bets[2]
Higher == IF bets[1] <= bets[2] THEN bets[2] ELSE bets[1]

\* Mutant: every layer counts from zero.
LayersWhole == [k \in Seats |-> IF k = 1 THEN Level(0, Lower) ELSE Level(0, Higher)]

\* pot::calculateSidePots: bets sorted, one pot for each level
Layers == [k \in Seats |-> IF k = 1 THEN Level(0, Lower) ELSE Level(Lower, Higher)]

CalculateSidePots ==
  /\ InPlay
  /\ side_pots' = Layers
  /\ UNCHANGED <<cards, stack, pot, bets, paid, players, folded, turn, min_raise, hands,
                 actions, fresh>>

\* Mutant: the odd chip stays behind.
ShareEven(amount, n, ahead) == amount \div n

\* What a winner gets of an amount that n share, of whom some are listed ahead of
\* him: the odd chips go to the first.
Share(amount, n, ahead) == amount \div n + (IF ahead < amount % n THEN 1 ELSE 0)

\* Of the winners those who are eligible share.
Gain(p, amount, winners, eligible) ==
  LET sharing == {i \in DOMAIN winners : winners[i] \in eligible}
      ahead(i) == {j \in sharing : j < i}
  IN IF p \in ToSet(winners) \cap eligible
     THEN Share(amount, Cardinality(sharing),
                Cardinality(ahead(CHOOSE i \in sharing : winners[i] = p)))
     ELSE 0

\* A side pot is paid, unless nobody who won is eligible.
Paid(k, winners) == side_pots[k].eligible \cap ToSet(winners) # {}

\* pot::distributePot for winners that the caller names
DistributePot(winners) ==
  /\ InPlay
  /\ stack' = [p \in Players |->
       stack[p] + Gain(p, pot, winners, Playing)
         + Gain(p, side_pots[1].amount, winners, side_pots[1].eligible)
         + Gain(p, side_pots[2].amount, winners, side_pots[2].eligible)]
  /\ Total(stack') <= MaxChips
  /\ pot' = 0
  /\ paid' = paid + pot
  /\ side_pots' = [k \in Seats |-> IF Paid(k, winners) THEN NoPot ELSE side_pots[k]]
  /\ UNCHANGED <<cards, bets, players, folded, turn, min_raise, hands, actions, fresh>>

\* Every order of one winner or both
WinnerLists == {w \in UNION {[1..n -> Playing] : n \in Seats} : IsInjective(w)}

Next ==
  \/ \E sb, bb \in Players : StartHand(sb, bb)
  \/ AdvanceBettingRound \/ ResetHand
  \/ \E p \in Playing : Fold(p) \/ \E n \in Amounts : Call(p, n) \/ Raise(p, n)
  \/ CalculateSidePots
  \/ \E w \in WinnerLists : DistributePot(w)

Spec == Init /\ [][Next]_vars

-----------------------------------------------------------------------------
(* determineWinners                                                        *)

Active == {i \in Seats : i \notin folded}
CardsOf(p) == hole[p] \cup community

\* With both in and fewer than five cards each, evaluate throws.
WinnersKnown == InPlay /\ (Cardinality(Active) = 2 => Cardinality(community) >= 3)

Ahead(i, j) == Evaluate(CardsOf(players[i])) >= Evaluate(CardsOf(players[j]))

\* max_element takes the first of equals: there is never a second winner.
Winners ==
  CASE Active = {} -> <<>>
    [] Cardinality(Active) = 1 -> <<players[Min(Active)]>>
    [] OTHER -> IF Ahead(1, 2) THEN <<players[1]>> ELSE <<players[2]>>

-----------------------------------------------------------------------------
(* Properties                                                              *)

CTypeOK ==
  /\ stack \in [Players -> Nat]
  /\ hole \in [Players -> SUBSET (Ranks \X Suits)]
  /\ players \in Seq(Players) /\ Len(players) \in {0, 2} /\ IsInjective(players)
  /\ deck \in Decks \cup {<<>>} /\ next \in 0..9 /\ community \subseteq Ranks \X Suits
  /\ pot \in Nat /\ bets \in [Seats -> Nat] /\ paid \in Nat
  /\ side_pots \in [Seats -> [amount: Nat, eligible: SUBSET Players]]
  /\ folded \subseteq Seats /\ round \in 0..SHOWDOWN /\ turn \in Seats
  /\ min_raise >= BigBlind
  /\ hands \in 0..MaxHands /\ actions \in 0..MaxActions /\ fresh \in BOOLEAN

\* dealHoleCards, dealCommunityCards: through all rounds no card is dealt twice,
\* and what lies on the table is what the round has dealt.
DealtOnce ==
  InPlay =>
    /\ \A p \in Playing : Cardinality(hole[p]) = 2
    /\ Cardinality(community) = <<0, 3, 4, 5, 5>>[round + 1]
    /\ Cardinality(community \cup UNION {hole[p] : p \in Playing}) = Cardinality(community) + 4

\* calculateSidePots: of a hand that started from empty vectors, however it was
\* bet, folded and paid, the side pots come to all that went into the main pot,
\* and a pot with chips is owed to somebody.
SidePotsRepeatThePot ==
  [][CalculateSidePots =>
       /\ fresh => side_pots'[1].amount + side_pots'[2].amount = pot + paid
       /\ \A k \in Seats : side_pots'[k].amount > 0 => side_pots'[k].eligible # {}]_vars

\* What the winners get of a side pot
Due(k, winners) == IF Paid(k, winners) THEN side_pots[k].amount ELSE 0

\* distributePot: the winners together get the pot and the side pots one of them
\* is eligible for, to the last chip; nobody else gets anything; and of an equal
\* split the earlier winner gets at most one chip more from each.
PayoutsExact ==
  [][\A w \in WinnerLists : DistributePot(w) =>
       LET gain(p) == stack'[p] - stack[p]
       IN /\ gain(players[1]) + gain(players[2]) = pot + Due(1, w) + Due(2, w)
          /\ \A p \in Players \ ToSet(w) : gain(p) = 0
          /\ \A i, j \in DOMAIN w :
               /\ i < j
               /\ \A k \in Seats : Due(k, w) > 0 => ToSet(w) \subseteq side_pots[k].eligible
               => gain(w[i]) - gain(w[j]) \in 0..(1 + Cardinality({k \in Seats : Due(k, w) > 0}))
          /\ pot' = 0
          /\ \A k \in Seats : side_pots'[k] = IF Due(k, w) > 0 THEN NoPot ELSE side_pots[k]]_vars

\* determineWinners: the winner is in the hand, and by the rules, told of all
\* seven cards, no other player who is in has a better category.
WinnerIsBest ==
  WinnersKnown =>
    /\ ToSet(Winners) \subseteq {players[i] : i \in Active}
    /\ Active # {} => Winners # <<>>
    /\ Cardinality(Active) = 2 =>
         \A p \in Playing, w \in ToSet(Winners) : Category(CardsOf(w)) >= Category(CardsOf(p))

\* HandRanking::compare never prefers the hand that the rules do not, and ties
\* nothing that the rules tell apart, except two flushes.
CompareFollowsRules ==
  InPlay /\ round > 0 =>
    LET mine == CardsOf(players[1])
        yours == CardsOf(players[2])
        verdict == Compare(mine, yours)
        rules == RuleOrder(mine, yours)
    IN /\ verdict > 0 => rules > 0
       /\ verdict < 0 => rules < 0
       /\ verdict = 0 => rules = 0 \/ Category(mine) = FLUSH

\* SC-002: the total of the chips in play remains constant, so stacks and pot
\* never hold more than the players brought.
ChipsNeverAppear == Total(stack) + pot <= Total(StartingStack)

=============================================================================
