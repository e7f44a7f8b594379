------------------------------ MODULE MCCoreHand ------------------------------
(* Decks whose boards make every category of hand possible.  A deck is the    *)
(* small blind's two cards, the big blind's, and the board.                   *)
EXTENDS CoreHand

Stacks == [p \in Players |-> IF p = CHOOSE q \in Players : TRUE THEN 2 ELSE 4]
AmountsPaid == {-1, 1, 2, 3}

\* Ten, jack and queen of one suit: up to a royal flush
SuitedBoard == << <<8, 0>>, <<9, 0>>, <<10, 0>>, <<0, 1>>, <<1, 2>> >>
SuitedHoles ==
  << << <<11, 0>>, <<12, 0>> >>, << <<6, 0>>, <<7, 0>> >>, << <<2, 0>>, <<3, 0>> >>,
     << <<4, 0>>, <<5, 0>> >>, << <<11, 1>>, <<12, 1>> >>, << <<6, 1>>, <<7, 1>> >>,
     << <<8, 1>>, <<8, 2>> >>, << <<2, 1>>, <<3, 1>> >> >>

\* Two pairs: up to four of a kind
PairedBoard == << <<3, 1>>, <<3, 2>>, <<7, 3>>, <<7, 0>>, <<12, 2>> >>
PairedHoles ==
  << << <<3, 0>>, <<3, 3>> >>, << <<7, 1>>, <<11, 0>> >>, << <<12, 0>>, <<12, 1>> >>,
     << <<11, 1>>, <<10, 0>> >>, << <<12, 3>>, <<11, 3>> >>, << <<9, 0>>, <<9, 1>> >> >>

\* Ace to four: the wheel and the straight above it, and pairs with kickers
LowBoard == << <<12, 1>>, <<0, 2>>, <<1, 3>>, <<2, 0>>, <<11, 0>> >>
LowHoles ==
  << << <<1, 0>>, <<1, 1>> >>, << <<3, 2>>, <<8, 2>> >>, << <<3, 1>>, <<4, 1>> >>,
     << <<12, 0>>, <<9, 1>> >>, << <<12, 2>>, <<10, 1>> >>, << <<4, 0>>, <<8, 1>> >> >>

DecksOf(holes, board) ==
  {holes[i] \o holes[j] \o board :
     <<i, j>> \in {p \in (DOMAIN holes) \X (DOMAIN holes) : p[1] - p[2] \in {-1, 1}}}

AllDecks ==
  DecksOf(SuitedHoles, SuitedBoard) \cup DecksOf(PairedHoles, PairedBoard)
    \cup DecksOf(LowHoles, LowBoard)

BettingDeck == CHOOSE d \in AllDecks : TRUE

\* Every deck is dealt to the end of a first hand with one action; on one deck
\* the betting and the paying of two hands go as far as the bounds allow.
DealOrBet ==
  \/ hands <= 1 /\ actions <= 1 /\ side_pots = NoSidePots /\ paid = 0
  \/ deck \in {BettingDeck, <<>>} /\ round = 0

=============================================================================
