----------------------------- MODULE TableManager -----------------------------
(***************************************************************************)
(* The table of the heads-up server: server/table_manager.cpp with the     *)
(* parts of server/player_action.cpp, core/hand.cpp, core/pot.cpp and      *)
(* core/models that it calls.                                              *)
(*                                                                         *)
(* The whole table is one record, and every operation of the class is an   *)
(* operator from a table to a table, so that a caller that makes several   *)
(* calls in one handler (GameSession) composes them in one step.  The      *)
(* specification below is the component on its own: any public operation,  *)
(* in any order, with the connection changes that other classes make to    *)
(* the Player objects it shares with them.                                 *)
(***************************************************************************)
EXTENDS Integers

CONSTANTS
  Players,          \* player ids (UUIDs handed out by sendWelcome)
  NoPlayer,         \* nullptr in seat_1 / seat_2
  Freed,            \* a Player* whose object was destroyed
  NoHand,           \* current_hand == nullptr
  Amounts,          \* the int amounts a client may send
  StartingStack,    \* STARTING_STACK
  TargetStack,      \* TARGET_STACK
  TopUpThreshold,   \* TOP_UP_THRESHOLD
  BigBlind,         \* BIG_BLIND
  MaxHands,         \* bound: hands started
  MaxBank           \* bound: chips ever bought and still accounted for

ASSUME PlayersAssumption == NoPlayer \notin Players /\ Freed \notin Players
ASSUME AmountsAssumption == Amounts \subseteq Int
ASSUME ChipsAssumption ==
  /\ StartingStack \in Nat
  /\ TargetStack \in Nat
  /\ TopUpThreshold \in Nat
  /\ TopUpThreshold <= TargetStack
  /\ BigBlind \in Nat \ {0}

VARIABLE table

-----------------------------------------------------------------------------
(* Types.  Seats are SEAT_1 = 0 and SEAT_2 = 1; a hand refers to its two   *)
(* players by the same index, because startHand lists {seat_1, seat_2}.    *)

Seats == {0, 1}
Other(s) == 1 - s

Pointers == Players \cup {Freed}

\* folded is a vector<bool> grown on demand: sized is its size, folded the
\* indices that hold true.  turn is the index of current_player_to_act.
Hands == [number: Nat, players: [Seats -> Pointers], folded: SUBSET Seats,
          sized: 0..2, bets: [Seats -> Nat], turn: Seats, min_raise: Nat, pot: Nat]

ASSUME NoHandAssumption == NoHand \notin Hands

Statuses == {"CONNECTED", "DISCONNECTED"}

Tables == [seat: [Seats -> Players \cup {NoPlayer}], roster: SUBSET Players,
           stack: [Players -> Nat], status: [Players -> Statuses],
           sitting_out: [Players -> BOOLEAN],
           hand: Hands \cup {NoHand}, started: Nat, pot: Nat, dealer: Seats,
           state: {"WAITING_FOR_PLAYERS", "HAND_IN_PROGRESS"},
           bank: Nat, burned: Nat]

\* The table the constructor builds.  bank and burned are history: the chips
\* bought in and not cashed out, and the chips of a pot nobody received.
EmptyTable ==
  [seat |-> [s \in Seats |-> NoPlayer], roster |-> {},
   stack |-> [p \in Players |-> 0], status |-> [p \in Players |-> "CONNECTED"],
   sitting_out |-> [p \in Players |-> FALSE],
   hand |-> NoHand, started |-> 0, pot |-> 0, dealer |-> 0,
   state |-> "WAITING_FOR_PLAYERS", bank |-> 0, burned |-> 0]

-----------------------------------------------------------------------------
(* Seats                                                                   *)

\* Mutant: the scan of players_ is dropped, so a player can take both seats.
CanAssignSeatTwice(t, p, s) == t.seat[s] = NoPlayer

CanAssignSeat(t, p, s) == t.seat[s] = NoPlayer /\ p \notin t.roster

\* handleJoin builds the Player with STARTING_STACK, connected and not sitting out.
Seated(t, p, s) ==
  [t EXCEPT !.seat[s] = p, !.roster = @ \cup {p}, !.stack[p] = StartingStack,
            !.status[p] = "CONNECTED", !.sitting_out[p] = FALSE,
            !.bank = @ + StartingStack]

\* Erasing the shared_ptr destroys the Player; a running hand keeps its pointer.
Dangling(h, p) ==
  IF h = NoHand THEN NoHand
  ELSE [h EXCEPT !.players = [s \in Seats |-> IF h.players[s] = p THEN Freed ELSE h.players[s]]]

Removed(t, p) ==
  [t EXCEPT !.seat = [s \in Seats |-> IF t.seat[s] = p THEN NoPlayer ELSE t.seat[s]],
            !.roster = @ \ {p}, !.stack[p] = 0, !.bank = @ - t.stack[p],
            !.status[p] = "CONNECTED", !.sitting_out[p] = FALSE,
            !.hand = Dangling(t.hand, p)]

\* A new Player may be allocated at the address of a destroyed one: the hand's
\* dangling pointer s then points to the newcomer.
Reused(h, p, s) == [h EXCEPT !.players[s] = p]

-----------------------------------------------------------------------------
(* Stacks and connections of the shared Player objects                     *)

\* Mutant: topUp without needsTopUp sets a rich stack back to the target.
ToppedUpAlways(chips) == TargetStack

ToppedUp(chips) == IF chips < TopUpThreshold THEN TargetStack ELSE chips

PlayerToppedUp(t, p) ==
  [t EXCEPT !.stack[p] = ToppedUp(@), !.bank = @ + ToppedUp(t.stack[p]) - t.stack[p]]

PlayerDisconnected(t, p) ==
  [t EXCEPT !.status[p] = "DISCONNECTED", !.sitting_out[p] = FALSE]

\* Mutant: is_sitting_out is not reset.
PlayerReconnectedSittingOut(t, p) == [t EXCEPT !.status[p] = "CONNECTED"]

PlayerReconnected(t, p) ==
  [t EXCEPT !.status[p] = "CONNECTED", !.sitting_out[p] = FALSE]

PlayerSatOut(t, p) == [t EXCEPT !.sitting_out[p] = TRUE]

-----------------------------------------------------------------------------
(* Hands                                                                   *)

ReadyForHand(t) ==
  t.state = "WAITING_FOR_PLAYERS" /\ \A s \in Seats : t.seat[s] # NoPlayer

\* No blinds are posted, and folded and player_bets start empty.
HandStarted(t) ==
  [t EXCEPT !.hand = [number |-> t.started + 1, players |-> t.seat, folded |-> {},
                      sized |-> 0, bets |-> [s \in Seats |-> 0],
                      turn |-> Other(t.dealer), min_raise |-> BigBlind, pot |-> 0],
            !.started = @ + 1, !.pot = 0, !.state = "HAND_IN_PROGRESS"]

\* player_action::canAct
CanAct(t, p) ==
  /\ t.status[p] = "CONNECTED"
  /\ ~t.sitting_out[p]
  /\ \E s \in Seats \ t.hand.folded : t.hand.players[s] = p

\* Mutant: a raise may exceed the stack.
AffordableCalls(t, p, action, amount) == action = "call" => amount <= t.stack[p]

\* A call is not compared with the bet it calls.
Affordable(t, p, action, amount) == action # "fold" => amount <= t.stack[p]

\* Mutant: current_player_to_act is not compared.
HasTurnAlways(t, p) == TRUE

HasTurn(t, p) == t.hand.players[t.hand.turn] = p

\* player_action::validateAction
ValidAction(t, p, action, amount) ==
  /\ CanAct(t, p)
  /\ action \in {"fold", "call", "raise"}
  /\ amount >= 0
  /\ action = "fold" => amount = 0
  /\ Affordable(t, p, action, amount)
  /\ action = "raise" => amount >= t.hand.min_raise
  /\ HasTurn(t, p)

\* Mutant: the resize compares with < instead of <=.
GrownShort(size, s) == IF size < s THEN s + 1 ELSE size

\* folded.resize(i + 1) when the vector is too short
Grown(size, s) == IF size <= s THEN s + 1 ELSE size

HandFolded(h) ==
  [h EXCEPT !.folded = @ \cup {h.turn}, !.sized = Grown(@, h.turn), !.turn = Other(@)]

HandPaid(h, action, amount) ==
  [h EXCEPT !.pot = @ + amount, !.bets[h.turn] = @ + amount,
            !.min_raise = IF action = "raise" THEN amount ELSE @,
            !.turn = Other(@)]

\* Mutant: table_.pot is not refreshed from the hand's pot.
ActedStalePot(t, p, action, amount) ==
  LET h == IF action = "fold" THEN HandFolded(t.hand) ELSE HandPaid(t.hand, action, amount)
  IN [t EXCEPT !.hand = h, !.stack[p] = @ - amount]

\* player_action::applyAction, then table_.pot = hand->pot; a fold's amount is 0
Acted(t, p, action, amount) ==
  LET h == IF action = "fold" THEN HandFolded(t.hand) ELSE HandPaid(t.hand, action, amount)
  IN [t EXCEPT !.hand = h, !.stack[p] = @ - amount, !.pot = h.pot]

\* poker::determineWinners, as the set of winning indices: with both players in
\* it evaluates two hole cards and no board, which throws.
Active(h) == Seats \ h.folded
ShowdownThrows(h) == h.folded = {}

\* Mutant: the test of folded[i] is inverted, so the folded player is paid.
PotReceiverFolded(h) == {h.players[s] : s \in h.folded} \ {Freed}

\* pot::distributePot with at most one winner and no side pots: the pot goes to
\* the winner; without one, or with a destroyed one, no stack receives it.
PotReceiver(h) == {h.players[s] : s \in Active(h)} \ {Freed}

\* Mutant: a side pot equal to the main pot is paid on top of it.
WonTwice(t, p) == IF p \in PotReceiver(t.hand) THEN t.stack[p] + 2 * t.hand.pot ELSE t.stack[p]

Won(t, p) == IF p \in PotReceiver(t.hand) THEN t.stack[p] + t.hand.pot ELSE t.stack[p]

\* Mutant: the dealer button stays where it is.
NextDealerSame(d) == d

NextDealer(d) == Other(d)

\* TableManager::endHand once the winners are known; every seated player is
\* topped up, winner or not.
HandEnded(t) ==
  LET after == [p \in Players |-> IF p \in t.roster THEN ToppedUp(Won(t, p)) ELSE t.stack[p]]
      bought(s) == IF t.seat[s] = NoPlayer THEN 0
                   ELSE after[t.seat[s]] - Won(t, t.seat[s])
  IN [t EXCEPT !.stack = after, !.bank = @ + bought(0) + bought(1),
               !.burned = IF PotReceiver(t.hand) = {} THEN @ + t.hand.pot ELSE @,
               !.hand = NoHand, !.pot = 0, !.state = "WAITING_FOR_PLAYERS",
               !.dealer = NextDealer(@)]

-----------------------------------------------------------------------------
(* The operations as actions                                               *)

Init == table = EmptyTable

AssignSeat(p, s) ==
  /\ CanAssignSeat(table, p, s)
  /\ Seated(table, p, s).bank <= MaxBank
  /\ \/ table' = Seated(table, p, s)
     \/ /\ table.hand # NoHand
        /\ \E i \in Seats :
             /\ table.hand.players[i] = Freed
             /\ table' = [Seated(table, p, s) EXCEPT !.hand = Reused(table.hand, p, i)]

RemovePlayer(p) ==
  /\ p \in table.roster
  /\ table' = Removed(table, p)

StartHand ==
  /\ ReadyForHand(table)
  /\ table.hand = NoHand
  /\ table.started < MaxHands
  /\ table' = HandStarted(table)

EndHand ==
  /\ table.hand # NoHand
  /\ ~ShowdownThrows(table.hand)
  /\ HandEnded(table).bank <= MaxBank
  /\ table' = HandEnded(table)

ProcessPlayerAction(p, action, amount) ==
  /\ table.hand # NoHand
  /\ p \in table.roster
  /\ ValidAction(table, p, action, amount)
  /\ table' = Acted(table, p, action, amount)

TopUp(p) ==
  /\ p \in table.roster
  /\ PlayerToppedUp(table, p).bank <= MaxBank
  /\ table' = PlayerToppedUp(table, p)

ConnectionChange(p) ==
  /\ p \in table.roster
  /\ \/ table' = PlayerDisconnected(table, p)
     \/ table' = PlayerReconnected(table, p)
     \/ table' = PlayerSatOut(table, p)

Next ==
  \/ \E p \in Players, s \in Seats : AssignSeat(p, s)
  \/ \E p \in Players : RemovePlayer(p)
  \/ StartHand
  \/ EndHand
  \/ \E p \in Players, a \in {"fold", "call", "raise"}, n \in Amounts :
       ProcessPlayerAction(p, a, n)
  \/ \E p \in Players : TopUp(p)
  \/ \E p \in Players : ConnectionChange(p)

Spec == Init /\ [][Next]_table


-----------------------------------------------------------------------------
(* Properties                                                              *)

\* The chips in front of seat s, and in the pot of the running hand.
ChipsAt(t, s) == IF t.seat[s] = NoPlayer THEN 0 ELSE t.stack[t.seat[s]]
PotOf(t) == IF t.hand = NoHand THEN 0 ELSE t.hand.pot

TypeOK == table \in Tables

Conserved(t) == t.bank = ChipsAt(t, 0) + ChipsAt(t, 1) + PotOf(t) + t.burned

\* assignSeat, processPlayerAction, endHand, topUp: every chip ever bought is in
\* a seated stack, in the pot of the running hand, or burned with a pot that
\* found no receiver.
ChipsConserved == Conserved(table)

SeatsInStep(t) ==
  /\ t.roster = {t.seat[s] : s \in Seats} \ {NoPlayer}
  /\ t.seat[0] = t.seat[1] => t.seat[0] = NoPlayer

\* assignSeat and removePlayer keep players_ and the two seat pointers in step:
\* a registered player holds exactly one seat, and no seat holds a stranger.
SeatsMatchRoster == SeatsInStep(table)

PotInStep(t) ==
  /\ t.pot = PotOf(t)
  /\ (t.state = "HAND_IN_PROGRESS") <=> (t.hand # NoHand)
  /\ t.hand # NoHand => t.hand.pot = t.hand.bets[0] + t.hand.bets[1]

\* startHand, applyAction and endHand keep the copies of the money bet in a hand
\* (the bets, the hand's pot, the table's pot) and the state flag in agreement.
PotMatchesBets == PotInStep(table)

HandLive(t) ==
  t.hand # NoHand =>
    /\ \A s \in Seats : t.hand.players[s] \in t.roster \cup {Freed}
    /\ t.hand.players[0] = t.hand.players[1] => t.hand.players[0] = Freed
    /\ \A s \in t.hand.folded : s < t.hand.sized
    /\ t.hand.min_raise >= BigBlind

\* startHand, removePlayer, applyAction: a hand's pointers are two different
\* objects, each registered unless destroyed; a folded player lies within the
\* grown vector, and the minimum raise never drops below the big blind.
HandPlayersLive == HandLive(table)

\* The button has moved once per finished hand (an inductive companion of
\* OpenerAlternates).
ButtonInStep(t) ==
  LET finished == t.started - IF t.hand = NoHand THEN 0 ELSE 1
  IN /\ finished \in Nat
     /\ t.dealer = finished % 2
     /\ t.hand # NoHand => t.hand.number = t.started

\* The inductive invariant.
Sound(t) ==
  /\ t \in Tables
  /\ Conserved(t)
  /\ SeatsInStep(t)
  /\ PotInStep(t)
  /\ HandLive(t)
  /\ ButtonInStep(t)

\* startHand and endHand: the player who opens the betting alternates, hand
\* after hand, whatever happens in between.
OpenerAlternates ==
  [][table.hand = NoHand /\ table'.hand # NoHand =>
       table'.hand.turn = table'.hand.number % 2]_table

SameHand == table.hand # NoHand /\ table'.hand # NoHand /\ table'.hand.number = table.hand.number

\* validateAction, applyAction: a seated stack shrinks only while its owner is
\* the connected, unfolded player to act, by exactly what the pot grows, and a
\* raise never lowers the next minimum raise.
OnlyTurnPays ==
  [][\A p \in table.roster \cap table'.roster :
       table'.stack[p] < table.stack[p] =>
         /\ SameHand
         /\ CanAct(table, p)
         /\ table.hand.players[table.hand.turn] = p
         /\ table'.hand.turn # table.hand.turn
         /\ table'.hand.pot - table.hand.pot = table.stack[p] - table'.stack[p]
         /\ table'.hand.min_raise >= table.hand.min_raise]_table

\* determineWinners, distributePot: when a hand ends with a live unfolded
\* player, that player's stack grows by at least the pot, no chip is burned,
\* and a folded player is never paid: he gains at most a top-up.
PotGoesToTheUnfolded ==
  [][table.hand # NoHand /\ table'.hand = NoHand =>
       \A s \in Seats :
         LET p == table.hand.players[s]
         IN p # Freed =>
              IF s \in table.hand.folded
              THEN table'.stack[p] = ToppedUp(table.stack[p])
              ELSE table'.stack[p] >= table.stack[p] + table.hand.pot
                   /\ table'.burned = table.burned]_table

\* The table implements the chip ledger.
Ledger == INSTANCE ChipLedger WITH
  held <- [s \in Seats |-> ChipsAt(table, s)],
  pot <- PotOf(table),
  burned <- table.burned
LedgerSpec == Ledger!Spec

=============================================================================
