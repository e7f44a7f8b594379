-------------------------- MODULE TableManagerProofs --------------------------
(***************************************************************************)
(* Proofs about TableManager, for any set of players, any amounts and any  *)
(* stack sizes.  Part 1: every operation takes a table to a table.         *)
(* Part 2: every operation preserves Sound, the inductive invariant.       *)
(* Part 3: the theorems about Spec.                                        *)
(***************************************************************************)
EXTENDS TableManager, TLAPS

-----------------------------------------------------------------------------
(* Part 1: types                                                           *)

\* assignSeat
LEMMA SeatedType ==
  ASSUME NEW t \in Tables, NEW p \in Players, NEW s \in Seats
  PROVE  Seated(t, p, s) \in Tables
<1>1. /\ [t.seat EXCEPT ![s] = p] \in [Seats -> Players \cup {NoPlayer}]
      /\ t.roster \cup {p} \in SUBSET Players
      /\ [t.stack EXCEPT ![p] = StartingStack] \in [Players -> Nat]
      /\ [t.status EXCEPT ![p] = "CONNECTED"] \in [Players -> Statuses]
      /\ [t.sitting_out EXCEPT ![p] = FALSE] \in [Players -> BOOLEAN]
      /\ t.bank + StartingStack \in Nat
  BY ChipsAssumption DEF Tables, Statuses
<1>2. Seated(t, p, s) =
        [t EXCEPT !.seat = [t.seat EXCEPT ![s] = p], !.roster = t.roster \cup {p},
                  !.stack = [t.stack EXCEPT ![p] = StartingStack],
                  !.status = [t.status EXCEPT ![p] = "CONNECTED"],
                  !.sitting_out = [t.sitting_out EXCEPT ![p] = FALSE],
                  !.bank = t.bank + StartingStack]
  BY DEF Seated, Tables
<1> QED BY <1>1, <1>2, Zenon DEF Tables

\* removePlayer: the pointers of a running hand stay pointers
LEMMA DanglingType ==
  ASSUME NEW h \in Hands \cup {NoHand}, NEW p \in Players
  PROVE  Dangling(h, p) \in Hands \cup {NoHand}
<1>1. CASE h = NoHand
  BY <1>1 DEF Dangling
<1>2. CASE h \in Hands
  <2>1. [s \in Seats |-> IF h.players[s] = p THEN Freed ELSE h.players[s]]
          \in [Seats -> Pointers]
    BY <1>2 DEF Hands, Pointers
  <2> QED BY <1>2, <2>1, NoHandAssumption DEF Dangling, Hands
<1> QED BY <1>1, <1>2

\* removePlayer
LEMMA RemovedType ==
  ASSUME NEW t \in Tables, NEW p \in Players, t.bank >= t.stack[p]
  PROVE  Removed(t, p) \in Tables
<1>1. Dangling(t.hand, p) \in Hands \cup {NoHand}
  BY DanglingType DEF Tables
<1>2. /\ [s \in Seats |-> IF t.seat[s] = p THEN NoPlayer ELSE t.seat[s]]
           \in [Seats -> Players \cup {NoPlayer}]
      /\ [t.stack EXCEPT ![p] = 0] \in [Players -> Nat]
      /\ [t.status EXCEPT ![p] = "CONNECTED"] \in [Players -> Statuses]
      /\ [t.sitting_out EXCEPT ![p] = FALSE] \in [Players -> BOOLEAN]
      /\ t.roster \ {p} \in SUBSET Players
  BY DEF Tables, Statuses
<1>3. t.bank - t.stack[p] \in Nat
  BY DEF Tables
<1>4. Removed(t, p) =
        [t EXCEPT !.seat = [s \in Seats |-> IF t.seat[s] = p THEN NoPlayer ELSE t.seat[s]],
                  !.roster = t.roster \ {p}, !.stack = [t.stack EXCEPT ![p] = 0],
                  !.bank = t.bank - t.stack[p],
                  !.status = [t.status EXCEPT ![p] = "CONNECTED"],
                  !.sitting_out = [t.sitting_out EXCEPT ![p] = FALSE],
                  !.hand = Dangling(t.hand, p)]
  BY DEF Removed, Tables
<1> QED BY <1>1, <1>2, <1>3, <1>4, Zenon DEF Tables

\* startHand
LEMMA StartedType ==
  ASSUME NEW t \in Tables, ReadyForHand(t)
  PROVE  HandStarted(t) \in Tables
<1>1. t.seat \in [Seats -> Pointers]
  BY DEF Tables, ReadyForHand, Pointers
<1> DEFINE h == [number |-> t.started + 1, players |-> t.seat, folded |-> {},
                 sized |-> 0, bets |-> [s \in Seats |-> 0],
                 turn |-> Other(t.dealer), min_raise |-> BigBlind, pot |-> 0]
<1>2. h \in Hands
  BY <1>1, ChipsAssumption DEF Tables, Hands, Seats, Other
<1>3. t.started + 1 \in Nat /\ 0 \in Nat
  BY DEF Tables
<1>4. HandStarted(t) = [t EXCEPT !.hand = h, !.started = t.started + 1, !.pot = 0,
                                 !.state = "HAND_IN_PROGRESS"]
  BY DEF HandStarted, Tables
<1> HIDE DEF h
<1> QED BY <1>2, <1>3, <1>4, Zenon DEF Tables

\* applyAction, a fold
LEMMA HandFoldedType ==
  ASSUME NEW h \in Hands
  PROVE  HandFolded(h) \in Hands
<1>1. /\ h.folded \cup {h.turn} \in SUBSET Seats
      /\ Grown(h.sized, h.turn) \in 0..2
      /\ Other(h.turn) \in Seats
  BY DEF Hands, Seats, Grown, Other
<1>2. HandFolded(h) = [h EXCEPT !.folded = h.folded \cup {h.turn},
                                !.sized = Grown(h.sized, h.turn), !.turn = Other(h.turn)]
  BY DEF HandFolded, Hands
<1> QED BY <1>1, <1>2, Zenon DEF Hands

\* applyAction, a call or a raise
LEMMA HandPaidType ==
  ASSUME NEW h \in Hands, NEW a, NEW n \in Nat
  PROVE  HandPaid(h, a, n) \in Hands
<1>1. /\ h.pot + n \in Nat
      /\ [h.bets EXCEPT ![h.turn] = @ + n] \in [Seats -> Nat]
      /\ Other(h.turn) \in Seats
  BY DEF Hands, Seats, Other
<1>2. (IF a = "raise" THEN n ELSE h.min_raise) \in Nat
  BY DEF Hands
<1>3. HandPaid(h, a, n) =
        [h EXCEPT !.pot = h.pot + n, !.bets = [h.bets EXCEPT ![h.turn] = @ + n],
                  !.min_raise = IF a = "raise" THEN n ELSE h.min_raise,
                  !.turn = Other(h.turn)]
  BY DEF HandPaid, Hands
<1> QED BY <1>1, <1>2, <1>3, Zenon DEF Hands

\* processPlayerAction
LEMMA ActedType ==
  ASSUME NEW t \in Tables, t.hand # NoHand, NEW p \in Players, NEW a,
         NEW n \in Nat, n <= t.stack[p]
  PROVE  Acted(t, p, a, n) \in Tables
<1> DEFINE h == IF a = "fold" THEN HandFolded(t.hand) ELSE HandPaid(t.hand, a, n)
           st == [t.stack EXCEPT ![p] = @ - n]
<1>1. t.hand \in Hands
  BY DEF Tables
<1>2. h \in Hands
  BY <1>1, HandFoldedType, HandPaidType
<1>3. h.pot \in Nat
  BY <1>2 DEF Hands
<1>4. t.stack[p] - n \in Nat
  BY DEF Tables
<1>5. st \in [Players -> Nat]
  BY <1>4 DEF Tables
<1>6. Acted(t, p, a, n) = [t EXCEPT !.stack = st, !.hand = h, !.pot = h.pot]
  BY DEF Acted, Tables
<1> HIDE DEF h, st
<1> QED BY <1>2, <1>3, <1>5, <1>6, Zenon DEF Tables

\* topUp never takes chips away
LEMMA ToppedUpBounds ==
  ASSUME NEW n \in Nat
  PROVE  ToppedUp(n) \in Nat /\ ToppedUp(n) >= n
  BY ChipsAssumption DEF ToppedUp

\* handleTopUp
LEMMA PlayerToppedUpType ==
  ASSUME NEW t \in Tables, NEW p \in Players
  PROVE  PlayerToppedUp(t, p) \in Tables
<1>1. t.stack[p] \in Nat
  BY DEF Tables
<1>2. t.bank + ToppedUp(t.stack[p]) - t.stack[p] \in Nat
  BY <1>1, ToppedUpBounds DEF Tables
<1>3. [t.stack EXCEPT ![p] = ToppedUp(@)] \in [Players -> Nat]
  BY <1>1, ToppedUpBounds DEF Tables
<1>4. PlayerToppedUp(t, p) =
        [t EXCEPT !.stack = [t.stack EXCEPT ![p] = ToppedUp(@)],
                  !.bank = t.bank + ToppedUp(t.stack[p]) - t.stack[p]]
  BY DEF PlayerToppedUp, Tables
<1> QED BY <1>2, <1>3, <1>4, Zenon DEF Tables

-----------------------------------------------------------------------------
(* Part 2: the inductive invariant                                         *)

\* stacks and pots are natural numbers
LEMMA ChipsNat ==
  ASSUME NEW t \in Tables
  PROVE  /\ PotOf(t) \in Nat /\ t.burned \in Nat
         /\ \A s \in Seats : ChipsAt(t, s) \in Nat
  BY DEF PotOf, ChipsAt, Tables, Hands

\* assignSeat: the other seat and the running hand are untouched
LEMMA SeatedSound ==
  ASSUME NEW t, Sound(t), NEW p \in Players, NEW s \in Seats, CanAssignSeat(t, p, s)
  PROVE  /\ Sound(Seated(t, p, s))
         /\ PotOf(Seated(t, p, s)) = PotOf(t)
         /\ ChipsAt(t, s) = 0
         /\ ChipsAt(Seated(t, p, s), s) = StartingStack
         /\ ChipsAt(Seated(t, p, s), Other(s)) = ChipsAt(t, Other(s))
<1> DEFINE u == Seated(t, p, s)
<1>t. t \in Tables
  BY DEF Sound
<1>u. u \in Tables
  BY <1>t, SeatedType
<1>1. /\ u.seat = [t.seat EXCEPT ![s] = p]
      /\ u.roster = t.roster \cup {p}
      /\ u.stack = [t.stack EXCEPT ![p] = StartingStack]
      /\ u.bank = t.bank + StartingStack
      /\ u.hand = t.hand /\ u.pot = t.pot /\ u.state = t.state
      /\ u.dealer = t.dealer /\ u.started = t.started /\ u.burned = t.burned
  BY <1>t DEF Seated, Tables
<1>2. p \notin t.roster /\ t.seat[s] = NoPlayer /\ p # NoPlayer
  BY PlayersAssumption DEF CanAssignSeat
<1>3. \A r \in Seats : t.seat[r] # p
  BY <1>2 DEF Sound, SeatsInStep
<1> HIDE DEF u
<1>p. PotOf(u) = PotOf(t)
  BY <1>1 DEF PotOf
<1>c. ChipsAt(u, s) = StartingStack /\ ChipsAt(t, s) = 0
  BY <1>1, <1>2, <1>t DEF ChipsAt, Tables
<1>o. ChipsAt(u, Other(s)) = ChipsAt(t, Other(s))
  BY <1>1, <1>3, <1>t DEF ChipsAt, Tables, Seats, Other
<1>4. Conserved(u)
  BY <1>1, <1>t, <1>p, <1>c, <1>o, ChipsNat, ChipsAssumption
     DEF Conserved, Seats, Other, Sound
<1>5. SeatsInStep(u)
  BY <1>1, <1>2, <1>3, <1>t DEF SeatsInStep, Seats, Sound, Tables
<1>6. PotInStep(u)
  BY <1>1 DEF PotInStep, PotOf, Sound
<1>7. HandLive(u)
  BY <1>1 DEF HandLive, Sound
<1>8. ButtonInStep(u)
  BY <1>1 DEF ButtonInStep, Sound
<1> QED BY <1>u, <1>p, <1>c, <1>o, <1>4, <1>5, <1>6, <1>7, <1>8 DEF Sound, u


\* a registered player sits in one seat and not in the other
LEMMA OneSeat ==
  ASSUME NEW t, Sound(t), NEW p \in t.roster
  PROVE  \E s \in Seats : t.seat[s] = p /\ t.seat[Other(s)] # p
<1>1. p \in Players
  BY DEF Sound, Tables
<1>2. p # NoPlayer
  BY <1>1, PlayersAssumption
<1>3. PICK s \in Seats : t.seat[s] = p
  BY DEF Sound, SeatsInStep
<1>4. t.seat[Other(s)] # p
  BY <1>2, <1>3 DEF Sound, SeatsInStep, Seats, Other
<1> QED BY <1>3, <1>4

\* removePlayer: a running hand loses a pointer and nothing else
LEMMA DanglingFields ==
  ASSUME NEW h \in Hands, NEW p \in Players
  PROVE  LET g == Dangling(h, p)
         IN /\ g \in Hands /\ g # NoHand
            /\ \A r \in Seats : g.players[r] = IF h.players[r] = p THEN Freed ELSE h.players[r]
            /\ g.pot = h.pot /\ g.bets = h.bets /\ g.folded = h.folded /\ g.sized = h.sized
            /\ g.min_raise = h.min_raise /\ g.number = h.number
<1> DEFINE g == Dangling(h, p)
           ps == [r \in Seats |-> IF h.players[r] = p THEN Freed ELSE h.players[r]]
<1>1. g = [h EXCEPT !.players = ps]
  BY NoHandAssumption DEF Dangling
<1>2. ps \in [Seats -> Pointers]
  BY DEF Hands, Pointers
<1>3. g \in Hands
  BY <1>1, <1>2, Zenon DEF Hands
<1>4. g # NoHand
  BY <1>3, NoHandAssumption
<1>5. /\ g.players = ps
      /\ g.pot = h.pot /\ g.bets = h.bets /\ g.folded = h.folded /\ g.sized = h.sized
      /\ g.min_raise = h.min_raise /\ g.number = h.number
  <2> HIDE DEF ps, g
  <2> QED BY <1>1 DEF Hands
<1> QED BY <1>3, <1>4, <1>5

\* removePlayer: the seat is emptied, the hand keeps its bets and its pot
LEMMA RemovedSound ==
  ASSUME NEW t, Sound(t), NEW p \in t.roster, NEW s \in Seats,
         t.seat[s] = p, t.seat[Other(s)] # p
  PROVE  /\ Sound(Removed(t, p))
         /\ PotOf(Removed(t, p)) = PotOf(t)
         /\ ChipsAt(Removed(t, p), s) = 0
         /\ ChipsAt(Removed(t, p), Other(s)) = ChipsAt(t, Other(s))
<1> DEFINE u == Removed(t, p)
           g == Dangling(t.hand, p)
<1>t. t \in Tables /\ p \in Players
  BY DEF Sound, Tables
<1>b. t.bank = ChipsAt(t, s) + ChipsAt(t, Other(s)) + PotOf(t) + t.burned
  BY <1>t, ChipsNat DEF Sound, Conserved, Seats, Other
<1>k. ChipsAt(t, s) = t.stack[p]
  BY <1>t, PlayersAssumption DEF ChipsAt
<1>u. u \in Tables
  <2>1. t.bank >= t.stack[p]
    BY <1>b, <1>k, <1>t, ChipsNat DEF Seats, Other
  <2> QED BY <2>1, <1>t, RemovedType
<1>1. /\ u.seat = [r \in Seats |-> IF t.seat[r] = p THEN NoPlayer ELSE t.seat[r]]
      /\ u.roster = t.roster \ {p}
      /\ u.stack = [t.stack EXCEPT ![p] = 0]
      /\ u.bank = t.bank - t.stack[p]
      /\ u.hand = g /\ u.pot = t.pot /\ u.state = t.state
      /\ u.dealer = t.dealer /\ u.started = t.started /\ u.burned = t.burned
  BY <1>t DEF Removed, Tables
<1>2. t.hand = NoHand => g = NoHand
  BY DEF Dangling
<1>3. t.hand # NoHand =>
        /\ g # NoHand
        /\ \A r \in Seats : g.players[r] = IF t.hand.players[r] = p THEN Freed
                                           ELSE t.hand.players[r]
        /\ g.pot = t.hand.pot /\ g.bets = t.hand.bets /\ g.folded = t.hand.folded
        /\ g.sized = t.hand.sized /\ g.min_raise = t.hand.min_raise
        /\ g.number = t.hand.number
  <2>1. t.hand # NoHand => t.hand \in Hands
    BY <1>t DEF Tables
  <2> QED BY <2>1, <1>t, DanglingFields
<1> HIDE DEF u, g
<1>p. PotOf(u) = PotOf(t)
  BY <1>1, <1>2, <1>3 DEF PotOf
<1>c. ChipsAt(u, s) = 0
  BY <1>1 DEF ChipsAt
<1>o. ChipsAt(u, Other(s)) = ChipsAt(t, Other(s))
  BY <1>1, <1>t DEF ChipsAt, Tables, Seats, Other
<1>4. Conserved(u)
  BY <1>1, <1>b, <1>k, <1>p, <1>c, <1>o, <1>t, ChipsNat DEF Conserved, Seats, Other
<1>5. SeatsInStep(u)
  BY <1>1, <1>t DEF SeatsInStep, Seats, Sound, Tables, Other
<1>6. PotInStep(u)
  BY <1>1, <1>2, <1>3, <1>p DEF PotInStep, Sound
<1>7. HandLive(u)
  BY <1>1, <1>2, <1>3 DEF HandLive, Sound, Seats
<1>8. ButtonInStep(u)
  BY <1>1, <1>2, <1>3 DEF ButtonInStep, Sound
<1> QED BY <1>u, <1>p, <1>c, <1>o, <1>4, <1>5, <1>6, <1>7, <1>8 DEF Sound, u

\* assignSeat: a destroyed player's address may be taken by the newcomer, and a
\* hand that still points there then points to a registered player
LEMMA ReusedSound ==
  ASSUME NEW t, Sound(t), NEW p \in Players, NEW s \in Seats, CanAssignSeat(t, p, s),
         t.hand # NoHand, NEW i \in Seats, t.hand.players[i] = Freed
  PROVE  LET u == [Seated(t, p, s) EXCEPT !.hand = Reused(t.hand, p, i)]
         IN /\ Sound(u)
            /\ u.hand # NoHand
            /\ u.hand.number = t.hand.number
            /\ PotOf(u) = PotOf(t)
            /\ u.burned = t.burned
            /\ u.stack = Seated(t, p, s).stack
            /\ ChipsAt(t, s) = 0
            /\ ChipsAt(u, s) = StartingStack
            /\ ChipsAt(u, Other(s)) = ChipsAt(t, Other(s))
<1> DEFINE v == Seated(t, p, s)
           h == Reused(t.hand, p, i)
           u == [v EXCEPT !.hand = h]
<1>t. t \in Tables /\ t.hand \in Hands
  BY DEF Sound, Tables
<1>v. /\ Sound(v)
      /\ PotOf(v) = PotOf(t) /\ ChipsAt(t, s) = 0
      /\ ChipsAt(v, s) = StartingStack /\ ChipsAt(v, Other(s)) = ChipsAt(t, Other(s))
  BY SeatedSound
<1>f. v.hand = t.hand /\ v.roster = t.roster \cup {p} /\ v.burned = t.burned
  BY <1>t DEF Seated, Tables
<1> HIDE DEF v
<1>1. /\ h \in Hands
      /\ h.players = [t.hand.players EXCEPT ![i] = p]
      /\ h.pot = t.hand.pot /\ h.bets = t.hand.bets /\ h.folded = t.hand.folded
      /\ h.sized = t.hand.sized /\ h.min_raise = t.hand.min_raise /\ h.number = t.hand.number
  BY <1>t DEF Reused, Hands, Pointers
<1>2. h # NoHand
  BY <1>1, NoHandAssumption
<1> HIDE DEF h
<1>3. /\ u.seat = v.seat /\ u.roster = v.roster /\ u.stack = v.stack /\ u.bank = v.bank
      /\ u.hand = h /\ u.pot = v.pot /\ u.state = v.state /\ u.dealer = v.dealer
      /\ u.started = v.started /\ u.burned = v.burned
      /\ u \in Tables
  BY <1>v, <1>1 DEF Sound, Tables
<1> HIDE DEF u
<1>p. PotOf(u) = PotOf(v)
  BY <1>1, <1>2, <1>3, <1>f DEF PotOf
<1>c. \A r \in {0, 1, s, Other(s)} : ChipsAt(u, r) = ChipsAt(v, r)
  BY <1>3 DEF ChipsAt
<1>4. Conserved(u)
  BY <1>3, <1>v, <1>p, <1>c DEF Conserved, Sound
<1>5. SeatsInStep(u)
  BY <1>3, <1>v DEF SeatsInStep, Sound
<1>6. PotInStep(u)
  BY <1>1, <1>2, <1>3, <1>v, <1>f DEF PotInStep, PotOf, Sound
<1>7. HandLive(u)
  <2>1. h.players[i] = p /\ h.players[Other(i)] = t.hand.players[Other(i)] /\ p # Freed
    BY <1>t, <1>1, PlayersAssumption DEF Hands, Seats, Other
  <2>2. t.hand.players[Other(i)] \in t.roster \cup {Freed}
    BY DEF Sound, HandLive, Seats, Other
  <2>3. h.players[Other(i)] # p
    BY <2>1, <2>2 DEF CanAssignSeat
  <2>4. \A r \in Seats : h.players[r] \in v.roster \cup {Freed}
    BY <2>1, <2>2, <1>f DEF Seats, Other
  <2>5. h.players[0] # h.players[1]
    BY <2>1, <2>3 DEF Seats, Other
  <2>6. (\A r \in t.hand.folded : r < t.hand.sized) /\ t.hand.min_raise >= BigBlind
    BY DEF Sound, HandLive
  <2> QED BY <1>1, <1>3, <2>4, <2>5, <2>6 DEF HandLive
<1>8. ButtonInStep(u)
  BY <1>1, <1>2, <1>3, <1>v, <1>f DEF ButtonInStep, Sound
<1>9. Sound(u)
  BY <1>3, <1>4, <1>5, <1>6, <1>7, <1>8 DEF Sound
<1> QED BY <1>1, <1>2, <1>3, <1>9, <1>p, <1>c, <1>v, <1>f DEF u, v, h

\* startHand: the two seated players become the hand's players, with an empty pot
LEMMA StartedSound ==
  ASSUME NEW t, Sound(t), ReadyForHand(t), t.hand = NoHand
  PROVE  LET u == HandStarted(t)
         IN /\ Sound(u)
            /\ PotOf(u) = PotOf(t) /\ u.burned = t.burned
            /\ u.hand.turn = u.hand.number % 2
            /\ \A s \in Seats : ChipsAt(u, s) = ChipsAt(t, s)
<1> DEFINE u == HandStarted(t)
<1>t. t \in Tables
  BY DEF Sound
<1>u. u \in Tables
  BY <1>t, StartedType
<1>1. /\ u.seat = t.seat /\ u.roster = t.roster /\ u.stack = t.stack /\ u.bank = t.bank
      /\ u.pot = 0 /\ u.state = "HAND_IN_PROGRESS" /\ u.dealer = t.dealer
      /\ u.started = t.started + 1 /\ u.burned = t.burned
      /\ u.hand = [number |-> t.started + 1, players |-> t.seat, folded |-> {},
                   sized |-> 0, bets |-> [s \in Seats |-> 0],
                   turn |-> Other(t.dealer), min_raise |-> BigBlind, pot |-> 0]
  BY <1>t DEF HandStarted, Tables
<1>2. u.hand # NoHand
  <2>1. u.hand \in Hands
    BY <1>1, <1>t, ChipsAssumption DEF Hands, Tables, Pointers, Seats, Other, ReadyForHand
  <2> QED BY <2>1, NoHandAssumption
<1> HIDE DEF u
<1>p. PotOf(u) = 0 /\ PotOf(t) = 0
  BY <1>1, <1>2 DEF PotOf
<1>c. \A s \in Seats : ChipsAt(u, s) = ChipsAt(t, s)
  BY <1>1 DEF ChipsAt
<1>o. u.hand.turn = u.hand.number % 2
  BY <1>1, <1>t DEF Sound, ButtonInStep, Other, Tables
<1>3. Conserved(u)
  BY <1>1, <1>p, <1>c DEF Conserved, Sound, Seats
<1>4. SeatsInStep(u)
  BY <1>1 DEF SeatsInStep, Sound
<1>5. PotInStep(u)
  BY <1>1, <1>2 DEF PotInStep, PotOf, Seats
<1>6. HandLive(u)
  <2>1. \A s \in Seats : t.seat[s] \in t.roster
    BY DEF Sound, SeatsInStep, ReadyForHand
  <2> QED BY <1>1, <1>2, <2>1, ChipsAssumption DEF HandLive, Sound, SeatsInStep, ReadyForHand, Seats
<1>7. ButtonInStep(u)
  BY <1>1, <1>2, <1>t DEF ButtonInStep, Sound, Tables
<1>8. Sound(u)
  BY <1>u, <1>3, <1>4, <1>5, <1>6, <1>7 DEF Sound
<1> QED BY <1>1, <1>8, <1>p, <1>c, <1>o DEF u

\* the bets of h after the player to act puts in n more chips
Staked(h, n) == [h.bets EXCEPT ![h.turn] = @ + n]

\* processPlayerAction: the chips leave the stack of the player to act for the pot
LEMMA ActedSound ==
  ASSUME NEW t, Sound(t), t.hand # NoHand, NEW p \in t.roster, NEW a, NEW n \in Int,
         ValidAction(t, p, a, n)
  PROVE  LET u == Acted(t, p, a, n)
         IN /\ Sound(u)
            /\ n \in Nat /\ n <= t.stack[p]
            /\ u.hand # NoHand /\ u.hand.number = t.hand.number
            /\ u.hand.turn = Other(t.hand.turn)
            /\ u.hand.pot = t.hand.pot + n
            /\ u.hand.min_raise >= t.hand.min_raise
            /\ u.stack = [t.stack EXCEPT ![p] = t.stack[p] - n]
            /\ u.burned = t.burned
            /\ PotOf(u) = PotOf(t) + n
            /\ \A s \in Seats : t.seat[s] = p => ChipsAt(u, s) = ChipsAt(t, s) - n
            /\ \A s \in Seats : t.seat[s] # p => ChipsAt(u, s) = ChipsAt(t, s)
<1> DEFINE g == IF a = "fold" THEN HandFolded(t.hand) ELSE HandPaid(t.hand, a, n)
           u == Acted(t, p, a, n)
<1>t. t \in Tables /\ p \in Players /\ t.hand \in Hands /\ t.hand.turn \in Seats
  BY DEF Sound, Tables, Hands
<1>n. /\ n \in Nat /\ n <= t.stack[p]
      /\ a = "fold" => n = 0
      /\ a = "raise" => n >= t.hand.min_raise
      /\ t.hand.players[t.hand.turn] = p
  <2>1. n <= t.stack[p]
    BY <1>t DEF ValidAction, Affordable, HasTurn, Tables
  <2> QED BY <2>1 DEF ValidAction, Affordable, HasTurn
<1>u. u \in Tables
  BY <1>t, <1>n, ActedType
<1>1. /\ u.seat = t.seat /\ u.roster = t.roster
      /\ u.stack = [t.stack EXCEPT ![p] = @ - n]
      /\ u.bank = t.bank /\ u.hand = g /\ u.pot = g.pot /\ u.state = t.state
      /\ u.dealer = t.dealer /\ u.started = t.started /\ u.burned = t.burned
  BY <1>t DEF Acted, Tables
<1>2. /\ g \in Hands
      /\ g.players = t.hand.players /\ g.number = t.hand.number
      /\ g.turn = Other(t.hand.turn)
      /\ g.pot = t.hand.pot + n
      /\ g.bets = Staked(t.hand, n)
      /\ a = "fold" => g.folded = t.hand.folded \cup {t.hand.turn}
                       /\ g.sized = Grown(t.hand.sized, t.hand.turn)
      /\ a # "fold" => g.folded = t.hand.folded /\ g.sized = t.hand.sized
      /\ g.min_raise = IF a = "raise" THEN n ELSE t.hand.min_raise
  <2>1. CASE a = "fold"
    <3>1. g = HandFolded(t.hand) /\ g \in Hands
      BY <2>1, <1>t, HandFoldedType
    <3>2. g = [t.hand EXCEPT !.folded = t.hand.folded \cup {t.hand.turn},
                             !.sized = Grown(t.hand.sized, t.hand.turn),
                             !.turn = Other(t.hand.turn)]
      BY <3>1, <1>t DEF HandFolded, Hands
    <3>3. t.hand.pot = t.hand.pot + n /\ t.hand.bets = Staked(t.hand, n)
      BY <2>1, <1>n, <1>t DEF Hands, Staked
    <3> HIDE DEF g
    <3> QED BY <2>1, <3>1, <3>2, <3>3, <1>t DEF Hands
  <2>2. CASE a # "fold"
    <3>1. g = HandPaid(t.hand, a, n) /\ g \in Hands
      BY <2>2, <1>t, <1>n, HandPaidType
    <3>2. g = [t.hand EXCEPT !.pot = t.hand.pot + n, !.bets = Staked(t.hand, n),
                             !.min_raise = IF a = "raise" THEN n ELSE t.hand.min_raise,
                             !.turn = Other(t.hand.turn)]
      BY <3>1, <1>t DEF HandPaid, Hands, Staked
    <3> HIDE DEF g
    <3> QED BY <2>2, <3>1, <3>2, <1>t DEF Hands
  <2> QED BY <2>1, <2>2
<1>3. g # NoHand
  BY <1>2, NoHandAssumption
<1> HIDE DEF g, u
<1>p. PotOf(u) = PotOf(t) + n
  BY <1>1, <1>2, <1>3 DEF PotOf
<1>c. \A s \in Seats : t.seat[s] = p => ChipsAt(u, s) = ChipsAt(t, s) - n
  BY <1>1, <1>t, PlayersAssumption DEF ChipsAt, Tables
<1>o. \A s \in Seats : t.seat[s] # p => ChipsAt(u, s) = ChipsAt(t, s)
  BY <1>1, <1>t DEF ChipsAt, Tables
<1>m. g.min_raise >= t.hand.min_raise
  BY <1>2, <1>t, <1>n DEF Hands
<1>4. Conserved(u)
  <2>s. PICK s \in Seats : t.seat[s] = p /\ t.seat[Other(s)] # p
    BY OneSeat
  <2> QED BY <1>1, <1>t, <1>n, <1>p, <1>c, <1>o, <2>s, ChipsNat DEF Conserved, Sound, Seats, Other
<1>5. SeatsInStep(u)
  BY <1>1 DEF SeatsInStep, Sound
<1>6. PotInStep(u)
  <2>1. t.hand.pot = t.hand.bets[0] + t.hand.bets[1]
    BY DEF PotInStep, Sound
  <2>2. g.pot = g.bets[0] + g.bets[1]
    BY <1>2, <1>n, <1>t, <2>1 DEF Hands, Seats, Staked
  <2>3. t.state = "HAND_IN_PROGRESS"
    BY DEF PotInStep, Sound
  <2> QED BY <1>1, <1>3, <2>2, <2>3 DEF PotInStep, PotOf
<1>7. HandLive(u)
  <2>1. /\ \A s \in Seats : t.hand.players[s] \in t.roster \cup {Freed}
        /\ t.hand.players[0] = t.hand.players[1] => t.hand.players[0] = Freed
        /\ \A s \in t.hand.folded : s < t.hand.sized
        /\ t.hand.min_raise >= BigBlind
    BY DEF HandLive, Sound
  <2>2. \A s \in g.folded : s < g.sized
    BY <1>2, <1>t, <2>1 DEF Grown, Hands, Seats
  <2>3. g.min_raise >= BigBlind
    BY <1>2, <1>t, <1>n, <2>1, ChipsAssumption DEF Hands
  <2> QED BY <1>1, <1>2, <2>1, <2>2, <2>3 DEF HandLive
<1>8. ButtonInStep(u)
  BY <1>1, <1>2, <1>3 DEF ButtonInStep, Sound
<1>9. Sound(u)
  BY <1>u, <1>4, <1>5, <1>6, <1>7, <1>8 DEF Sound
<1> QED BY <1>1, <1>2, <1>3, <1>9, <1>n, <1>p, <1>c, <1>o, <1>m DEF u, g

\* determineWinners: once somebody has folded at most one player can be paid
LEMMA OneReceiver ==
  ASSUME NEW h \in Hands, ~ShowdownThrows(h)
  PROVE  \/ PotReceiver(h) = {}
         \/ \E s \in Seats \ h.folded : /\ PotReceiver(h) = {h.players[s]}
                                        /\ h.players[s] # Freed
<1>1. h.folded \in SUBSET Seats /\ h.folded # {}
  BY DEF Hands, ShowdownThrows
<1>2. Active(h) = {} \/ \E s \in Seats \ h.folded : Active(h) = {s}
  BY <1>1 DEF Active, Seats
<1>3. CASE Active(h) = {}
  BY <1>3 DEF PotReceiver
<1>4. ASSUME NEW s \in Seats \ h.folded, Active(h) = {s}
      PROVE  PotReceiver(h) = {h.players[s]} \ {Freed}
  BY <1>4 DEF PotReceiver
<1> QED BY <1>2, <1>3, <1>4

\* endHand: the pot goes to one seat or is burned, and the top-ups are bought in
LEMMA EndedSound ==
  ASSUME NEW t, Sound(t), t.hand # NoHand, ~ShowdownThrows(t.hand)
  PROVE  LET u == HandEnded(t)
         IN /\ Sound(u)
            /\ PotOf(u) = 0 /\ PotOf(t) = t.hand.pot
            /\ \A p \in t.roster : u.stack[p] = ToppedUp(Won(t, p)) /\ u.stack[p] >= t.stack[p]
            /\ PotReceiver(t.hand) # {} => u.burned = t.burned
            /\ \/ /\ u.burned = t.burned + t.hand.pot
                  /\ \A s \in Seats : ChipsAt(u, s) >= ChipsAt(t, s)
               \/ /\ u.burned = t.burned
                  /\ \E w \in Seats : \A s \in Seats :
                       ChipsAt(u, s) >= ChipsAt(t, s) + IF s = w THEN t.hand.pot ELSE 0
<1> DEFINE u == HandEnded(t)
           after == [p \in Players |-> IF p \in t.roster THEN ToppedUp(Won(t, p)) ELSE t.stack[p]]
           won(s) == IF t.seat[s] = NoPlayer THEN 0 ELSE Won(t, t.seat[s])
           bought(s) == IF t.seat[s] = NoPlayer THEN 0 ELSE after[t.seat[s]] - Won(t, t.seat[s])
           burned == IF PotReceiver(t.hand) = {} THEN t.burned + t.hand.pot ELSE t.burned
<1>t. t \in Tables /\ t.hand \in Hands
  BY DEF Sound, Tables
<1>w. \A p \in Players : Won(t, p) \in Nat
  BY <1>t DEF Won, Tables, Hands
<1>a. after \in [Players -> Nat]
  BY <1>t, <1>w, ToppedUpBounds DEF Tables
<1>r. \A s \in Seats : t.seat[s] # NoPlayer => t.seat[s] \in t.roster /\ t.seat[s] \in Players
  BY <1>t DEF Sound, SeatsInStep, Tables
<1>b. \A s \in Seats : bought(s) \in Nat /\ won(s) \in Nat
  BY <1>r, <1>w, ToppedUpBounds
<1>1. /\ u.seat = t.seat /\ u.roster = t.roster /\ u.stack = after
      /\ u.bank = t.bank + bought(0) + bought(1)
      /\ u.hand = NoHand /\ u.pot = 0 /\ u.state = "WAITING_FOR_PLAYERS"
      /\ u.dealer = Other(t.dealer) /\ u.started = t.started /\ u.burned = burned
  BY <1>t DEF HandEnded, NextDealer, Tables
<1>u. u \in Tables
  <2>1. t.bank + bought(0) + bought(1) \in Nat
    BY <1>t, <1>b DEF Tables, Seats
  <2>2. burned \in Nat
    BY <1>t DEF Tables, Hands
  <2>3. u = [t EXCEPT !.stack = after, !.bank = t.bank + bought(0) + bought(1),
                      !.burned = burned, !.hand = NoHand, !.pot = 0,
                      !.state = "WAITING_FOR_PLAYERS", !.dealer = Other(t.dealer)]
    BY <1>t DEF HandEnded, NextDealer, Tables
  <2>4. Other(t.dealer) \in Seats /\ 0 \in Nat
    BY <1>t DEF Tables, Seats, Other
  <2> HIDE DEF after, bought, burned
  <2> QED BY <1>t, <1>a, <2>1, <2>2, <2>3, <2>4, Zenon DEF Tables
<1> HIDE DEF u
<1>p. PotOf(u) = 0 /\ PotOf(t) = t.hand.pot
  BY <1>1 DEF PotOf
<1>c. \A s \in Seats : ChipsAt(u, s) = won(s) + bought(s)
  BY <1>1, <1>r, <1>a, <1>w DEF ChipsAt
<1>k. \A p \in t.roster : u.stack[p] = ToppedUp(Won(t, p)) /\ u.stack[p] >= t.stack[p]
  <2>1. ASSUME NEW p \in t.roster
        PROVE  u.stack[p] = ToppedUp(Won(t, p)) /\ u.stack[p] >= t.stack[p]
    <3>1. p \in Players /\ t.stack[p] \in Nat /\ t.hand.pot \in Nat
      BY <1>t DEF Tables, Hands
    <3>2. Won(t, p) \in Nat /\ Won(t, p) >= t.stack[p]
      BY <3>1, <1>w DEF Won
    <3>3. u.stack[p] = ToppedUp(Won(t, p))
      BY <1>1, <3>1
    <3> QED BY <3>1, <3>2, <3>3, ToppedUpBounds
  <2> QED BY <2>1
<1>s. \/ /\ burned = t.burned + t.hand.pot
         /\ PotReceiver(t.hand) = {}
         /\ \A s \in Seats : won(s) = ChipsAt(t, s)
      \/ /\ burned = t.burned
         /\ \E w \in Seats : won(w) = ChipsAt(t, w) + t.hand.pot
                             /\ won(Other(w)) = ChipsAt(t, Other(w))
  <2>1. CASE PotReceiver(t.hand) = {}
    <3>1. \A s \in Seats : won(s) = ChipsAt(t, s)
      BY <2>1 DEF Won, ChipsAt
    <3> QED BY <2>1, <3>1
  <2>2. ASSUME NEW w \in t.roster, PotReceiver(t.hand) = {w}
        PROVE  /\ burned = t.burned
               /\ \E s \in Seats : won(s) = ChipsAt(t, s) + t.hand.pot
                                   /\ won(Other(s)) = ChipsAt(t, Other(s))
    <3>1. PICK s \in Seats : t.seat[s] = w /\ t.seat[Other(s)] # w
      BY OneSeat
    <3>2. won(s) = ChipsAt(t, s) + t.hand.pot
      BY <2>2, <3>1, <1>t, PlayersAssumption DEF Won, ChipsAt, Tables
    <3>3. won(Other(s)) = ChipsAt(t, Other(s))
      BY <2>2, <3>1 DEF Won, ChipsAt
    <3>4. burned = t.burned
      BY <2>2
    <3> HIDE DEF won, burned
    <3> QED BY <3>2, <3>3, <3>4
  <2>3. PotReceiver(t.hand) = {} \/ \E w \in t.roster : PotReceiver(t.hand) = {w}
    BY <1>t, OneReceiver DEF Sound, HandLive
  <2> HIDE DEF won, burned
  <2> QED BY <2>1, <2>2, <2>3
<1>n. burned \in Nat /\ t.hand.pot \in Nat
  BY <1>t DEF Tables, Hands
<1>l. PotReceiver(t.hand) # {} => burned = t.burned
  OBVIOUS
<1> HIDE DEF won, bought, burned
<1>4. Conserved(u)
  <2>1. t.bank = ChipsAt(t, 0) + ChipsAt(t, 1) + t.hand.pot + t.burned
    BY <1>p DEF Sound, Conserved
  <2> QED BY <1>1, <1>t, <1>b, <1>p, <1>c, <1>s, <1>n, <2>1, ChipsNat
          DEF Conserved, Seats, Other
<1>g. \/ /\ u.burned = t.burned + t.hand.pot
         /\ \A s \in Seats : ChipsAt(u, s) >= ChipsAt(t, s)
      \/ /\ u.burned = t.burned
         /\ \E w \in Seats : \A s \in Seats :
              ChipsAt(u, s) >= ChipsAt(t, s) + IF s = w THEN t.hand.pot ELSE 0
  BY <1>1, <1>b, <1>c, <1>s, <1>n, <1>t, ChipsNat DEF Seats, Other
<1>5. SeatsInStep(u)
  BY <1>1 DEF SeatsInStep, Sound
<1>6. PotInStep(u) /\ HandLive(u)
  BY <1>1 DEF PotInStep, PotOf, HandLive
<1>7. ButtonInStep(u)
  <2>1. t.started \in Nat /\ t.started - 1 \in Nat /\ t.dealer = (t.started - 1) % 2
    BY <1>t DEF Sound, ButtonInStep, Tables
  <2> QED BY <1>1, <2>1 DEF ButtonInStep, Other
<1>8. Sound(u)
  BY <1>u, <1>4, <1>5, <1>6, <1>7 DEF Sound
<1> QED BY <1>1, <1>8, <1>p, <1>k, <1>l, <1>g DEF u

\* handleTopUp: the chips put on a stack are bought
LEMMA PlayerToppedUpSound ==
  ASSUME NEW t, Sound(t), NEW p \in t.roster
  PROVE  LET u == PlayerToppedUp(t, p)
         IN /\ Sound(u)
            /\ PotOf(u) = PotOf(t) /\ u.burned = t.burned
            /\ u.stack = [t.stack EXCEPT ![p] = ToppedUp(t.stack[p])]
            /\ \A s \in Seats : t.seat[s] = p => ChipsAt(u, s) >= ChipsAt(t, s)
            /\ \A s \in Seats : t.seat[s] # p => ChipsAt(u, s) = ChipsAt(t, s)
<1> DEFINE u == PlayerToppedUp(t, p)
<1>t. t \in Tables /\ p \in Players /\ t.stack[p] \in Nat
  BY DEF Sound, Tables
<1>u. u \in Tables
  BY <1>t, PlayerToppedUpType
<1>1. /\ u.seat = t.seat /\ u.roster = t.roster
      /\ u.stack = [t.stack EXCEPT ![p] = ToppedUp(@)]
      /\ u.bank = t.bank + ToppedUp(t.stack[p]) - t.stack[p]
      /\ u.hand = t.hand /\ u.pot = t.pot /\ u.state = t.state
      /\ u.dealer = t.dealer /\ u.started = t.started /\ u.burned = t.burned
  BY <1>t DEF PlayerToppedUp, Tables
<1> HIDE DEF u
<1>g. ToppedUp(t.stack[p]) \in Nat /\ ToppedUp(t.stack[p]) >= t.stack[p]
  BY <1>t, ToppedUpBounds
<1>p. PotOf(u) = PotOf(t)
  BY <1>1 DEF PotOf
<1>c. \A s \in Seats : t.seat[s] = p => ChipsAt(u, s) = ToppedUp(t.stack[p])
                                       /\ ChipsAt(t, s) = t.stack[p]
  BY <1>1, <1>t, PlayersAssumption DEF ChipsAt, Tables
<1>o. \A s \in Seats : t.seat[s] # p => ChipsAt(u, s) = ChipsAt(t, s)
  BY <1>1, <1>t DEF ChipsAt, Tables
<1>4. Conserved(u)
  <2>s. PICK s \in Seats : t.seat[s] = p /\ t.seat[Other(s)] # p
    BY OneSeat
  <2> QED BY <1>1, <1>t, <1>g, <1>p, <1>c, <1>o, <2>s, ChipsNat
          DEF Conserved, Sound, Seats, Other
<1>5. SeatsInStep(u) /\ PotInStep(u) /\ HandLive(u) /\ ButtonInStep(u)
  BY <1>1 DEF SeatsInStep, PotInStep, PotOf, HandLive, ButtonInStep, Sound
<1>6. Sound(u)
  BY <1>u, <1>4, <1>5 DEF Sound
<1> QED BY <1>1, <1>6, <1>g, <1>p, <1>c, <1>o DEF u

\* Sound says nothing of the two fields that connections change
LEMMA ConnectionSound ==
  ASSUME NEW t, Sound(t), NEW u \in Tables,
         u.seat = t.seat, u.roster = t.roster, u.stack = t.stack, u.bank = t.bank,
         u.hand = t.hand, u.pot = t.pot, u.state = t.state,
         u.dealer = t.dealer, u.started = t.started, u.burned = t.burned
  PROVE  Sound(u)
<1>1. Conserved(u)
  BY DEF Conserved, ChipsAt, PotOf, Sound
<1>2. SeatsInStep(u) /\ PotInStep(u) /\ HandLive(u) /\ ButtonInStep(u)
  BY DEF SeatsInStep, PotInStep, PotOf, HandLive, ButtonInStep, Sound
<1> QED BY <1>1, <1>2 DEF Sound

\* onDisconnect, onReconnect, onGraceTimerExpired
LEMMA ConnectionChangeSound ==
  ASSUME NEW t, Sound(t), NEW p \in Players
  PROVE  /\ Sound(PlayerDisconnected(t, p))
         /\ Sound(PlayerReconnected(t, p))
         /\ Sound(PlayerSatOut(t, p))
<1>t. t \in Tables
  BY DEF Sound
<1>1. Sound(PlayerDisconnected(t, p))
  <2>1. PlayerDisconnected(t, p) \in Tables
    BY <1>t DEF PlayerDisconnected, Tables, Statuses
  <2> QED BY <1>t, <2>1, ConnectionSound DEF PlayerDisconnected, Tables
<1>2. Sound(PlayerReconnected(t, p))
  <2>1. PlayerReconnected(t, p) \in Tables
    BY <1>t DEF PlayerReconnected, Tables, Statuses
  <2> QED BY <1>t, <2>1, ConnectionSound DEF PlayerReconnected, Tables
<1>3. Sound(PlayerSatOut(t, p))
  <2>1. PlayerSatOut(t, p) \in Tables
    BY <1>t DEF PlayerSatOut, Tables, Statuses
  <2> QED BY <1>t, <2>1, ConnectionSound DEF PlayerSatOut, Tables
<1> QED BY <1>1, <1>2, <1>3

\* the table the constructor builds
LEMMA EmptySound == Sound(EmptyTable)
<1>1. EmptyTable \in Tables
  BY DEF EmptyTable, Tables, Seats, Statuses
<1>2. Conserved(EmptyTable)
  BY DEF EmptyTable, Conserved, ChipsAt, PotOf, Seats
<1>3. SeatsInStep(EmptyTable)
  BY DEF EmptyTable, SeatsInStep, Seats
<1>4. PotInStep(EmptyTable) /\ HandLive(EmptyTable) /\ ButtonInStep(EmptyTable)
  BY DEF EmptyTable, PotInStep, PotOf, HandLive, ButtonInStep
<1> QED BY <1>1, <1>2, <1>3, <1>4 DEF Sound

-----------------------------------------------------------------------------
(* Part 3: the theorems                                                    *)

\* Sound is inductive: one step per operation of the class.
LEMMA Inductive == Sound(table) /\ [Next]_table => Sound(table')
<1> SUFFICES ASSUME Sound(table), [Next]_table
             PROVE  Sound(table')
  OBVIOUS
<1>1. ASSUME NEW p \in Players, NEW s \in Seats, AssignSeat(p, s)
      PROVE  Sound(table')
  BY <1>1, SeatedSound, ReusedSound DEF AssignSeat
<1>2. ASSUME NEW p \in Players, RemovePlayer(p)
      PROVE  Sound(table')
  <2>1. p \in table.roster /\ table' = Removed(table, p)
    BY <1>2 DEF RemovePlayer
  <2>2. PICK s \in Seats : table.seat[s] = p /\ table.seat[Other(s)] # p
    BY <2>1, OneSeat
  <2> QED BY <2>1, <2>2, RemovedSound
<1>3. CASE StartHand
  BY <1>3, StartedSound DEF StartHand
<1>4. CASE EndHand
  BY <1>4, EndedSound DEF EndHand
<1>5. ASSUME NEW p \in Players, NEW a \in {"fold", "call", "raise"}, NEW n \in Amounts,
             ProcessPlayerAction(p, a, n)
      PROVE  Sound(table')
  <2>1. n \in Int
    BY AmountsAssumption
  <2> QED BY <1>5, <2>1, ActedSound DEF ProcessPlayerAction
<1>6. ASSUME NEW p \in Players, TopUp(p)
      PROVE  Sound(table')
  BY <1>6, PlayerToppedUpSound DEF TopUp
<1>7. ASSUME NEW p \in Players, ConnectionChange(p)
      PROVE  Sound(table')
  BY <1>7, ConnectionChangeSound DEF ConnectionChange
<1>8. CASE UNCHANGED table
  BY <1>8
<1> QED BY <1>1, <1>2, <1>3, <1>4, <1>5, <1>6, <1>7, <1>8 DEF Next

\* The inductive invariant holds in every state, for every caller of the class.
THEOREM AlwaysSound == Spec => []Sound(table)
<1>1. Init => Sound(table)
  BY EmptySound DEF Init
<1>2. Sound(table) /\ [Next]_table => Sound(table)'
  BY Inductive
<1> QED BY <1>1, <1>2, PTL DEF Spec

\* No operation leaves the types of the table.
THEOREM TypeCorrect == Spec => []TypeOK
<1>1. Sound(table) => TypeOK
  BY DEF Sound, TypeOK
<1> QED BY <1>1, AlwaysSound, PTL

\* assignSeat, processPlayerAction, endHand, topUp, removePlayer: chips are
\* neither created nor lost.
THEOREM ChipConservation == Spec => []ChipsConserved
<1>1. Sound(table) => ChipsConserved
  BY DEF Sound, ChipsConserved
<1> QED BY <1>1, AlwaysSound, PTL

\* assignSeat, removePlayer: players_ and the seats agree.
THEOREM RosterCorrect == Spec => []SeatsMatchRoster
<1>1. Sound(table) => SeatsMatchRoster
  BY DEF Sound, SeatsMatchRoster
<1> QED BY <1>1, AlwaysSound, PTL

\* applyAction, startHand, endHand: the copies of the pot agree with the bets.
THEOREM PotCorrect == Spec => []PotMatchesBets
<1>1. Sound(table) => PotMatchesBets
  BY DEF Sound, PotMatchesBets
<1> QED BY <1>1, AlwaysSound, PTL

\* startHand, removePlayer, applyAction: the pointers and vectors of a hand.
THEOREM HandCorrect == Spec => []HandPlayersLive
<1>1. Sound(table) => HandPlayersLive
  BY DEF Sound, HandPlayersLive
<1> QED BY <1>1, AlwaysSound, PTL

\* The only step that opens a hand is startHand, and the only one that closes a
\* hand is endHand; no other changes the number of a running hand.
LEMMA HandOpensAndCloses ==
  ASSUME Sound(table), Next
  PROVE  /\ table.hand = NoHand /\ table'.hand # NoHand => StartHand
         /\ table.hand # NoHand /\ table'.hand = NoHand => EndHand
<1>t. table \in Tables
  BY DEF Sound
<1>1. ASSUME NEW p \in Players, NEW s \in Seats, AssignSeat(p, s)
      PROVE  (table.hand = NoHand) <=> (table'.hand = NoHand)
  <2>1. Seated(table, p, s).hand = table.hand
    BY <1>t DEF Seated, Tables
  <2>2. CASE table' = Seated(table, p, s)
    BY <2>1, <2>2
  <2>3. CASE table' # Seated(table, p, s)
    <3>1. table.hand # NoHand /\ CanAssignSeat(table, p, s)
      BY <1>1, <2>3 DEF AssignSeat
    <3>2. PICK i \in Seats :
            /\ table.hand.players[i] = Freed
            /\ table' = [Seated(table, p, s) EXCEPT !.hand = Reused(table.hand, p, i)]
      BY <1>1, <2>3 DEF AssignSeat
    <3>3. table'.hand # NoHand
      <4>1. table'.hand = Reused(table.hand, p, i)
        BY <3>2, <1>t DEF Seated, Tables
      <4>2. table.hand \in Hands
        BY <3>1, <1>t DEF Tables
      <4>3. Reused(table.hand, p, i) \in Hands
        BY <4>2 DEF Reused, Hands, Pointers
      <4> QED BY <4>1, <4>3, NoHandAssumption
    <3> QED BY <3>1, <3>3
  <2> QED BY <2>2, <2>3
<1>2. ASSUME NEW p \in Players, RemovePlayer(p)
      PROVE  (table.hand = NoHand) <=> (table'.hand = NoHand)
  <2>1. table'.hand = Dangling(table.hand, p)
    BY <1>2, <1>t DEF RemovePlayer, Removed, Tables
  <2>2. table.hand \in Hands => Dangling(table.hand, p) # NoHand
    BY DanglingFields
  <2> QED BY <1>t, <2>1, <2>2, NoHandAssumption DEF Tables, Dangling
<1>3. ASSUME NEW p \in Players, NEW a \in {"fold", "call", "raise"}, NEW n \in Amounts,
             ProcessPlayerAction(p, a, n)
      PROVE  table.hand # NoHand /\ table'.hand # NoHand
  <2>1. /\ table.hand # NoHand /\ p \in table.roster /\ n \in Int
        /\ ValidAction(table, p, a, n) /\ table' = Acted(table, p, a, n)
    BY <1>3, AmountsAssumption DEF ProcessPlayerAction
  <2>2. n \in Nat /\ table.hand \in Hands
    BY <1>t, <2>1 DEF ValidAction, Affordable, HasTurn, Tables
  <2>3. table'.hand = IF a = "fold" THEN HandFolded(table.hand) ELSE HandPaid(table.hand, a, n)
    BY <1>t, <2>1 DEF Acted, Tables
  <2>4. table'.hand \in Hands
    BY <2>2, <2>3, HandFoldedType, HandPaidType
  <2> QED BY <2>1, <2>4, NoHandAssumption
<1>4. ASSUME NEW p \in Players, TopUp(p) \/ ConnectionChange(p)
      PROVE  table'.hand = table.hand
  BY <1>4, <1>t DEF TopUp, PlayerToppedUp, ConnectionChange, PlayerDisconnected,
                    PlayerReconnected, PlayerSatOut, Tables
<1>5. StartHand => table.hand = NoHand
  BY DEF StartHand
<1>6. EndHand => table.hand # NoHand
  BY DEF EndHand
<1> QED BY <1>1, <1>2, <1>3, <1>4, <1>5, <1>6 DEF Next

\* startHand, endHand: the opener of hand n + 1 sits opposite the opener of hand n.
THEOREM OpenerTheorem == Spec => OpenerAlternates
<1>1. Sound(table) /\ [Next]_table =>
        [table.hand = NoHand /\ table'.hand # NoHand =>
           table'.hand.turn = table'.hand.number % 2]_table
  <2> SUFFICES ASSUME Sound(table), Next, table.hand = NoHand, table'.hand # NoHand
               PROVE  table'.hand.turn = table'.hand.number % 2
    OBVIOUS
  <2>1. StartHand
    BY HandOpensAndCloses
  <2> QED BY <2>1, StartedSound DEF StartHand
<1> QED BY <1>1, AlwaysSound, PTL DEF Spec, OpenerAlternates

\* validateAction, applyAction: chips leave a stack only on its owner's turn, for
\* the pot, and a raise never lowers the minimum of the next one.
THEOREM TurnTheorem == Spec => OnlyTurnPays
<1> DEFINE Pays(p) ==
      table'.stack[p] < table.stack[p] =>
        /\ SameHand
        /\ CanAct(table, p)
        /\ table.hand.players[table.hand.turn] = p
        /\ table'.hand.turn # table.hand.turn
        /\ table'.hand.pot - table.hand.pot = table.stack[p] - table'.stack[p]
        /\ table'.hand.min_raise >= table.hand.min_raise
<1>1. ASSUME Sound(table), Next, NEW p \in table.roster \cap table'.roster
      PROVE  Pays(p)
  <2>t. table \in Tables /\ p \in Players /\ table.stack[p] \in Nat
    BY <1>1 DEF Sound, Tables
  <2>1. ASSUME NEW q \in Players, NEW s \in Seats, AssignSeat(q, s)
        PROVE  table'.stack[p] = table.stack[p]
    <3>1. q # p
      BY <1>1, <2>1 DEF AssignSeat, CanAssignSeat
    <3>2. Seated(table, q, s).stack = [table.stack EXCEPT ![q] = StartingStack]
      BY <2>t DEF Seated, Tables
    <3>3. table'.stack = Seated(table, q, s).stack
      BY <1>1, <2>1, ReusedSound DEF AssignSeat
    <3> QED BY <2>t, <3>1, <3>2, <3>3 DEF Tables
  <2>2. ASSUME NEW q \in Players, RemovePlayer(q)
        PROVE  table'.stack[p] = table.stack[p]
    <3>1. /\ table'.roster = table.roster \ {q}
          /\ table'.stack = [table.stack EXCEPT ![q] = 0]
      BY <2>2, <2>t DEF RemovePlayer, Removed, Tables
    <3> QED BY <1>1, <2>t, <3>1 DEF Tables
  <2>5. ASSUME NEW q \in Players, NEW a \in {"fold", "call", "raise"}, NEW n \in Amounts,
               ProcessPlayerAction(q, a, n)
        PROVE  Pays(p)
    <3>1. /\ table.hand # NoHand /\ q \in table.roster /\ n \in Int
          /\ ValidAction(table, q, a, n) /\ table' = Acted(table, q, a, n)
      BY <2>5, AmountsAssumption DEF ProcessPlayerAction
    <3>2. /\ n \in Nat
          /\ table'.hand # NoHand /\ table'.hand.number = table.hand.number
          /\ table'.hand.turn = Other(table.hand.turn)
          /\ table'.hand.pot = table.hand.pot + n
          /\ table'.hand.min_raise >= table.hand.min_raise
          /\ table'.stack = [table.stack EXCEPT ![q] = table.stack[q] - n]
      BY <1>1, <3>1, ActedSound
    <3>3. table.hand \in Hands
      BY <2>t, <3>1 DEF Tables
    <3>4. CASE p = q
      <4>1. table'.stack[p] = table.stack[p] - n
        BY <2>t, <3>2, <3>4 DEF Tables
      <4>2. Other(table.hand.turn) # table.hand.turn
        BY <3>3 DEF Hands, Seats, Other
      <4>3. table'.hand.pot - table.hand.pot = table.stack[p] - table'.stack[p]
        BY <2>t, <3>2, <3>3, <4>1 DEF Hands
      <4> QED BY <3>1, <3>2, <3>4, <4>2, <4>3 DEF SameHand, ValidAction, Affordable, HasTurn
    <3>5. CASE p # q
      BY <2>t, <3>2, <3>5 DEF Tables
    <3> QED BY <3>4, <3>5
  <2>6. ASSUME NEW q \in Players, TopUp(q)
        PROVE  table'.stack[p] >= table.stack[p] /\ table'.stack[p] \in Nat
    <3>1. /\ q \in table.roster
          /\ table'.stack = [table.stack EXCEPT ![q] = ToppedUp(table.stack[q])]
      BY <1>1, <2>6, PlayerToppedUpSound DEF TopUp
    <3> QED BY <2>t, <3>1, ToppedUpBounds DEF Tables
  <2>7. ASSUME NEW q \in Players, ConnectionChange(q)
        PROVE  table'.stack[p] = table.stack[p]
    BY <2>7, <2>t DEF ConnectionChange, PlayerDisconnected, PlayerReconnected,
                      PlayerSatOut, Tables
  <2>8. (\/ table'.stack[p] = table.stack[p]
         \/ table'.stack[p] >= table.stack[p] /\ table'.stack[p] \in Nat) => Pays(p)
    BY <2>t
  <2>9. StartHand => table'.stack[p] = table.stack[p]
    BY <2>t DEF StartHand, HandStarted, Tables
  <2>10. CASE EndHand
    <3>1. table'.stack[p] >= table.stack[p]
      BY <1>1, <2>10, EndedSound DEF EndHand
    <3>2. Sound(table')
      BY <1>1, Inductive
    <3>3. table'.stack[p] \in Nat
      BY <3>2, <2>t DEF Sound, Tables
    <3> QED BY <2>8, <3>1, <3>3
  <2> HIDE DEF Pays
  <2> QED BY <1>1, <2>1, <2>2, <2>5, <2>6, <2>7, <2>8, <2>9, <2>10 DEF Next
<1>2. Sound(table) /\ [Next]_table => [\A p \in table.roster \cap table'.roster : Pays(p)]_table
  BY <1>1
<1> QED BY <1>2, AlwaysSound, PTL DEF Spec, OnlyTurnPays

\* determineWinners, distributePot: the whole pot to a live unfolded player, and
\* nothing but a top-up to a folded one.
THEOREM PotTheorem == Spec => PotGoesToTheUnfolded
<1> DEFINE Settled(s) ==
      LET p == table.hand.players[s]
      IN p # Freed =>
           IF s \in table.hand.folded
           THEN table'.stack[p] = ToppedUp(table.stack[p])
           ELSE table'.stack[p] >= table.stack[p] + table.hand.pot
                /\ table'.burned = table.burned
<1>1. ASSUME Sound(table), Next, table.hand # NoHand, table'.hand = NoHand, NEW s \in Seats
      PROVE  Settled(s)
  <2> DEFINE p == table.hand.players[s]
  <2>1. EndHand
    BY <1>1, HandOpensAndCloses
  <2>2. CASE p = Freed
    BY <2>2
  <2>3. CASE p # Freed
    <3>t. table \in Tables /\ table.hand \in Hands
      BY <1>1 DEF Sound, Tables
    <3>1. p \in table.roster /\ p \in Players /\ table.stack[p] \in Nat /\ table.hand.pot \in Nat
      BY <1>1, <2>3, <3>t DEF Sound, HandLive, Tables, Hands
    <3>2. ~ShowdownThrows(table.hand) /\ table' = HandEnded(table)
      BY <2>1 DEF EndHand
    <3>3. /\ table'.stack[p] = ToppedUp(Won(table, p))
          /\ PotReceiver(table.hand) # {} => table'.burned = table.burned
      BY <1>1, <3>1, <3>2, EndedSound
    <3>4. CASE s \in table.hand.folded
      <4>1. p \notin PotReceiver(table.hand)
        BY <1>1, <2>3, <3>4 DEF PotReceiver, Active, Sound, HandLive, Seats
      <4> QED BY <3>3, <3>4, <4>1 DEF Won
    <3>5. CASE s \notin table.hand.folded
      <4>1. p \in PotReceiver(table.hand)
        BY <2>3, <3>5 DEF PotReceiver, Active
      <4>2. Won(table, p) = table.stack[p] + table.hand.pot
        BY <4>1 DEF Won
      <4> QED BY <3>1, <3>3, <3>5, <4>1, <4>2, ToppedUpBounds
    <3> QED BY <3>4, <3>5
  <2> QED BY <2>2, <2>3
<1>2. Sound(table) /\ [Next]_table =>
        [table.hand # NoHand /\ table'.hand = NoHand => \A s \in Seats : Settled(s)]_table
  BY <1>1
<1> QED BY <1>2, AlwaysSound, PTL DEF Spec, PotGoesToTheUnfolded

\* a function of the two seats, given by its values at a seat and at the other
LEMMA SeatUpdate ==
  ASSUME NEW f \in [Seats -> Nat], NEW g \in [Seats -> Nat], NEW s \in Seats, NEW v,
         g[s] = v, g[Other(s)] = f[Other(s)]
  PROVE  g = [f EXCEPT ![s] = v]
<1>1. \A r \in Seats : r = s \/ r = Other(s)
  BY DEF Seats, Other
<1>2. \A r \in Seats : g[r] = [f EXCEPT ![s] = v][r]
  BY <1>1
<1>3. g = [r \in Seats |-> g[r]]
  OBVIOUS
<1>4. [f EXCEPT ![s] = v] = [r \in Seats |-> [f EXCEPT ![s] = v][r]]
  OBVIOUS
<1> QED BY <1>2, <1>3, <1>4

\* The table implements the chip ledger: each operation is one ledger step, or
\* none that the ledger sees.
THEOREM Refinement == Spec => LedgerSpec
<1> DEFINE held(t) == [s \in Seats |-> ChipsAt(t, s)]
           view(t) == <<held(t), PotOf(t), t.burned>>
<1>1. Init => Ledger!Init
  BY DEF Init, EmptyTable, Ledger!Init, Ledger!Seats, ChipsAt, PotOf, Seats
<1>2. ASSUME Sound(table), Next
      PROVE  Ledger!Next \/ view(table') = view(table)
  <2>t. table \in Tables /\ table.burned \in Nat
    BY <1>2 DEF Sound, Tables
  <2>u. table' \in Tables
    BY <1>2, Inductive DEF Sound
  <2>h. /\ held(table) \in [Seats -> Nat] /\ held(table') \in [Seats -> Nat]
        /\ PotOf(table) \in Nat
    BY <2>t, <2>u, ChipsNat
  <2>1. ASSUME NEW p \in Players, NEW s \in Seats, AssignSeat(p, s)
        PROVE  Ledger!Buy(s)
    <3>1. /\ PotOf(table') = PotOf(table) /\ table'.burned = table.burned
          /\ ChipsAt(table, s) = 0
          /\ ChipsAt(table', Other(s)) = ChipsAt(table, Other(s))
      <4>1. CASE table' = Seated(table, p, s)
        <5>1. Seated(table, p, s).burned = table.burned
          BY <2>t DEF Seated, Tables
        <5> QED BY <1>2, <2>1, <4>1, <5>1, SeatedSound DEF AssignSeat
      <4>2. ASSUME NEW i \in Seats, table.hand # NoHand, table.hand.players[i] = Freed,
                   table' = [Seated(table, p, s) EXCEPT !.hand = Reused(table.hand, p, i)]
            PROVE  /\ PotOf(table') = PotOf(table) /\ table'.burned = table.burned
                   /\ ChipsAt(table, s) = 0
                   /\ ChipsAt(table', Other(s)) = ChipsAt(table, Other(s))
        BY <1>2, <2>1, <4>2, ReusedSound DEF AssignSeat
      <4> QED BY <2>1, <4>1, <4>2 DEF AssignSeat
    <3> QED BY <2>h, <3>1 DEF Ledger!Buy, Ledger!Seats, Seats, Other
  <2>2. ASSUME NEW p \in Players, RemovePlayer(p)
        PROVE  \E s \in Seats : Ledger!Leave(s)
    <3>1. p \in table.roster /\ table' = Removed(table, p)
      BY <2>2 DEF RemovePlayer
    <3>2. PICK s \in Seats : table.seat[s] = p /\ table.seat[Other(s)] # p
      BY <1>2, <3>1, OneSeat
    <3>3. /\ PotOf(table') = PotOf(table)
          /\ ChipsAt(table', s) = 0 /\ ChipsAt(table', Other(s)) = ChipsAt(table, Other(s))
      BY <1>2, <3>1, <3>2, RemovedSound
    <3>4. table'.burned = table.burned
      BY <2>t, <3>1 DEF Removed, Tables
    <3>5. held(table') = [held(table) EXCEPT ![s] = 0]
      <4>1. held(table')[s] = 0 /\ held(table')[Other(s)] = held(table)[Other(s)]
        BY <3>3 DEF Seats, Other
      <4> HIDE DEF held
      <4> QED BY <2>h, <4>1, SeatUpdate
    <3> QED BY <3>3, <3>4, <3>5 DEF Ledger!Leave
  <2>3. CASE StartHand
    <3>1. /\ PotOf(table') = PotOf(table) /\ table'.burned = table.burned
          /\ \A s \in Seats : ChipsAt(table', s) = ChipsAt(table, s)
      BY <1>2, <2>3, StartedSound DEF StartHand
    <3> QED BY <3>1
  <2>4. CASE EndHand
    <3>1. /\ PotOf(table') = 0
          /\ \/ /\ table'.burned = table.burned + PotOf(table)
                /\ \A s \in Seats : ChipsAt(table', s) >= ChipsAt(table, s)
             \/ /\ table'.burned = table.burned
                /\ \E w \in Seats : \A s \in Seats :
                     ChipsAt(table', s) >= ChipsAt(table, s) + IF s = w THEN PotOf(table) ELSE 0
      BY <1>2, <2>4, EndedSound DEF EndHand
    <3> QED BY <2>h, <3>1 DEF Ledger!Next, Ledger!Settle, Ledger!Burn, Ledger!Seats, Seats
  <2>5. ASSUME NEW p \in Players, NEW a \in {"fold", "call", "raise"}, NEW n \in Amounts,
               ProcessPlayerAction(p, a, n)
        PROVE  \E s \in Seats : Ledger!Bet(s)
    <3>1. /\ table.hand # NoHand /\ p \in table.roster /\ n \in Int
          /\ ValidAction(table, p, a, n) /\ table' = Acted(table, p, a, n)
      BY <2>5, AmountsAssumption DEF ProcessPlayerAction
    <3>2. PICK s \in Seats : table.seat[s] = p /\ table.seat[Other(s)] # p
      BY <1>2, <3>1, OneSeat
    <3>3. /\ n \in Nat /\ n <= table.stack[p]
          /\ table.hand # NoHand /\ table'.hand # NoHand
          /\ table'.hand.pot = table.hand.pot + n
          /\ table'.stack = [table.stack EXCEPT ![p] = table.stack[p] - n]
      BY <1>2, <3>1, ActedSound
    <3>a. table'.seat = table.seat /\ table'.burned = table.burned
      BY <2>t, <3>1 DEF Acted, Tables
    <3>b. PotOf(table') = PotOf(table) + n
      BY <3>3 DEF PotOf
    <3>4. ChipsAt(table, s) = table.stack[p]
      BY <2>t, <3>1, <3>2, PlayersAssumption DEF ChipsAt, Tables
    <3>5. /\ ChipsAt(table', s) = ChipsAt(table, s) - n
          /\ ChipsAt(table', Other(s)) = ChipsAt(table, Other(s))
      <4>1. table.seat[Other(s)] # NoPlayer => table.seat[Other(s)] \in Players
        BY <2>t DEF Tables, Seats, Other
      <4>2. table'.seat[s] = p /\ table'.seat[Other(s)] = table.seat[Other(s)]
        BY <3>2, <3>a
      <4>3. table'.stack[p] = table.stack[p] - n
        BY <2>t, <3>3 DEF Tables
      <4>4. ASSUME NEW q \in Players, q # p  PROVE table'.stack[q] = table.stack[q]
        BY <2>t, <3>3, <4>4 DEF Tables
      <4> QED BY <3>2, <3>4, <4>1, <4>2, <4>3, <4>4, PlayersAssumption DEF ChipsAt
    <3>6. n \in 0..held(table)[s]
      BY <2>t, <3>1, <3>3, <3>4 DEF Seats
    <3>7. held(table') = [held(table) EXCEPT ![s] = held(table)[s] - n]
      <4>1. /\ held(table')[s] = held(table)[s] - n
            /\ held(table')[Other(s)] = held(table)[Other(s)]
        BY <3>5 DEF Seats, Other
      <4> HIDE DEF held
      <4> QED BY <2>h, <4>1, SeatUpdate
    <3> QED BY <3>a, <3>b, <3>6, <3>7 DEF Ledger!Bet
  <2>6. ASSUME NEW p \in Players, TopUp(p)
        PROVE  \E s \in Seats : Ledger!Buy(s)
    <3>1. p \in table.roster /\ table' = PlayerToppedUp(table, p)
      BY <2>6 DEF TopUp
    <3>2. PICK s \in Seats : table.seat[s] = p /\ table.seat[Other(s)] # p
      BY <1>2, <3>1, OneSeat
    <3>3. /\ PotOf(table') = PotOf(table) /\ table'.burned = table.burned
          /\ \A r \in Seats : table.seat[r] = p => ChipsAt(table', r) >= ChipsAt(table, r)
          /\ \A r \in Seats : table.seat[r] # p => ChipsAt(table', r) = ChipsAt(table, r)
      BY <1>2, <3>1, PlayerToppedUpSound
    <3>4. /\ ChipsAt(table', s) >= ChipsAt(table, s)
          /\ ChipsAt(table', Other(s)) = ChipsAt(table, Other(s))
      BY <3>2, <3>3 DEF Seats, Other
    <3> QED BY <2>h, <3>3, <3>4 DEF Ledger!Buy, Ledger!Seats, Seats, Other
  <2>7. ASSUME NEW p \in Players, ConnectionChange(p)
        PROVE  view(table') = view(table)
    <3>1. /\ table'.seat = table.seat /\ table'.stack = table.stack
          /\ table'.hand = table.hand /\ table'.burned = table.burned
      BY <2>7, <2>t DEF ConnectionChange, PlayerDisconnected, PlayerReconnected,
                        PlayerSatOut, Tables
    <3> QED BY <3>1 DEF ChipsAt, PotOf
  <2> QED BY <1>2, <2>1, <2>2, <2>3, <2>4, <2>5, <2>6, <2>7
          DEF Next, Ledger!Next, Ledger!Seats, Seats
<1>3. Sound(table) /\ [Next]_table => [Ledger!Next]_<<held(table), PotOf(table), table.burned>>
  BY <1>2
<1> QED BY <1>1, <1>3, AlwaysSound, PTL DEF Spec, LedgerSpec, Ledger!Spec

=============================================================================
