--------------------------- MODULE GameSessionProofs ---------------------------
(* Proofs about GameSession: what its handlers promise for any number of ids  *)
(* and sessions, any chips and any client.  The facts about the table are     *)
(* those of TableManagerProofs, taken through the same instance of the table. *)
EXTENDS GameSession, SequenceTheorems, FiniteSetTheorems, TLAPS

TMP == INSTANCE TableManagerProofs

-----------------------------------------------------------------------------
(* Part 1: the table's lemmas in the words of the server                     *)

LEMMA TableAssumptions ==
  /\ TMP!PlayersAssumption /\ TMP!AmountsAssumption
  /\ TMP!ChipsAssumption /\ TMP!NoHandAssumption
BY ServerAssumption DEF TMP!PlayersAssumption, TMP!AmountsAssumption, TMP!ChipsAssumption,
   TMP!NoHandAssumption, TM!Hands, TMP!Hands, TM!Seats, TMP!Seats, TM!Pointers, TMP!Pointers

LEMMA SameSeats == Seats = {0, 1} /\ TM!Seats = {0, 1} /\ TMP!Seats = {0, 1}
BY DEF Seats, TM!Seats, TMP!Seats

LEMMA SameSound == ASSUME NEW t PROVE TM!Sound(t) <=> TMP!Sound(t)
BY DEF TM!Sound, TMP!Sound, TM!Tables, TMP!Tables, TM!Conserved, TMP!Conserved,
   TM!SeatsInStep, TMP!SeatsInStep, TM!PotInStep, TMP!PotInStep, TM!HandLive, TMP!HandLive,
   TM!ButtonInStep, TMP!ButtonInStep, TM!ChipsAt, TMP!ChipsAt, TM!PotOf, TMP!PotOf,
   TM!Hands, TMP!Hands, TM!Pointers, TMP!Pointers, TM!Statuses, TMP!Statuses,
   TM!Seats, TMP!Seats

\* The fields of a sound table that the handlers look at
LEMMA SoundTypes ==
  ASSUME NEW t, TM!Sound(t)
  PROVE  /\ t \in TM!Tables
         /\ t.roster \subseteq Players
         /\ t.seat \in [Seats -> Players \cup {NoPlayer}]
         /\ t.status \in [Players -> TM!Statuses]
         /\ t.sitting_out \in [Players -> BOOLEAN]
         /\ t.stack \in [Players -> Nat]
         /\ t.hand # NoHand => t.hand \in TM!Hands
         /\ t.burned \in Nat
         /\ t.roster = {t.seat[s] : s \in Seats} \ {NoPlayer}
         /\ (t.state = "HAND_IN_PROGRESS") <=> (t.hand # NoHand)
BY DEF TM!Sound, TM!Tables, TM!SeatsInStep, TM!PotInStep, Seats

\* The constructor
LEMMA EmptyFacts ==
  /\ TM!Sound(TM!EmptyTable)
  /\ TM!EmptyTable.hand = NoHand /\ TM!EmptyTable.burned = 0 /\ TM!EmptyTable.roster = {}
<1>1. TM!EmptyTable = TMP!EmptyTable
  BY DEF TM!EmptyTable, TMP!EmptyTable, TM!Seats, TMP!Seats
<1>2. TMP!Sound(TMP!EmptyTable)
  BY TMP!EmptySound, TableAssumptions
<1>3. TM!EmptyTable.hand = NoHand /\ TM!EmptyTable.burned = 0 /\ TM!EmptyTable.roster = {}
  BY DEF TM!EmptyTable
<1>4. QED
  BY <1>1, <1>2, <1>3, SameSound

\* handleJoin, assignSeat
LEMMA SeatedFacts ==
  ASSUME NEW t, TM!Sound(t), NEW p \in Players, NEW s \in Seats, TM!CanAssignSeat(t, p, s)
  PROVE  LET u == TM!Seated(t, p, s)
         IN /\ TM!Sound(u)
            /\ u.hand = t.hand /\ u.burned = t.burned
            /\ u.roster = t.roster \cup {p}
            /\ u.status = [t.status EXCEPT ![p] = "CONNECTED"]
<1>1. TM!Seated(t, p, s) = TMP!Seated(t, p, s)
  BY DEF TM!Seated, TMP!Seated
<1>2. TMP!CanAssignSeat(t, p, s) /\ TMP!Sound(t) /\ s \in TMP!Seats
  BY SameSound, SameSeats DEF TM!CanAssignSeat, TMP!CanAssignSeat
<1>3. TMP!Sound(TMP!Seated(t, p, s))
  BY <1>2, TMP!SeatedSound, TableAssumptions
<1>4. /\ TM!Seated(t, p, s).hand = t.hand /\ TM!Seated(t, p, s).burned = t.burned
      /\ TM!Seated(t, p, s).roster = t.roster \cup {p}
      /\ TM!Seated(t, p, s).status = [t.status EXCEPT ![p] = "CONNECTED"]
  BY SoundTypes DEF TM!Seated, TM!Tables
<1>5. QED
  BY <1>1, <1>3, <1>4, SameSound

\* A new Player object is not sitting out.
LEMMA SeatedActive ==
  ASSUME NEW t, TM!Sound(t), NEW p \in Players, NEW s \in Seats
  PROVE  TM!Seated(t, p, s).sitting_out = [t.sitting_out EXCEPT ![p] = FALSE]
BY SoundTypes DEF TM!Seated, TM!Tables

\* startHand
LEMMA StartedFacts ==
  ASSUME NEW t, TM!Sound(t), TM!ReadyForHand(t)
  PROVE  LET u == TM!HandStarted(t)
         IN /\ TM!Sound(u)
            /\ u.hand # NoHand /\ u.hand.players = t.seat /\ u.hand.folded = {}
            /\ u.burned = t.burned
            /\ u.roster = t.roster /\ u.seat = t.seat /\ u.status = t.status
            /\ u.sitting_out = t.sitting_out
<1>1. TM!HandStarted(t) = TMP!HandStarted(t)
  BY DEF TM!HandStarted, TMP!HandStarted, TM!Seats, TMP!Seats, TM!Other, TMP!Other
<1>2. TMP!ReadyForHand(t) /\ TMP!Sound(t)
  BY SameSound DEF TM!ReadyForHand, TMP!ReadyForHand, TM!Seats, TMP!Seats
<1>3. t.hand = NoHand
  BY SoundTypes DEF TM!ReadyForHand
<1>4. TMP!Sound(TMP!HandStarted(t))
  BY <1>2, <1>3, TMP!StartedSound, TableAssumptions
<1>5. /\ TM!HandStarted(t).hand.players = t.seat /\ TM!HandStarted(t).hand.folded = {}
      /\ TM!HandStarted(t).burned = t.burned
      /\ TM!HandStarted(t).roster = t.roster /\ TM!HandStarted(t).seat = t.seat
      /\ TM!HandStarted(t).status = t.status
      /\ TM!HandStarted(t).sitting_out = t.sitting_out
      /\ TM!HandStarted(t).state = "HAND_IN_PROGRESS"
  BY SoundTypes DEF TM!HandStarted, TM!Tables
<1>6. QED
  BY <1>1, <1>4, <1>5, SameSound, SoundTypes

\* processPlayerAction
LEMMA ActedFacts ==
  ASSUME NEW t, TM!Sound(t), t.hand # NoHand, NEW p \in t.roster, NEW a, NEW n \in Int,
         TM!ValidAction(t, p, a, n)
  PROVE  LET u == TM!Acted(t, p, a, n)
         IN /\ TM!Sound(u)
            /\ u.hand # NoHand /\ u.hand.players = t.hand.players
            /\ u.hand.folded \in {t.hand.folded, t.hand.folded \cup {t.hand.turn}}
            /\ u.burned = t.burned
            /\ u.roster = t.roster /\ u.seat = t.seat /\ u.status = t.status
            /\ u.sitting_out = t.sitting_out
<1>1. TM!Acted(t, p, a, n) = TMP!Acted(t, p, a, n)
  BY DEF TM!Acted, TMP!Acted, TM!HandFolded, TMP!HandFolded, TM!HandPaid, TMP!HandPaid,
     TM!Grown, TMP!Grown, TM!Other, TMP!Other
<1>2. TMP!ValidAction(t, p, a, n) /\ TMP!Sound(t)
  BY SameSound DEF TM!ValidAction, TMP!ValidAction, TM!CanAct, TMP!CanAct, TM!Affordable,
     TMP!Affordable, TM!HasTurn, TMP!HasTurn, TM!Seats, TMP!Seats
<1>3. TMP!Sound(TMP!Acted(t, p, a, n))
  BY <1>2, TMP!ActedSound, TableAssumptions
<1>4. t.hand \in TM!Hands
  BY SoundTypes
<1>5. /\ TM!Acted(t, p, a, n).hand.players = t.hand.players
      /\ TM!Acted(t, p, a, n).hand.folded \in {t.hand.folded, t.hand.folded \cup {t.hand.turn}}
  <2>1. TM!HandFolded(t.hand).players = t.hand.players
        /\ TM!HandFolded(t.hand).folded = t.hand.folded \cup {t.hand.turn}
    BY <1>4 DEF TM!HandFolded, TM!Hands
  <2>2. TM!HandPaid(t.hand, a, n).players = t.hand.players
        /\ TM!HandPaid(t.hand, a, n).folded = t.hand.folded
    BY <1>4 DEF TM!HandPaid, TM!Hands
  <2>3. TM!Acted(t, p, a, n).hand
          = IF a = "fold" THEN TM!HandFolded(t.hand) ELSE TM!HandPaid(t.hand, a, n)
    BY SoundTypes DEF TM!Acted, TM!Tables
  <2>4. QED
    BY <2>1, <2>2, <2>3
<1>6. /\ TM!Acted(t, p, a, n).burned = t.burned
      /\ TM!Acted(t, p, a, n).roster = t.roster
      /\ TM!Acted(t, p, a, n).seat = t.seat
      /\ TM!Acted(t, p, a, n).status = t.status
      /\ TM!Acted(t, p, a, n).sitting_out = t.sitting_out
      /\ TM!Acted(t, p, a, n).state = t.state
  BY SoundTypes DEF TM!Acted, TM!Tables
<1>7. QED
  BY <1>1, <1>3, <1>5, <1>6, SameSound, SoundTypes

\* endHand: whoever is left in the hand is a seated player, so the pot is paid
LEMMA EndedFacts ==
  ASSUME NEW t, TM!Sound(t), t.hand # NoHand, ~TM!ShowdownThrows(t.hand),
         \E s \in Seats \ t.hand.folded : t.hand.players[s] # Freed
  PROVE  LET u == TM!HandEnded(t)
         IN /\ TM!Sound(u)
            /\ u.hand = NoHand /\ u.burned = t.burned
            /\ u.roster = t.roster /\ u.seat = t.seat /\ u.status = t.status
            /\ u.sitting_out = t.sitting_out
<1>1. TM!HandEnded(t) = TMP!HandEnded(t)
  BY DEF TM!HandEnded, TMP!HandEnded, TM!Won, TMP!Won, TM!ToppedUp, TMP!ToppedUp,
     TM!PotReceiver, TMP!PotReceiver, TM!Active, TMP!Active, TM!Seats, TMP!Seats,
     TM!NextDealer, TMP!NextDealer, TM!Other, TMP!Other
<1>2. ~TMP!ShowdownThrows(t.hand) /\ TMP!Sound(t)
  BY SameSound DEF TM!ShowdownThrows, TMP!ShowdownThrows
<1>3. TMP!Sound(TMP!HandEnded(t))
  BY <1>2, TMP!EndedSound, TableAssumptions
<1>4. TM!PotReceiver(t.hand) # {}
  BY DEF TM!PotReceiver, TM!Active, Seats
<1>5. /\ TM!HandEnded(t).hand = NoHand /\ TM!HandEnded(t).burned = t.burned
      /\ TM!HandEnded(t).roster = t.roster /\ TM!HandEnded(t).seat = t.seat
      /\ TM!HandEnded(t).status = t.status
      /\ TM!HandEnded(t).sitting_out = t.sitting_out
  BY <1>4, SoundTypes DEF TM!HandEnded, TM!Tables
<1>6. QED
  BY <1>1, <1>3, <1>5, SameSound

\* handleTopUp
LEMMA ToppedUpFacts ==
  ASSUME NEW t, TM!Sound(t), NEW p \in t.roster
  PROVE  LET u == TM!PlayerToppedUp(t, p)
         IN /\ TM!Sound(u)
            /\ u.hand = t.hand /\ u.burned = t.burned
            /\ u.roster = t.roster /\ u.seat = t.seat /\ u.status = t.status
            /\ u.sitting_out = t.sitting_out
<1>1. TM!PlayerToppedUp(t, p) = TMP!PlayerToppedUp(t, p)
  BY DEF TM!PlayerToppedUp, TMP!PlayerToppedUp, TM!ToppedUp, TMP!ToppedUp
<1>2. TMP!Sound(TMP!PlayerToppedUp(t, p))
  BY SameSound, TMP!PlayerToppedUpSound, TableAssumptions
<1>3. /\ TM!PlayerToppedUp(t, p).hand = t.hand /\ TM!PlayerToppedUp(t, p).burned = t.burned
      /\ TM!PlayerToppedUp(t, p).roster = t.roster /\ TM!PlayerToppedUp(t, p).seat = t.seat
      /\ TM!PlayerToppedUp(t, p).status = t.status
      /\ TM!PlayerToppedUp(t, p).sitting_out = t.sitting_out
  BY SoundTypes DEF TM!PlayerToppedUp, TM!Tables
<1>4. QED
  BY <1>1, <1>2, <1>3, SameSound

\* What the disconnection machinery writes into a Player keeps the rest of the table.
KeepsTheGame(t, u) ==
  /\ TM!Sound(u)
  /\ u.hand = t.hand /\ u.burned = t.burned /\ u.roster = t.roster /\ u.seat = t.seat

LEMMA ConnectionFacts ==
  ASSUME NEW t, TM!Sound(t), NEW p \in Players
  PROVE  /\ KeepsTheGame(t, TM!PlayerDisconnected(t, p))
         /\ TM!PlayerDisconnected(t, p).status = [t.status EXCEPT ![p] = "DISCONNECTED"]
         /\ TM!PlayerDisconnected(t, p).sitting_out = [t.sitting_out EXCEPT ![p] = FALSE]
         /\ KeepsTheGame(t, TM!PlayerReconnected(t, p))
         /\ TM!PlayerReconnected(t, p).status = [t.status EXCEPT ![p] = "CONNECTED"]
         /\ TM!PlayerReconnected(t, p).sitting_out = [t.sitting_out EXCEPT ![p] = FALSE]
         /\ KeepsTheGame(t, TM!PlayerSatOut(t, p))
         /\ TM!PlayerSatOut(t, p).status = t.status
         /\ TM!PlayerSatOut(t, p).sitting_out = [t.sitting_out EXCEPT ![p] = TRUE]
<1>1. /\ TM!PlayerDisconnected(t, p) = TMP!PlayerDisconnected(t, p)
      /\ TM!PlayerReconnected(t, p) = TMP!PlayerReconnected(t, p)
      /\ TM!PlayerSatOut(t, p) = TMP!PlayerSatOut(t, p)
  BY DEF TM!PlayerDisconnected, TMP!PlayerDisconnected, TM!PlayerReconnected,
     TMP!PlayerReconnected, TM!PlayerSatOut, TMP!PlayerSatOut
<1>2. /\ TMP!Sound(TMP!PlayerDisconnected(t, p))
      /\ TMP!Sound(TMP!PlayerReconnected(t, p))
      /\ TMP!Sound(TMP!PlayerSatOut(t, p))
  BY SameSound, TMP!ConnectionChangeSound, TableAssumptions
<1>3. t \in TM!Tables
  BY SoundTypes
<1>4. KeepsTheGame(t, TM!PlayerDisconnected(t, p))
      /\ TM!PlayerDisconnected(t, p).status = [t.status EXCEPT ![p] = "DISCONNECTED"]
      /\ TM!PlayerDisconnected(t, p).sitting_out = [t.sitting_out EXCEPT ![p] = FALSE]
  BY <1>1, <1>2, <1>3, SameSound DEF KeepsTheGame, TM!PlayerDisconnected, TM!Tables
<1>5. KeepsTheGame(t, TM!PlayerReconnected(t, p))
      /\ TM!PlayerReconnected(t, p).status = [t.status EXCEPT ![p] = "CONNECTED"]
      /\ TM!PlayerReconnected(t, p).sitting_out = [t.sitting_out EXCEPT ![p] = FALSE]
  BY <1>1, <1>2, <1>3, SameSound DEF KeepsTheGame, TM!PlayerReconnected, TM!Tables
<1>6. KeepsTheGame(t, TM!PlayerSatOut(t, p)) /\ TM!PlayerSatOut(t, p).status = t.status
      /\ TM!PlayerSatOut(t, p).sitting_out = [t.sitting_out EXCEPT ![p] = TRUE]
  BY <1>1, <1>2, <1>3, SameSound DEF KeepsTheGame, TM!PlayerSatOut, TM!Tables
<1>7. QED
  BY <1>4, <1>5, <1>6

-----------------------------------------------------------------------------
(* Part 2: the timers and the messages                                       *)

LEMMA TimerTypes ==
  ASSUME NEW t \in PC!Timers, NEW p \in Players
  PROVE  /\ PC!TimersAtDisconnect(t, p) \in PC!Timers
         /\ PC!TimersAtReconnect(t, p) \in PC!Timers
         /\ PC!TimersAtGraceExpiry(t, p) \in PC!Timers
         /\ PC!TimersAtRemovalExpiry(t, p) \in PC!Timers
         /\ \A k \in PC!Kinds : PC!Expired(t, k, p) \in PC!Timers
<1>1. ASSUME NEW u \in PC!Timers, NEW k \in PC!Kinds
      PROVE  PC!Started(u, k, p) \in PC!Timers /\ PC!HandlerTaken(u, k, p) \in PC!Timers
             /\ PC!Expired(u, k, p) \in PC!Timers
  BY DEF PC!Started, PC!HandlerTaken, PC!Expired, PC!Timers
<1>2. PC!Cancelled(t, p) \in PC!Timers
  BY DEF PC!Cancelled, PC!Timers
<1>3. "grace" \in PC!Kinds /\ "removal" \in PC!Kinds
  BY DEF PC!Kinds
<1>4. QED
  BY <1>1, <1>2, <1>3 DEF PC!TimersAtDisconnect, PC!TimersAtReconnect,
     PC!TimersAtGraceExpiry, PC!TimersAtRemovalExpiry

LEMMA MessageType ==
  ASSUME NEW type \in Types \ {"welcome", "action_request", "hand_completed"},
         NEW to \in SUBSET Sessions
  PROVE  Message(type, to) \in Messages
BY DEF Message, Messages

LEMMA BroadcastType ==
  ASSUME NEW type \in Types \ {"welcome", "action_request", "hand_completed"},
         NEW f \in [Players -> Sessions \cup {NoSession}]
  PROVE  Broadcast(type, f) \in Messages
<1>1. {f[p] : p \in Players} \ {NoSession} \in SUBSET Sessions
  OBVIOUS
<1>2. QED
  BY <1>1, MessageType DEF Broadcast

LEMMA RequestType ==
  ASSUME NEW t, TM!Sound(t), t.hand # NoHand,
         toSession \in [Players -> Sessions \cup {NoSession}]
  PROVE  ActionRequest(t) \in Seq(Messages)
<1> DEFINE p == t.hand.players[t.hand.turn]
           m == [type |-> "action_request", to |-> {toSession[p]}, hand |-> t.hand.number,
                 call |-> CallAmount(t.hand), min_raise |-> t.hand.min_raise,
                 max_raise |-> t.stack[p]]
<1>1. t.hand \in TM!Hands /\ t.roster \subseteq Players /\ t.stack \in [Players -> Nat]
  BY SoundTypes
<1>2. CallAmount(t.hand) \in Nat
  BY <1>1 DEF CallAmount, TM!Hands, TM!Other, TM!Seats
<1>3. CASE p \notin t.roster \/ toSession[p] = NoSession
  BY <1>3 DEF ActionRequest
<1>4. CASE p \in t.roster /\ toSession[p] # NoSession
  <2>1. m \in Messages
    BY <1>1, <1>2, <1>4 DEF Messages, TM!Hands
  <2>2. ActionRequest(t) = <<m>>
    BY <1>4 DEF ActionRequest
  <2>3. QED
    BY <2>1, <2>2
<1>5. QED
  BY <1>3, <1>4

LEMMA CompletedType ==
  ASSUME NEW t, TM!Sound(t), toSession \in [Players -> Sessions \cup {NoSession}]
  PROVE  BroadcastHandCompleted(t) \in Messages
<1>1. {toSession[p] : p \in Players} \ {NoSession} \in SUBSET Sessions
  OBVIOUS
<1>2. t.stack \in [Players -> Nat]
  BY SoundTypes
<1>3. QED
  BY <1>1, <1>2 DEF BroadcastHandCompleted, Broadcast, Message, Messages

-----------------------------------------------------------------------------
(* Part 3: the inductive invariant                                           *)

\* Both seats are taken while a hand runs, so nobody sits down in the middle of
\* one and the hand's two pointers stay the two seated players.
HandIsHeadsUp ==
  table.hand # NoHand =>
    /\ table.hand.players = table.seat /\ table.hand.folded = {}
    /\ \A i \in Seats : table.seat[i] # NoPlayer

Typed ==
  /\ timers \in PC!Timers
  /\ toPlayer \in [Sessions -> Players \cup {NoPlayer}]
  /\ toSession \in [Players -> Sessions \cup {NoSession}]
  /\ link \in [Sessions -> {"open", "closed"}]
  /\ crashed \in BOOLEAN

Answered == last \in [from: Sessions \cup {NoSession}, sent: Seq(Messages)]

Server ==
  /\ Typed /\ Answered
  /\ MapsInverse /\ AwayHasNoSession
  /\ TableSound /\ HandIsHeadsUp /\ table.burned = 0

\* What a handler may leave as it was
Maps == <<toPlayer, toSession, link>>

LEMMA MapsKept ==
  ASSUME Server, UNCHANGED Maps, table'.roster = table.roster, table'.status = table.status
  PROVE  MapsInverse' /\ AwayHasNoSession'
BY DEF Server, MapsInverse, AwayHasNoSession, Maps

LEMMA GameKept ==
  ASSUME Server, KeepsTheGame(table, table')
  PROVE  TableSound' /\ HandIsHeadsUp' /\ table'.burned = 0
BY DEF Server, KeepsTheGame, TableSound, HandIsHeadsUp

LEMMA TableKept ==
  ASSUME Server, UNCHANGED table
  PROVE  TableSound' /\ HandIsHeadsUp' /\ table'.burned = 0
BY DEF Server, TableSound, HandIsHeadsUp

LEMMA InitServer == Init => Server
<1> SUFFICES ASSUME Init PROVE Server
  OBVIOUS
<1>1. Typed
  BY DEF Init, Typed, PC!NoTimers, PC!Timers
<1>2. Answered
  BY DEF Init, Answered
<1>3. MapsInverse /\ AwayHasNoSession
  BY EmptyFacts, ServerAssumption, SessionsAssumption DEF Init, MapsInverse, AwayHasNoSession
<1>4. TableSound /\ HandIsHeadsUp /\ table.burned = 0
  BY EmptyFacts DEF Init, TableSound, HandIsHeadsUp
<1>5. QED
  BY <1>1, <1>2, <1>3, <1>4 DEF Server

\* registerSession
LEMMA WelcomeKeeps ==
  ASSUME Server, NEW s \in Sessions, NEW p \in Players, Welcome(s, p)
  PROVE  Server'
<1>1. Typed'
  BY DEF Server, Typed, Welcome
<1>2. Answered'
  <2> DEFINE m == [type |-> "welcome", to |-> {s}, player |-> p]
  <2>1. m \in Messages
    BY DEF Messages
  <2>2. <<m>> \in Seq(Messages)
    BY <2>1
  <2>3. QED
    BY <2>2 DEF Answered, Welcome, Handled
<1>3. MapsInverse' /\ AwayHasNoSession'
  <2>1. toPlayer[s] = NoPlayer
    BY DEF Server, AwayHasNoSession, Welcome
  <2>2. MapsInverse'
    BY <2>1, ServerAssumption, SessionsAssumption DEF Server, Typed, MapsInverse, Welcome
  <2>3. AwayHasNoSession'
    BY SoundTypes DEF Server, Typed, AwayHasNoSession, Welcome, TableSound
  <2>4. QED
    BY <2>2, <2>3
<1>4. TableSound' /\ HandIsHeadsUp' /\ table'.burned = 0
  BY TableKept DEF Welcome
<1>5. QED
  BY <1>1, <1>2, <1>3, <1>4 DEF Server

\* removeSession takes both entries of one session away
LEMMA RemovedMaps ==
  ASSUME Server, NEW p \in Players, toSession[p] \in Sessions, SessionRemoved(p)
  PROVE  /\ toPlayer' \in [Sessions -> Players \cup {NoPlayer}]
         /\ toSession' \in [Players -> Sessions \cup {NoSession}]
         /\ MapsInverse'
         /\ toPlayer'[toSession[p]] = NoPlayer
         /\ toSession'[p] = NoSession
         /\ \A s \in Sessions : toPlayer'[s] # NoPlayer => toPlayer[s] # NoPlayer
         /\ \A q \in Players : toSession[q] = NoSession => toSession'[q] = NoSession
<1>1. toPlayer' \in [Sessions -> Players \cup {NoPlayer}]
      /\ toSession' \in [Players -> Sessions \cup {NoSession}]
  BY DEF Server, Typed, SessionRemoved
<1>2. MapsInverse'
  BY ServerAssumption, SessionsAssumption DEF Server, Typed, MapsInverse, SessionRemoved
<1>3. QED
  BY <1>1, <1>2 DEF Server, Typed, SessionRemoved

\* onDisconnect, with the read loop gone or not
LEMMA LostKeeps ==
  ASSUME Server, NEW s \in Sessions, link[s] = "open", Lost(s),
         link' \in {link, [link EXCEPT ![s] = "closed"]}, UNCHANGED crashed
  PROVE  Server'
<1> DEFINE p == toPlayer[s]
<1>1. link' \in [Sessions -> {"open", "closed"}] /\ crashed' \in BOOLEAN
  BY DEF Server, Typed
<1>2. CASE p = NoPlayer /\ UNCHANGED <<table, timers, toPlayer, toSession>> /\ Handled(NoSession, <<>>)
  <2>1. Typed' /\ Answered'
    BY <1>1, <1>2 DEF Server, Typed, Answered, Handled
  <2>2. MapsInverse' /\ AwayHasNoSession'
    BY <1>2 DEF Server, Typed, MapsInverse, AwayHasNoSession
  <2>3. QED
    BY <1>2, <2>1, <2>2, TableKept DEF Server
<1>3. CASE p # NoPlayer /\ SessionRemoved(p)
  <2>1. p \in Players /\ toSession[p] = s
    BY <1>3 DEF Server, Typed, MapsInverse
  <2>2. /\ toPlayer' \in [Sessions -> Players \cup {NoPlayer}]
        /\ toSession' \in [Players -> Sessions \cup {NoSession}]
        /\ MapsInverse'
        /\ toPlayer'[s] = NoPlayer
        /\ toSession'[p] = NoSession
        /\ \A r \in Sessions : toPlayer'[r] # NoPlayer => toPlayer[r] # NoPlayer
        /\ \A q \in Players : toSession[q] = NoSession => toSession'[q] = NoSession
    BY <1>3, <2>1, RemovedMaps
  <2>3. \A r \in Sessions : toPlayer'[r] # NoPlayer => link'[r] = "open"
    BY <2>2 DEF Server, Typed, AwayHasNoSession
  <2>4. CASE UNCHANGED <<table, timers>> /\ Handled(NoSession, <<>>)
    <3>1. Typed' /\ Answered'
      BY <1>1, <2>2, <2>4 DEF Server, Typed, Answered, Handled
    <3>2. AwayHasNoSession'
      BY <2>2, <2>3, <2>4, SoundTypes DEF Server, AwayHasNoSession, TableSound
    <3>3. QED
      BY <2>2, <2>4, <3>1, <3>2, TableKept DEF Server
  <2>5. CASE /\ p \in table.roster
             /\ table' = TM!PlayerDisconnected(table, p)
             /\ timers' = PC!TimersAtDisconnect(timers, p)
             /\ Handled(NoSession, <<Broadcast("player_disconnected", toSession')>>)
    <3>1. KeepsTheGame(table, table') /\ table'.status = [table.status EXCEPT ![p] = "DISCONNECTED"]
      BY <2>1, <2>5, ConnectionFacts DEF Server, TableSound
    <3>2. Typed'
      BY <1>1, <2>1, <2>2, <2>5, TimerTypes DEF Server, Typed
    <3>3. Broadcast("player_disconnected", toSession') \in Messages
      BY <2>2, BroadcastType DEF Types
    <3>4. Answered'
      BY <2>5, <3>3 DEF Answered, Handled
    <3>5. AwayHasNoSession'
      BY <2>2, <2>3, <3>1, SoundTypes DEF Server, AwayHasNoSession, TableSound, KeepsTheGame, Typed
    <3>6. QED
      BY <2>2, <3>1, <3>2, <3>4, <3>5, GameKept DEF Server
  <2>6. QED
    BY <1>3, <2>4, <2>5 DEF Lost
<1>4. p \in table.roster => p # NoPlayer
  BY SoundTypes, ServerAssumption DEF Server, TableSound
<1>5. QED
  BY <1>2, <1>3, <1>4 DEF Lost

\* handleJoin of a disconnected player: the session's own id loses its entry
LEMMA RejoinKeeps ==
  ASSUME Server, NEW s \in Sessions, NEW p \in Players, Rejoin(s, p)
  PROVE  Server'
<1>1. /\ toPlayer' \in [Sessions -> Players \cup {NoPlayer}]
      /\ toSession' \in [Players -> Sessions \cup {NoSession}]
      /\ \A q \in Players : toSession'[q]
           = IF q = p THEN s ELSE IF q = toPlayer[s] THEN NoSession ELSE toSession[q]
      /\ \A r \in Sessions : toPlayer'[r] = IF r = s THEN p ELSE toPlayer[r]
  BY DEF Server, Typed, Rejoin
<1>2. toSession[p] = NoSession
  BY DEF Server, AwayHasNoSession, Rejoin, CanRejoin
<1>3. MapsInverse'
  <2> SUFFICES ASSUME NEW r \in Sessions, NEW q \in Players
               PROVE  toPlayer'[r] = q <=> toSession'[q] = r
    BY DEF MapsInverse
  <2>1. CASE r = s
    BY <1>1, <2>1, SessionsAssumption DEF Server, MapsInverse
  <2>2. CASE r # s
    BY <1>1, <1>2, <2>2, SessionsAssumption DEF Server, MapsInverse
  <2>3. QED
    BY <2>1, <2>2
<1>4. KeepsTheGame(table, table') /\ table'.status = [table.status EXCEPT ![p] = "CONNECTED"]
  BY ConnectionFacts DEF Server, TableSound, Rejoin
<1>5. AwayHasNoSession'
  <2>1. \A r \in Sessions : toPlayer'[r] # NoPlayer => link'[r] = "open"
    BY <1>1 DEF Server, AwayHasNoSession, Rejoin, Running
  <2>2. \A q \in table'.roster : table'.status[q] = "DISCONNECTED" => toSession'[q] = NoSession
    BY <1>1, <1>4, SoundTypes DEF Server, AwayHasNoSession, TableSound, KeepsTheGame
  <2>3. QED
    BY <2>1, <2>2 DEF AwayHasNoSession
<1>6. Typed'
  BY <1>1, TimerTypes DEF Server, Typed, Rejoin
<1>7. Answered'
  <2>1. Broadcast("player_reconnected", toSession') \in Messages
    BY <1>1, BroadcastType DEF Types
  <2>2. Message("join_ack", {s}) \in Messages
    BY MessageType DEF Types
  <2>3. QED
    BY <2>1, <2>2 DEF Answered, Rejoin, Handled
<1>8. QED
  BY <1>3, <1>4, <1>5, <1>6, <1>7, GameKept DEF Server

\* handleJoin of a stranger: he can sit down only between two hands
LEMMA TakeSeatKeeps ==
  ASSUME Server, NEW s \in Sessions, TakeSeat(s)
  PROVE  Server'
<1> DEFINE p == toPlayer[s]
           u == TM!Seated(table, p, FreeSeat)
<1>1. p \in Players /\ FreeSeat \in Seats /\ TM!CanAssignSeat(table, p, FreeSeat)
  BY DEF Server, Typed, TakeSeat, FreeSeat, Seats, TM!Seats
<1>2. /\ TM!Sound(u)
      /\ u.hand = table.hand /\ u.burned = table.burned
      /\ u.roster = table.roster \cup {p}
      /\ u.status = [table.status EXCEPT ![p] = "CONNECTED"]
  <2>1. TM!Sound(table)
    BY DEF Server, TableSound
  <2>2. ASSUME NEW q \in Players, NEW i \in Seats, TM!CanAssignSeat(table, q, i)
        PROVE  /\ TM!Sound(TM!Seated(table, q, i))
               /\ TM!Seated(table, q, i).hand = table.hand
               /\ TM!Seated(table, q, i).burned = table.burned
               /\ TM!Seated(table, q, i).roster = table.roster \cup {q}
               /\ TM!Seated(table, q, i).status = [table.status EXCEPT ![q] = "CONNECTED"]
    BY <2>1, <2>2, SeatedFacts
  <2>3. QED
    BY <1>1, <2>2
<1>3. table.hand = NoHand
  BY <1>1 DEF Server, HandIsHeadsUp, TM!CanAssignSeat
<1>4. Message("join_ack", {s}) \in Messages /\ BroadcastHandStarted \in Messages
  BY MessageType, BroadcastType DEF Server, Typed, Types, BroadcastHandStarted
<1>5. Typed' /\ Answered'
  <2>1. Typed'
    BY DEF Server, Typed, TakeSeat
  <2>2. <<Message("join_ack", {s})>> \in Seq(Messages)
        /\ <<Message("join_ack", {s}), BroadcastHandStarted>> \in Seq(Messages)
    BY <1>4
  <2>3. \/ last' = [from |-> s, sent |-> <<Message("join_ack", {s})>>]
        \/ last' = [from |-> s, sent |-> <<Message("join_ack", {s}), BroadcastHandStarted>>]
    BY DEF TakeSeat, Handled
  <2>4. CASE last' = [from |-> s, sent |-> <<Message("join_ack", {s})>>]
    BY <2>1, <2>2, <2>4 DEF Answered
  <2>5. CASE last' = [from |-> s, sent |-> <<Message("join_ack", {s}), BroadcastHandStarted>>]
    BY <2>1, <2>2, <2>5 DEF Answered
  <2>6. QED
    BY <2>3, <2>4, <2>5
<1>6. /\ table'.roster = table.roster \cup {p}
      /\ table'.status = [table.status EXCEPT ![p] = "CONNECTED"]
      /\ table'.burned = 0
      /\ TableSound' /\ HandIsHeadsUp'
  <2>1. CASE ~TM!ReadyForHand(u) /\ table' = u
    BY <1>2, <1>3, <2>1 DEF Server, TableSound, HandIsHeadsUp
  <2>2. CASE TM!ReadyForHand(u) /\ table' = TM!HandStarted(u)
    <3>1. /\ TM!Sound(table')
          /\ table'.hand # NoHand /\ table'.hand.players = u.seat /\ table'.hand.folded = {}
          /\ table'.burned = u.burned
          /\ table'.roster = u.roster /\ table'.seat = u.seat /\ table'.status = u.status
      BY <1>2, <2>2, StartedFacts
    <3>2. \A i \in Seats : u.seat[i] # NoPlayer
      BY <2>2 DEF TM!ReadyForHand, Seats
    <3>3. QED
      BY <1>2, <3>1, <3>2 DEF Server, TableSound, HandIsHeadsUp
  <2>3. QED
    BY <2>1, <2>2 DEF TakeSeat
<1>7. MapsInverse' /\ AwayHasNoSession'
  BY <1>1, <1>6, SoundTypes DEF Server, TakeSeat, MapsInverse, AwayHasNoSession, TableSound
<1>8. QED
  BY <1>5, <1>6, <1>7 DEF Server

\* A fold leaves one player whatever isHandComplete reads beyond the vector
LEMMA FoldCompletes ==
  ASSUME NEW h, h.folded \subseteq Seats, h.folded # {}
  PROVE  \A folded \in ReadAsFolded(h) : HandComplete(folded)
<1> SUFFICES ASSUME NEW X \in SUBSET Missing(h)
             PROVE  Cardinality(Seats \ (h.folded \cup X)) <= 1
  BY DEF ReadAsFolded, HandComplete
<1>1. PICK i \in Seats : Seats \ (h.folded \cup X) \subseteq {1 - i}
  BY DEF Missing, Seats, TM!Seats
<1>2. IsFiniteSet({1 - i}) /\ Cardinality({1 - i}) = 1
  BY FS_Singleton
<1>3. Cardinality(Seats \ (h.folded \cup X)) <= Cardinality({1 - i})
  BY <1>1, <1>2, FS_Subset
<1>4. QED
  BY <1>2, <1>3

\* handleAction with a valid action: a call or a raise leaves the hand as open as
\* it was, and a fold ends it in the same handler.
LEMMA ActionKeeps ==
  ASSUME Server, NEW s \in Sessions, NEW a, NEW n \in Int, ActionApplied(s, a, n)
  PROVE  Server'
<1> DEFINE p == toPlayer[s]
           after == TM!Acted(table, p, a, n)
           sent == <<BroadcastActionApplied>> \o ActionRequest(after)
           verdicts == {HandComplete(folded) : folded \in ReadAsFolded(after.hand)}
<1>1. /\ p \in table.roster /\ table.hand # NoHand /\ n \in Int
      /\ TM!ValidAction(table, p, a, n) /\ TM!Sound(table)
  BY ServerAssumption DEF Server, TableSound, ActionApplied, Accepts
<1>2. /\ TM!Sound(after)
      /\ after.hand # NoHand /\ after.hand.players = table.hand.players
      /\ after.hand.folded \in {table.hand.folded, table.hand.folded \cup {table.hand.turn}}
      /\ after.burned = table.burned
      /\ after.roster = table.roster /\ after.seat = table.seat /\ after.status = table.status
  BY <1>1, ActedFacts
<1>3. /\ after.hand.players = after.seat /\ \A i \in Seats : after.seat[i] \in Players
      /\ after.hand.folded \in {{}, {table.hand.turn}} /\ table.hand.turn \in Seats
  BY <1>1, <1>2, SoundTypes DEF Server, HandIsHeadsUp, TM!Hands, Seats
<1>4. /\ BroadcastActionApplied \in Messages /\ Message("error", {s}) \in Messages
      /\ BroadcastHandCompleted(after) \in Messages
  BY <1>2, MessageType, BroadcastType, CompletedType DEF Server, Typed, Types, BroadcastActionApplied
<1>5. sent \in Seq(Messages)
  BY <1>2, <1>4, RequestType DEF Server, Typed
<1>6. \/ /\ UNCHANGED table
         /\ Handled(s, <<>>)
      \/ /\ after.hand.folded = {}
         /\ table' = after
         /\ Handled(s, sent) \/ Handled(s, Append(sent, Message("error", {s})))
      \/ /\ after.hand.folded # {}
         /\ table' = TM!HandEnded(after)
         /\ Handled(s, Append(sent, BroadcastHandCompleted(after)))
  <2>1. after.hand.folded # {} => FALSE \notin verdicts
    BY <1>3, FoldCompletes
  <2>2. TM!ShowdownThrows(after.hand) <=> after.hand.folded = {}
    BY DEF TM!ShowdownThrows
  <2>3. QED
    BY <2>1, <2>2 DEF ActionApplied
<1>7. Typed' /\ MapsInverse' /\ UNCHANGED Maps
  BY DEF Server, Typed, MapsInverse, ActionApplied, Maps
<1>8. CASE UNCHANGED table /\ Handled(s, <<>>)
  <2>1. Answered'
    BY <1>8 DEF Answered, Handled
  <2>2. QED
    BY <1>7, <1>8, <2>1, TableKept, MapsKept DEF Server
<1>9. CASE /\ after.hand.folded = {}
           /\ table' = after
           /\ Handled(s, sent) \/ Handled(s, Append(sent, Message("error", {s})))
  <2>1. Append(sent, Message("error", {s})) \in Seq(Messages)
    BY <1>4, <1>5, AppendProperties
  <2>2. Answered'
    <3>1. CASE Handled(s, sent)
      BY <1>5, <3>1 DEF Answered, Handled
    <3>2. CASE Handled(s, Append(sent, Message("error", {s})))
      BY <2>1, <3>2 DEF Answered, Handled
    <3>3. QED
      BY <1>9, <3>1, <3>2
  <2>3. TableSound' /\ HandIsHeadsUp' /\ table'.burned = 0
    BY <1>2, <1>3, <1>9, ServerAssumption DEF Server, TableSound, HandIsHeadsUp
  <2>4. AwayHasNoSession'
    BY <1>2, <1>7, <1>9, MapsKept
  <2>5. QED
    BY <1>7, <2>2, <2>3, <2>4 DEF Server
<1>10. CASE /\ after.hand.folded # {}
            /\ table' = TM!HandEnded(after)
            /\ Handled(s, Append(sent, BroadcastHandCompleted(after)))
  <2>1. Append(sent, BroadcastHandCompleted(after)) \in Seq(Messages)
    BY <1>4, <1>5, AppendProperties
  <2>2. Answered'
    BY <1>10, <2>1 DEF Answered, Handled
  <2>3. \E i \in Seats \ after.hand.folded : after.hand.players[i] # Freed
    <3>1. TM!Other(table.hand.turn) \in Seats \ after.hand.folded
      BY <1>3 DEF TM!Other, Seats, TM!Seats
    <3>2. QED
      BY <1>3, <3>1, ServerAssumption
  <2>4. ~TM!ShowdownThrows(after.hand)
    BY <1>10 DEF TM!ShowdownThrows
  <2>5. /\ TM!Sound(table')
        /\ table'.hand = NoHand /\ table'.burned = after.burned
        /\ table'.roster = after.roster /\ table'.status = after.status
    BY <1>2, <1>10, <2>3, <2>4, EndedFacts
  <2>6. TableSound' /\ HandIsHeadsUp' /\ table'.burned = 0
    BY <1>2, <2>5 DEF Server, TableSound, HandIsHeadsUp
  <2>7. AwayHasNoSession'
    BY <1>2, <1>7, <2>5, MapsKept
  <2>8. QED
    BY <1>7, <2>2, <2>6, <2>7 DEF Server
<1>11. QED
  BY <1>6, <1>8, <1>9, <1>10

\* handleTopUp
LEMMA TopUpKeeps ==
  ASSUME Server, NEW s \in Sessions, TopUp(s)
  PROVE  Server'
<1>1. Typed' /\ UNCHANGED Maps
  BY DEF Server, Typed, TopUp, Maps
<1>2. Message("top_up_ack", {s}) \in Messages /\ Message("error", {s}) \in Messages
  BY MessageType DEF Types
<1>3. Answered'
  <2>1. \E m \in {Message("top_up_ack", {s}), Message("error", {s})} : Handled(s, <<m>>)
    BY DEF TopUp
  <2>2. QED
    BY <1>2, <2>1 DEF Answered, Handled
<1>4. CASE UNCHANGED table
  BY <1>1, <1>3, <1>4, TableKept, MapsKept DEF Server
<1>5. CASE toPlayer[s] \in table.roster /\ table' = TM!PlayerToppedUp(table, toPlayer[s])
  <2>1. /\ TM!Sound(table')
        /\ table'.hand = table.hand /\ table'.burned = table.burned
        /\ table'.roster = table.roster /\ table'.seat = table.seat
        /\ table'.status = table.status
    BY <1>5, ToppedUpFacts DEF Server, TableSound
  <2>2. QED
    BY <1>1, <1>3, <2>1, MapsKept DEF Server, TableSound, HandIsHeadsUp
<1>6. QED
  BY <1>4, <1>5 DEF TopUp

\* onGraceTimerExpired and the callback of the removal timer
LEMMA TimersKeep ==
  ASSUME Server, NEW p \in Players, GraceTimerExpired(p) \/ RemovalTimerExpired(p)
  PROVE  Server'
<1>1. UNCHANGED Maps /\ toPlayer' = toPlayer /\ toSession' = toSession
      /\ link' = link /\ crashed' = crashed
  BY DEF GraceTimerExpired, RemovalTimerExpired, Maps
<1>2. timers' \in PC!Timers
  BY TimerTypes DEF Server, Typed, GraceTimerExpired, RemovalTimerExpired
<1>3. Typed'
  BY <1>1, <1>2 DEF Server, Typed
<1>4. CASE table' = TM!PlayerSatOut(table, p) /\ Handled(NoSession, <<>>)
  <2>1. KeepsTheGame(table, table') /\ table'.status = table.status
    BY <1>4, ConnectionFacts DEF Server, TableSound
  <2>2. Answered'
    BY <1>4 DEF Answered, Handled
  <2>3. QED
    BY <1>1, <1>3, <2>1, <2>2, GameKept, MapsKept DEF Server, KeepsTheGame
<1>5. CASE UNCHANGED table /\ Handled(NoSession, <<BroadcastPlayerRemoved>>)
  <2>1. BroadcastPlayerRemoved \in Messages
    BY BroadcastType DEF Server, Typed, Types, BroadcastPlayerRemoved
  <2>2. Answered'
    BY <1>5, <2>1 DEF Answered, Handled
  <2>3. QED
    BY <1>1, <1>3, <1>5, <2>2, TableKept, MapsKept DEF Server
<1>6. QED
  BY <1>4, <1>5 DEF GraceTimerExpired, RemovalTimerExpired

\* The answers that change nothing
LEMMA AnswerKeeps ==
  ASSUME Server, NEW s \in Sessions, JoinAnswered(s) \/ ActionRefused(s) \/ Ping(s)
  PROVE  Server'
<1>1. UNCHANGED <<table, timers, toPlayer, toSession, link, crashed>>
  BY DEF JoinAnswered, ActionRefused, Ping
<1>2. \E type \in {"join_ack", "error", "pong"} : Handled(s, <<Message(type, {s})>>)
  BY DEF JoinAnswered, ActionRefused, Ping
<1>3. PICK type \in {"join_ack", "error", "pong"} : Handled(s, <<Message(type, {s})>>)
  BY <1>2
<1>4. Message(type, {s}) \in Messages
  BY MessageType DEF Types
<1>5. Answered'
  BY <1>3, <1>4 DEF Answered, Handled
<1>6. Typed' /\ UNCHANGED Maps
  BY <1>1 DEF Server, Typed, Maps
<1>7. QED
  BY <1>1, <1>5, <1>6, TableKept, MapsKept DEF Server

\* A client may send any int as an amount; Amounts are those TLC tries.
AnyNext ==
  Next \/ \E s \in Sessions, a \in {"fold", "call", "raise"}, n \in Int : ActionApplied(s, a, n)

AnySpec == Init /\ [][AnyNext]_vars

\* Server is inductive: one step per handler
LEMMA Inductive == Server /\ [AnyNext]_vars => Server'
<1> SUFFICES ASSUME Server, [AnyNext]_vars PROVE Server'
  OBVIOUS
<1>1. ASSUME NEW s \in Sessions, NEW p \in Players, Welcome(s, p)
      PROVE  Server'
  BY <1>1, WelcomeKeeps
<1>2. ASSUME NEW s \in Sessions, ReadFailed(s) \/ PingFailed(s)
      PROVE  Server'
  BY <1>2, LostKeeps DEF ReadFailed, PingFailed, Running
<1>3. ASSUME NEW s \in Sessions, NEW p \in Players, Rejoin(s, p)
      PROVE  Server'
  BY <1>3, RejoinKeeps
<1>4. ASSUME NEW s \in Sessions, TakeSeat(s)
      PROVE  Server'
  BY <1>4, TakeSeatKeeps
<1>5. ASSUME NEW s \in Sessions, JoinAnswered(s) \/ ActionRefused(s) \/ Ping(s)
      PROVE  Server'
  BY <1>5, AnswerKeeps
<1>6. ASSUME NEW s \in Sessions, NEW a, NEW n \in Int, ActionApplied(s, a, n)
      PROVE  Server'
  BY <1>6, ActionKeeps
<1>7. ASSUME NEW s \in Sessions, TopUp(s)
      PROVE  Server'
  BY <1>7, TopUpKeeps
<1>8. ASSUME NEW p \in Players, NEW k \in PC!Kinds, Expire(k, p)
      PROVE  Server'
  <2>1. Typed' /\ Answered' /\ UNCHANGED Maps /\ UNCHANGED table
    BY <1>8, TimerTypes DEF Server, Typed, Answered, Expire, Maps
  <2>2. QED
    BY <2>1, TableKept, MapsKept DEF Server
<1>9. ASSUME NEW p \in Players, GraceTimerExpired(p) \/ RemovalTimerExpired(p)
      PROVE  Server'
  BY <1>9, TimersKeep
<1>10. CASE UNCHANGED vars
  <2>1. Typed' /\ Answered' /\ UNCHANGED Maps /\ UNCHANGED table
    BY <1>10 DEF Server, Typed, Answered, Maps, vars
  <2>2. QED
    BY <2>1, TableKept, MapsKept DEF Server
<1>11. QED
  BY <1>1, <1>2, <1>3, <1>4, <1>5, <1>6, <1>7, <1>8, <1>9, <1>10, ServerAssumption
     DEF AnyNext, Next

-----------------------------------------------------------------------------
(* Part 4: the theorems                                                      *)

\* Spec is AnySpec with fewer amounts: the theorems are about it as well.
LEMMA SpecIsAny == Spec => AnySpec
<1>1. [Next]_vars => [AnyNext]_vars
  BY DEF AnyNext
<1>2. QED
  BY <1>1, PTL DEF Spec, AnySpec

\* Every handler, socket loss and timer keeps the inductive invariant.
THEOREM AlwaysServer == AnySpec => []Server
<1>1. QED
  BY InitServer, Inductive, PTL DEF AnySpec

\* No handler leaves the types of the server, its table, its timers or its messages.
THEOREM TypeCorrect == AnySpec => []TypeOK
<1>1. Server => TypeOK
  BY SoundTypes DEF Server, Typed, Answered, TableSound, TypeOK
<1>2. QED
  BY <1>1, AlwaysServer, PTL

\* registerSession, removeSession, handleJoin: whatever order sessions come, go
\* and rejoin in, session_to_player_ and player_sessions_ stay inverse.
THEOREM MapsTheorem == AnySpec => []MapsInverse
<1>1. Server => MapsInverse
  BY DEF Server
<1>2. QED
  BY <1>1, AlwaysServer, PTL

\* onDisconnect, handleJoin: no session is mapped once its read loop is over, and
\* a disconnected player has no session.
THEOREM AwayTheorem == AnySpec => []AwayHasNoSession
<1>1. Server => AwayHasNoSession
  BY DEF Server
<1>2. QED
  BY <1>1, AlwaysServer, PTL

\* The handlers call the table only as TableManager wants to be called.
THEOREM TableTheorem == AnySpec => []TableSound
<1>1. Server => TableSound
  BY DEF Server
<1>2. QED
  BY <1>1, AlwaysServer, PTL

\* handleJoin, handleAction: between two handlers a running hand is played by the
\* two seated players, nobody has folded in it, and no pot was ever burned.
THEOREM HandTheorem == AnySpec => []HandIsOpen
<1>1. Server => HandIsOpen
  BY DEF Server, HandIsHeadsUp, HandIsOpen
<1>2. QED
  BY <1>1, AlwaysServer, PTL

-----------------------------------------------------------------------------
(* Part 5: every message is answered                                         *)

\* What is true of the last message as long as the process lives
Replied ==
  ~crashed /\ last.from # NoSession => \E i \in DOMAIN last.sent : last.from \in last.sent[i].to

\* A reply to the session itself
LEMMA RepliedAlone ==
  ASSUME NEW s \in Sessions, NEW type, Handled(s, <<Message(type, {s})>>)
  PROVE  Replied'
<1>1. last'.from = s /\ 1 \in DOMAIN last'.sent /\ last'.sent[1] = Message(type, {s})
  BY DEF Handled
<1>2. s \in Message(type, {s}).to
  BY DEF Message
<1>3. QED
  BY <1>1, <1>2 DEF Replied

\* handleAction: the session that acted is one of those the broadcast reaches.
LEMMA RepliedAction ==
  ASSUME Server, NEW s \in Sessions, NEW a, NEW n \in Int, ActionApplied(s, a, n)
  PROVE  Replied'
<1> DEFINE after == TM!Acted(table, toPlayer[s], a, n)
           sent == <<BroadcastActionApplied>> \o ActionRequest(after)
<1>1. /\ toPlayer[s] \in table.roster /\ table.hand # NoHand /\ n \in Int
      /\ TM!ValidAction(table, toPlayer[s], a, n) /\ TM!Sound(table)
  BY ServerAssumption DEF Server, TableSound, ActionApplied, Accepts
<1>2. TM!Sound(after) /\ after.hand # NoHand
  BY <1>1, ActedFacts
<1>3. ActionRequest(after) \in Seq(Messages) /\ BroadcastHandCompleted(after) \in Messages
      /\ BroadcastActionApplied \in Messages /\ Message("error", {s}) \in Messages
  BY <1>2, RequestType, CompletedType, BroadcastType, MessageType
     DEF Server, Typed, BroadcastActionApplied, Types
<1>4. sent \in Seq(Messages) /\ 1 \in DOMAIN sent /\ sent[1] = BroadcastActionApplied
  BY <1>3
<1>5. ASSUME NEW m \in Messages
      PROVE  1 \in DOMAIN Append(sent, m) /\ Append(sent, m)[1] = BroadcastActionApplied
  <2>1. sent \in Seq(Messages) /\ Len(sent) \in Nat \ {0}
    BY <1>3
  <2> HIDE DEF sent
  <2>2. QED
    BY <1>4, <2>1
<1>6. s \in BroadcastActionApplied.to
  <2>1. toPlayer[s] \in Players /\ toSession[toPlayer[s]] = s
    BY <1>1, SoundTypes DEF Server, MapsInverse
  <2>2. QED
    BY <2>1, SessionsAssumption DEF BroadcastActionApplied, Broadcast, Message
<1>7. \/ crashed'
      \/ Handled(s, sent)
      \/ \E m \in Messages : Handled(s, Append(sent, m))
  BY <1>3 DEF ActionApplied
<1> HIDE DEF sent
<1>8. CASE Handled(s, sent)
  BY <1>4, <1>6, <1>8 DEF Handled, Replied
<1>9. CASE \E m \in Messages : Handled(s, Append(sent, m))
  BY <1>5, <1>6, <1>9 DEF Handled, Replied
<1>10. QED
  BY <1>7, <1>8, <1>9 DEF Replied

LEMMA RepliedInductive == Server /\ Replied /\ [AnyNext]_vars => Replied'
<1> SUFFICES ASSUME Server, Replied, [AnyNext]_vars PROVE Replied'
  OBVIOUS
<1>1. ASSUME NEW s \in Sessions, NEW p \in Players, Welcome(s, p)
      PROVE  Replied'
  BY <1>1 DEF Welcome, Handled, Replied
<1>2. ASSUME NEW s \in Sessions, ReadFailed(s) \/ PingFailed(s)
      PROVE  Replied'
  BY <1>2 DEF ReadFailed, PingFailed, Lost, Handled, Replied
<1>3. ASSUME NEW s \in Sessions, NEW p \in Players, Rejoin(s, p)
      PROVE  Replied'
  <2>1. /\ last'.from = s /\ 2 \in DOMAIN last'.sent
        /\ last'.sent[2] = Message("join_ack", {s})
    BY <1>3 DEF Rejoin, Handled
  <2>2. QED
    BY <2>1 DEF Replied, Message
<1>4. ASSUME NEW s \in Sessions, TakeSeat(s)
      PROVE  Replied'
  <2>1. /\ last'.from = s /\ 1 \in DOMAIN last'.sent
        /\ last'.sent[1] = Message("join_ack", {s})
    BY <1>4 DEF TakeSeat, Handled
  <2>2. QED
    BY <2>1 DEF Replied, Message
<1>5. ASSUME NEW s \in Sessions, JoinAnswered(s) \/ ActionRefused(s) \/ Ping(s) \/ TopUp(s)
      PROVE  Replied'
  <2>1. \E type \in {"join_ack", "error", "pong", "top_up_ack"} :
          Handled(s, <<Message(type, {s})>>)
    BY <1>5 DEF JoinAnswered, ActionRefused, Ping, TopUp
  <2>2. QED
    BY <2>1, RepliedAlone
<1>6. ASSUME NEW s \in Sessions, NEW a, NEW n \in Int, ActionApplied(s, a, n)
      PROVE  Replied'
  BY <1>6, RepliedAction
<1>7. ASSUME NEW p \in Players, GraceTimerExpired(p) \/ RemovalTimerExpired(p)
      PROVE  Replied'
  BY <1>7 DEF GraceTimerExpired, RemovalTimerExpired, Handled, Replied
<1>8. ASSUME NEW p \in Players, NEW k \in PC!Kinds, Expire(k, p)
      PROVE  Replied'
  BY <1>8 DEF Expire, Replied
<1>9. CASE UNCHANGED vars
  BY <1>9 DEF vars, Replied
<1>10. QED
  BY <1>1, <1>2, <1>3, <1>4, <1>5, <1>6, <1>7, <1>8, <1>9, ServerAssumption
     DEF AnyNext, Next

\* onMessage and the handlers behind it: unless the process dies in the handler,
\* the session that sent a message is among those something is sent to.
THEOREM AnswerTheorem == AnySpec => EveryMessageAnswered
<1>1. Init => Replied
  BY DEF Init, Replied
<1>2. Server /\ Replied /\ [AnyNext]_vars =>
        [~crashed' /\ last'.from # NoSession =>
           \E i \in DOMAIN last'.sent : last'.from \in last'.sent[i].to]_vars
  BY RepliedInductive DEF Replied
<1>3. QED
  BY <1>1, <1>2, RepliedInductive, AlwaysServer, PTL DEF AnySpec, EveryMessageAnswered

-----------------------------------------------------------------------------
(* Part 6: the disconnection machinery inside the server                     *)

\* Nothing has been done to the player that an id without a seat may become.
StrangersUntouched ==
  \A p \in Players \ table.roster :
    /\ table.status[p] = "CONNECTED" /\ ~table.sitting_out[p]
    /\ \A k \in PC!Kinds : p \notin timers.armed[k] /\ p \notin timers.queued[k]

\* What a timer operation for p does to the waits of everybody else
LEMMA TimersOfOthers ==
  ASSUME NEW t \in PC!Timers, NEW p \in Players, NEW q \in Players, q # p,
         NEW u \in {PC!TimersAtDisconnect(t, p), PC!TimersAtReconnect(t, p),
                    PC!TimersAtGraceExpiry(t, p), PC!TimersAtRemovalExpiry(t, p)}
                   \cup {PC!Expired(t, k, p) : k \in PC!Kinds},
         NEW j \in PC!Kinds
  PROVE  /\ q \in u.armed[j] <=> q \in t.armed[j]
         /\ q \in u.queued[j] <=> q \in t.queued[j]
<1> DEFINE Others(x, y) == /\ q \in y.armed[j] <=> q \in x.armed[j]
                           /\ q \in y.queued[j] <=> q \in x.queued[j]
<1>1. ASSUME NEW x \in PC!Timers, NEW k \in PC!Kinds
      PROVE  /\ PC!Started(x, k, p) \in PC!Timers /\ Others(x, PC!Started(x, k, p))
             /\ PC!HandlerTaken(x, k, p) \in PC!Timers /\ Others(x, PC!HandlerTaken(x, k, p))
             /\ Others(x, PC!Expired(x, k, p))
  BY DEF PC!Started, PC!HandlerTaken, PC!Expired, PC!Timers
<1>2. Others(t, PC!Cancelled(t, p))
  BY DEF PC!Cancelled, PC!Timers
<1>3. "grace" \in PC!Kinds /\ "removal" \in PC!Kinds
  BY DEF PC!Kinds
<1> HIDE DEF Others
<1>4. Others(t, PC!TimersAtGraceExpiry(t, p))
  <2>1. Others(t, PC!HandlerTaken(t, "grace", p)) /\ PC!HandlerTaken(t, "grace", p) \in PC!Timers
    BY <1>1, <1>3
  <2>2. Others(PC!HandlerTaken(t, "grace", p), PC!TimersAtGraceExpiry(t, p))
    BY <1>1, <1>3, <2>1 DEF PC!TimersAtGraceExpiry
  <2>3. QED
    BY <2>1, <2>2 DEF Others
<1>5. Others(t, u)
  BY <1>1, <1>2, <1>3, <1>4 DEF PC!TimersAtDisconnect, PC!TimersAtReconnect,
     PC!TimersAtRemovalExpiry
<1>6. QED
  BY <1>5 DEF Others

\* One handler seen from the disconnection machinery: a step of it for a seated
\* player, or none that it sees.
Seen(p) ==
  \/ PC!Disconnect(p) \/ PC!Reconnect(p)
  \/ \E k \in PC!Kinds : PC!Expire(k, p)
  \/ PC!GraceTimerExpired(p) \/ PC!RemovalTimerExpired(p)

LEMMA StrangersKept ==
  ASSUME Server, StrangersUntouched, NEW p \in table.roster, Seen(p), table'.roster = table.roster
  PROVE  StrangersUntouched'
<1>1. p \in Players /\ timers \in PC!Timers
      /\ table.status \in [Players -> TM!Statuses] /\ table.sitting_out \in [Players -> BOOLEAN]
  BY SoundTypes DEF Server, Typed, TableSound
<1>2. timers' \in {PC!TimersAtDisconnect(timers, p), PC!TimersAtReconnect(timers, p),
                   PC!TimersAtGraceExpiry(timers, p), PC!TimersAtRemovalExpiry(timers, p)}
                  \cup {PC!Expired(timers, k, p) : k \in PC!Kinds}
  BY DEF Seen, PC!Disconnect, PC!Reconnect, PC!Expire, PC!GraceTimerExpired, PC!RemovalTimerExpired
<1>3. ASSUME NEW q \in Players, q # p
      PROVE  table'.status[q] = table.status[q] /\ table'.sitting_out[q] = table.sitting_out[q]
  BY <1>1, <1>3 DEF Seen, PC!Disconnect, PC!Reconnect, PC!Expire, PC!GraceTimerExpired,
     PC!RemovalTimerExpired
<1>4. ASSUME NEW q \in Players, q # p, NEW j \in PC!Kinds
      PROVE  /\ q \in timers'.armed[j] <=> q \in timers.armed[j]
             /\ q \in timers'.queued[j] <=> q \in timers.queued[j]
  BY <1>1, <1>2, <1>4, TimersOfOthers
<1>5. QED
  BY <1>3, <1>4 DEF StrangersUntouched

SeenOf == \E p \in table.roster : Seen(p) /\ table'.roster = table.roster
Unseen == UNCHANGED <<timers, table.status, table.sitting_out>> /\ table.roster \subseteq table'.roster

LEMMA LostSeen ==
  ASSUME Server, NEW s \in Sessions, Lost(s)
  PROVE  SeenOf \/ Unseen
<1>1. CASE UNCHANGED <<table, timers>>
  BY <1>1 DEF Unseen
<1>2. CASE /\ toPlayer[s] \in table.roster
           /\ table' = TM!PlayerDisconnected(table, toPlayer[s])
           /\ timers' = PC!TimersAtDisconnect(timers, toPlayer[s])
  <2> DEFINE p == toPlayer[s]
  <2>1. p \in Players /\ toSession[p] = s
    BY <1>2, SoundTypes DEF Server, TableSound, MapsInverse
  <2>2. table.status[p] = "CONNECTED"
    BY <1>2, <2>1, SoundTypes, SessionsAssumption
       DEF Server, TableSound, AwayHasNoSession, TM!Statuses
  <2>3. PC!Disconnect(p) /\ table'.roster = table.roster
    BY <1>2, <2>1, <2>2, ConnectionFacts DEF Server, TableSound, KeepsTheGame, PC!Disconnect
  <2>4. QED
    BY <1>2, <2>3 DEF SeenOf, Seen
<1>3. QED
  BY <1>1, <1>2 DEF Lost

\* A seat is taken by an id that no timer runs for.
LEMMA TakeSeatUnseen ==
  ASSUME Server, StrangersUntouched, NEW s \in Sessions, TakeSeat(s)
  PROVE  Unseen
<1> DEFINE p == toPlayer[s]
           u == TM!Seated(table, p, FreeSeat)
<1>1. p \in Players /\ p \notin table.roster /\ FreeSeat \in Seats
      /\ TM!CanAssignSeat(table, p, FreeSeat) /\ TM!Sound(table)
  BY DEF Server, Typed, TableSound, TakeSeat, FreeSeat, Seats, TM!Seats, TM!CanAssignSeat
<1>2. /\ TM!Sound(u)
      /\ u.roster = table.roster \cup {p}
      /\ u.status = [table.status EXCEPT ![p] = "CONNECTED"]
      /\ u.sitting_out = [table.sitting_out EXCEPT ![p] = FALSE]
  <2>1. ASSUME NEW q \in Players, NEW i \in Seats, TM!CanAssignSeat(table, q, i)
        PROVE  /\ TM!Sound(TM!Seated(table, q, i))
               /\ TM!Seated(table, q, i).roster = table.roster \cup {q}
               /\ TM!Seated(table, q, i).status = [table.status EXCEPT ![q] = "CONNECTED"]
    BY <1>1, <2>1, SeatedFacts
  <2>2. ASSUME NEW q \in Players, NEW i \in Seats
        PROVE  TM!Seated(table, q, i).sitting_out = [table.sitting_out EXCEPT ![q] = FALSE]
    BY <1>1, <2>2, SeatedActive
  <2>3. QED
    BY <1>1, <2>1, <2>2
<1>3. u.status = table.status /\ u.sitting_out = table.sitting_out
  BY <1>1, <1>2, SoundTypes DEF StrangersUntouched
<1>4. CASE table' = u
  BY <1>2, <1>3, <1>4 DEF Unseen, TakeSeat
<1>5. CASE TM!ReadyForHand(u) /\ table' = TM!HandStarted(u)
  <2>1. table'.roster = u.roster /\ table'.status = u.status /\ table'.sitting_out = u.sitting_out
    BY <1>2, <1>5, StartedFacts
  <2>2. QED
    BY <1>2, <1>3, <2>1 DEF Unseen, TakeSeat
<1>6. QED
  BY <1>4, <1>5 DEF TakeSeat

LEMMA ActionUnseen ==
  ASSUME Server, NEW s \in Sessions, NEW a, NEW n \in Int, ActionApplied(s, a, n)
  PROVE  Unseen
<1> DEFINE after == TM!Acted(table, toPlayer[s], a, n)
<1>1. /\ toPlayer[s] \in table.roster /\ table.hand # NoHand /\ n \in Int
      /\ TM!ValidAction(table, toPlayer[s], a, n) /\ TM!Sound(table)
  BY ServerAssumption DEF Server, TableSound, ActionApplied, Accepts
<1>2. /\ after.roster = table.roster /\ after.status = table.status
      /\ after.sitting_out = table.sitting_out /\ TM!Sound(after)
  BY <1>1, ActedFacts
<1>3. /\ TM!HandEnded(after).roster = after.roster
      /\ TM!HandEnded(after).status = after.status
      /\ TM!HandEnded(after).sitting_out = after.sitting_out
  BY <1>2, SoundTypes DEF TM!HandEnded, TM!Tables
<1>4. table' \in {table, after, TM!HandEnded(after)} /\ timers' = timers
  BY DEF ActionApplied
<1> HIDE DEF after
<1>5. QED
  BY <1>2, <1>3, <1>4 DEF Unseen

LEMMA EveryStepSeen ==
  ASSUME Server, StrangersUntouched, [AnyNext]_vars
  PROVE  SeenOf \/ Unseen
<1>1. CASE UNCHANGED <<table, timers>>
  BY <1>1 DEF Unseen
<1>2. ASSUME NEW s \in Sessions, Lost(s)
      PROVE  SeenOf \/ Unseen
  BY <1>2, LostSeen
<1>3. ASSUME NEW s \in Sessions, NEW p \in Players, Rejoin(s, p)
      PROVE  SeenOf
  <2>1. PC!Reconnect(p) /\ table'.roster = table.roster /\ p \in table.roster
    BY <1>3, ConnectionFacts DEF Server, TableSound, KeepsTheGame, Rejoin, CanRejoin, PC!Reconnect
  <2>2. QED
    BY <2>1 DEF SeenOf, Seen
<1>4. ASSUME NEW s \in Sessions, TopUp(s)
      PROVE  Unseen
  <2>1. CASE UNCHANGED table
    BY <1>4, <2>1 DEF TopUp, Unseen
  <2>2. CASE toPlayer[s] \in table.roster /\ table' = TM!PlayerToppedUp(table, toPlayer[s])
    BY <1>4, <2>2, ToppedUpFacts DEF Server, TableSound, TopUp, Unseen
  <2>3. QED
    BY <1>4, <2>1, <2>2 DEF TopUp
<1>5. ASSUME NEW p \in Players, NEW k \in PC!Kinds, Expire(k, p)
      PROVE  SeenOf
  <2>1. p \in table.roster
    BY <1>5 DEF Expire, PC!CanExpire, StrangersUntouched
  <2>2. PC!Expire(k, p) /\ table'.roster = table.roster
    BY <1>5 DEF Expire, PC!Expire
  <2>3. QED
    BY <2>1, <2>2 DEF SeenOf, Seen
<1>6. ASSUME NEW p \in Players, GraceTimerExpired(p)
      PROVE  SeenOf
  <2>1. p \in table.roster
    BY <1>6 DEF GraceTimerExpired, StrangersUntouched, PC!Kinds
  <2>2. PC!GraceTimerExpired(p) /\ table'.roster = table.roster
    BY <1>6, ConnectionFacts
       DEF Server, TableSound, KeepsTheGame, GraceTimerExpired, PC!GraceTimerExpired
  <2>3. QED
    BY <2>1, <2>2 DEF SeenOf, Seen
<1>7. ASSUME NEW p \in Players, RemovalTimerExpired(p)
      PROVE  SeenOf
  <2>1. p \in table.roster
    BY <1>7 DEF RemovalTimerExpired, StrangersUntouched, PC!Kinds
  <2>2. PC!RemovalTimerExpired(p) /\ table'.roster = table.roster
    BY <1>7 DEF RemovalTimerExpired, PC!RemovalTimerExpired
  <2>3. QED
    BY <2>1, <2>2 DEF SeenOf, Seen
<1>8. CASE \E s \in Sessions : TakeSeat(s)
  BY <1>8, TakeSeatUnseen
<1>9. CASE \E s \in Sessions, a \in {"fold", "call", "raise"}, n \in Int : ActionApplied(s, a, n)
  BY <1>9, ActionUnseen
<1>10. CASE \/ \E s \in Sessions, p \in Players : Welcome(s, p)
            \/ \E s \in Sessions : JoinAnswered(s) \/ ActionRefused(s) \/ Ping(s)
            \/ UNCHANGED vars
  BY <1>1, <1>10 DEF Welcome, JoinAnswered, ActionRefused, Ping, vars
<1>11. QED
  BY <1>2, <1>3, <1>4, <1>5, <1>6, <1>7, <1>8, <1>9, <1>10, ServerAssumption
     DEF AnyNext, Next, ReadFailed, PingFailed

LEMMA StrangersInductive ==
  Server /\ StrangersUntouched /\ [AnyNext]_vars => StrangersUntouched' /\ [PC!Next]_(PC!vars)
<1> SUFFICES ASSUME Server, StrangersUntouched, [AnyNext]_vars
             PROVE  StrangersUntouched' /\ [PC!Next]_(PC!vars)
  OBVIOUS
<1>1. CASE SeenOf
  <2>1. PICK p \in table.roster : Seen(p) /\ table'.roster = table.roster
    BY <1>1 DEF SeenOf
  <2>2. p \in Players
    BY SoundTypes DEF Server, TableSound
  <2>3. StrangersUntouched'
    BY <2>1, StrangersKept
  <2>4. PC!Next
    BY <2>1, <2>2 DEF Seen, PC!Next
  <2>5. QED
    BY <2>3, <2>4
<1>2. CASE Unseen
  BY <1>2 DEF Unseen, StrangersUntouched, PC!vars
<1>3. QED
  BY <1>1, <1>2, EveryStepSeen

\* onDisconnect, handleJoin and the timer callbacks drive PlayerStateManager and
\* ConnectionManager in no way that PlayerConnection does not describe.
THEOREM ConnectionsTheorem == AnySpec => Connections
<1>1. Init => PC!Init /\ StrangersUntouched
  BY DEF Init, PC!Init, TM!EmptyTable, StrangersUntouched, PC!NoTimers
<1>2. QED
  BY <1>1, StrangersInductive, AlwaysServer, PTL DEF AnySpec, Connections, PC!Spec

-----------------------------------------------------------------------------
(* Part 7: the chip ledger through whole handlers                            *)

Chips(t) == [i \in TM!Seats |-> TM!ChipsAt(t, i)]
View(t) == <<Chips(t), TM!PotOf(t), t.burned>>

LEMMA SameChips ==
  ASSUME NEW t
  PROVE  /\ TM!PotOf(t) = TMP!PotOf(t)
         /\ \A s \in Seats : TM!ChipsAt(t, s) = TMP!ChipsAt(t, s)
BY DEF TM!PotOf, TMP!PotOf, TM!ChipsAt, TMP!ChipsAt

LEMMA ChipTypes ==
  ASSUME NEW t, TM!Sound(t)
  PROVE  /\ TM!PotOf(t) \in Nat /\ t.burned \in Nat
         /\ Chips(t) \in [TM!Seats -> Nat]
         /\ \A s \in Seats : Chips(t)[s] = TM!ChipsAt(t, s) /\ TM!ChipsAt(t, s) \in Nat
<1>1. t \in TM!Tables
  BY SoundTypes
<1>2. \A s \in TM!Seats : TM!ChipsAt(t, s) \in Nat
  BY <1>1 DEF TM!ChipsAt, TM!Tables
<1>3. TM!PotOf(t) \in Nat
  BY <1>1 DEF TM!PotOf, TM!Tables, TM!Hands
<1>4. QED
  BY <1>1, <1>2, <1>3, SoundTypes DEF Chips, Seats

\* Buying in or topping up at one seat
LEMMA BuyStep ==
  ASSUME TM!Sound(table), TM!Sound(table'), NEW s \in Seats,
         TM!PotOf(table') = TM!PotOf(table), table'.burned = table.burned,
         TM!ChipsAt(table', s) >= TM!ChipsAt(table, s),
         TM!ChipsAt(table', 1 - s) = TM!ChipsAt(table, 1 - s)
  PROVE  TM!Ledger!Next
<1>1. Chips(table') \in [TM!Seats -> Nat] /\ 1 - s \in Seats
  BY ChipTypes, SameSeats
<1>2. Chips(table')[s] >= Chips(table)[s] /\ Chips(table')[1 - s] = Chips(table)[1 - s]
  BY <1>1, ChipTypes
<1>3. TM!Ledger!Buy(s)
  BY <1>1, <1>2 DEF TM!Ledger!Buy, TM!Ledger!Seats, TM!Seats, Chips
<1>4. QED
  BY <1>3, SameSeats DEF TM!Ledger!Next, TM!Ledger!Seats

\* assignSeat
LEMMA SeatedChips ==
  ASSUME NEW t, TM!Sound(t), NEW p \in Players, NEW s \in Seats, TM!CanAssignSeat(t, p, s)
  PROVE  LET u == TM!Seated(t, p, s)
         IN /\ TM!PotOf(u) = TM!PotOf(t) /\ u.burned = t.burned
            /\ TM!ChipsAt(u, s) >= TM!ChipsAt(t, s)
            /\ TM!ChipsAt(u, 1 - s) = TM!ChipsAt(t, 1 - s)
<1>1. TM!Seated(t, p, s) = TMP!Seated(t, p, s)
  BY DEF TM!Seated, TMP!Seated
<1>2. TMP!CanAssignSeat(t, p, s) /\ TMP!Sound(t) /\ s \in TMP!Seats /\ TMP!Other(s) = 1 - s
  BY SameSound, SameSeats DEF TM!CanAssignSeat, TMP!CanAssignSeat, TMP!Other
<1>3. /\ TMP!PotOf(TMP!Seated(t, p, s)) = TMP!PotOf(t)
      /\ TMP!ChipsAt(t, s) = 0
      /\ TMP!ChipsAt(TMP!Seated(t, p, s), s) = StartingStack
      /\ TMP!ChipsAt(TMP!Seated(t, p, s), TMP!Other(s)) = TMP!ChipsAt(t, TMP!Other(s))
  BY <1>2, TMP!SeatedSound, TableAssumptions
<1>4. TM!Seated(t, p, s).burned = t.burned
  BY SoundTypes DEF TM!Seated, TM!Tables
<1>5. QED
  BY <1>1, <1>2, <1>3, <1>4, SameChips, ServerAssumption, SameSeats

\* startHand
LEMMA StartedChips ==
  ASSUME NEW t, TM!Sound(t), TM!ReadyForHand(t)
  PROVE  View(TM!HandStarted(t)) = View(t)
<1>1. TM!HandStarted(t) = TMP!HandStarted(t)
  BY DEF TM!HandStarted, TMP!HandStarted, TM!Seats, TMP!Seats, TM!Other, TMP!Other
<1>2. TMP!ReadyForHand(t) /\ TMP!Sound(t) /\ t.hand = NoHand
  BY SameSound, SoundTypes DEF TM!ReadyForHand, TMP!ReadyForHand, TM!Seats, TMP!Seats
<1>3. /\ TMP!PotOf(TMP!HandStarted(t)) = TMP!PotOf(t)
      /\ TMP!HandStarted(t).burned = t.burned
      /\ \A s \in TMP!Seats : TMP!ChipsAt(TMP!HandStarted(t), s) = TMP!ChipsAt(t, s)
  BY <1>2, TMP!StartedSound, TableAssumptions
<1>4. \A s \in TM!Seats : TM!ChipsAt(TM!HandStarted(t), s) = TM!ChipsAt(t, s)
  BY <1>1, <1>3, SameChips, SameSeats
<1>5. QED
  BY <1>1, <1>3, <1>4, SameChips DEF View, Chips

\* processPlayerAction
LEMMA ActedChips ==
  ASSUME NEW t, TM!Sound(t), t.hand # NoHand, NEW p \in t.roster, NEW a, NEW n \in Int,
         TM!ValidAction(t, p, a, n)
  PROVE  LET u == TM!Acted(t, p, a, n)
         IN /\ n \in Nat /\ u.hand.pot = t.hand.pot + n
            /\ u.hand.folded # t.hand.folded => n = 0
            /\ \E s \in Seats : /\ n <= TM!ChipsAt(t, s)
                                /\ TM!ChipsAt(u, s) = TM!ChipsAt(t, s) - n
                                /\ TM!ChipsAt(u, 1 - s) = TM!ChipsAt(t, 1 - s)
<1> DEFINE u == TM!Acted(t, p, a, n)
           g == IF a = "fold" THEN TM!HandFolded(t.hand) ELSE TM!HandPaid(t.hand, a, n)
<1>1. t \in TM!Tables /\ t.hand \in TM!Hands /\ p \in Players
  BY SoundTypes
<1>2. n \in Nat /\ (a = "fold" => n = 0) /\ n <= t.stack[p]
  <2>1. n >= 0 /\ (a = "fold" => n = 0) /\ (a # "fold" => n <= t.stack[p])
    BY DEF TM!ValidAction, TM!Affordable
  <2>2. t.stack[p] \in Nat
    BY <1>1 DEF TM!Tables
  <2>3. QED
    BY <2>1, <2>2
<1>3. u.seat = t.seat /\ u.stack = [t.stack EXCEPT ![p] = @ - n] /\ u.hand = g
  BY <1>1 DEF TM!Acted, TM!Tables
<1>4. g.pot = t.hand.pot + n /\ (g.folded # t.hand.folded => n = 0)
  <2>1. CASE a = "fold"
    BY <1>1, <1>2, <2>1 DEF TM!HandFolded, TM!Hands
  <2>2. CASE a # "fold"
    BY <1>1, <2>2 DEF TM!HandPaid, TM!Hands
  <2>3. QED
    BY <2>1, <2>2
<1>5. PICK s \in Seats : t.seat[s] = p /\ t.seat[1 - s] # p
  <2>1. /\ t.roster = {t.seat[s] : s \in TM!Seats} \ {NoPlayer}
        /\ t.seat[0] = t.seat[1] => t.seat[0] = NoPlayer
    BY DEF TM!Sound, TM!SeatsInStep
  <2>2. QED
    BY <2>1, <1>1, ServerAssumption, SameSeats
<1> HIDE DEF u, g
<1>6. TM!ChipsAt(t, s) = t.stack[p] /\ TM!ChipsAt(u, s) = t.stack[p] - n
  BY <1>1, <1>3, <1>5, ServerAssumption DEF TM!ChipsAt, TM!Tables
<1>7. TM!ChipsAt(u, 1 - s) = TM!ChipsAt(t, 1 - s)
  <2>1. t.seat[1 - s] # NoPlayer => t.seat[1 - s] \in Players
    BY <1>1, SameSeats DEF TM!Tables
  <2>2. QED
    BY <1>1, <1>3, <1>5, <2>1 DEF TM!ChipsAt, TM!Tables
<1>8. QED
  BY <1>2, <1>3, <1>4, <1>6, <1>7 DEF u

\* endHand with somebody left in the hand
LEMMA EndedChips ==
  ASSUME NEW t, TM!Sound(t), t.hand # NoHand, ~TM!ShowdownThrows(t.hand),
         \E s \in Seats \ t.hand.folded : t.hand.players[s] # Freed
  PROVE  LET u == TM!HandEnded(t)
         IN /\ TM!PotOf(u) = 0 /\ u.burned = t.burned
            /\ \E w \in Seats : \A s \in Seats :
                 TM!ChipsAt(u, s) >= TM!ChipsAt(t, s) + IF s = w THEN TM!PotOf(t) ELSE 0
<1> DEFINE u == TMP!HandEnded(t)
<1>1. TM!HandEnded(t) = u
  BY DEF TM!HandEnded, TMP!HandEnded, TM!Won, TMP!Won, TM!ToppedUp, TMP!ToppedUp,
     TM!PotReceiver, TMP!PotReceiver, TM!Active, TMP!Active, TM!Seats, TMP!Seats,
     TM!NextDealer, TMP!NextDealer, TM!Other, TMP!Other
<1>2. ~TMP!ShowdownThrows(t.hand) /\ TMP!Sound(t)
  BY SameSound DEF TM!ShowdownThrows, TMP!ShowdownThrows
<1>3. /\ TMP!PotOf(u) = 0 /\ TMP!PotOf(t) = t.hand.pot
      /\ \/ /\ u.burned = t.burned + t.hand.pot
            /\ \A s \in TMP!Seats : TMP!ChipsAt(u, s) >= TMP!ChipsAt(t, s)
         \/ /\ u.burned = t.burned
            /\ \E w \in TMP!Seats : \A s \in TMP!Seats :
                 TMP!ChipsAt(u, s) >= TMP!ChipsAt(t, s) + IF s = w THEN t.hand.pot ELSE 0
  BY <1>2, TMP!EndedSound, TableAssumptions
<1>4. u.burned = t.burned
  BY <1>1, EndedFacts
<1> HIDE DEF u
<1>5. TM!PotOf(t) = t.hand.pot /\ t.hand.pot \in Nat /\ t.burned \in Nat
      /\ \A s \in Seats : TM!ChipsAt(t, s) \in Nat
  BY <1>3, SameChips, ChipTypes
<1>6. \E w \in Seats : \A s \in Seats :
        TM!ChipsAt(u, s) >= TM!ChipsAt(t, s) + IF s = w THEN TM!PotOf(t) ELSE 0
  <2>1. CASE /\ u.burned = t.burned + t.hand.pot
             /\ \A s \in TMP!Seats : TMP!ChipsAt(u, s) >= TMP!ChipsAt(t, s)
    <3>1. TM!PotOf(t) = 0
      BY <1>4, <1>5, <2>1
    <3>2. \A s \in Seats : TM!ChipsAt(u, s) >= TM!ChipsAt(t, s) + 0
      BY <1>5, <2>1, SameChips, SameSeats
    <3>3. QED
      BY <3>1, <3>2, SameSeats
  <2>2. CASE \E w \in TMP!Seats : \A s \in TMP!Seats :
               TMP!ChipsAt(u, s) >= TMP!ChipsAt(t, s) + IF s = w THEN t.hand.pot ELSE 0
    BY <1>5, <2>2, SameChips, SameSeats
  <2>3. QED
    BY <1>3, <2>1, <2>2
<1>7. TM!PotOf(u) = 0
  BY <1>3, SameChips
<1>8. QED
  BY <1>1, <1>4, <1>6, <1>7

\* handleTopUp
LEMMA ToppedUpChips ==
  ASSUME NEW t, TM!Sound(t), NEW p \in t.roster
  PROVE  LET u == TM!PlayerToppedUp(t, p)
         IN /\ TM!PotOf(u) = TM!PotOf(t) /\ u.burned = t.burned
            /\ \E s \in Seats : /\ TM!ChipsAt(u, s) >= TM!ChipsAt(t, s)
                                /\ TM!ChipsAt(u, 1 - s) = TM!ChipsAt(t, 1 - s)
<1> DEFINE u == TMP!PlayerToppedUp(t, p)
<1>1. TM!PlayerToppedUp(t, p) = u
  BY DEF TM!PlayerToppedUp, TMP!PlayerToppedUp, TM!ToppedUp, TMP!ToppedUp
<1>2. /\ TMP!PotOf(u) = TMP!PotOf(t) /\ u.burned = t.burned
      /\ \A s \in TMP!Seats : t.seat[s] = p => TMP!ChipsAt(u, s) >= TMP!ChipsAt(t, s)
      /\ \A s \in TMP!Seats : t.seat[s] # p => TMP!ChipsAt(u, s) = TMP!ChipsAt(t, s)
  BY SameSound, TMP!PlayerToppedUpSound, TableAssumptions
<1>3. PICK s \in Seats : t.seat[s] = p /\ t.seat[1 - s] # p
  <2>1. /\ t.roster = {t.seat[r] : r \in TM!Seats} \ {NoPlayer}
        /\ t.seat[0] = t.seat[1] => t.seat[0] = NoPlayer
    BY DEF TM!Sound, TM!SeatsInStep
  <2>2. QED
    BY <2>1, SameSeats
<1> HIDE DEF u
<1>4. TM!ChipsAt(u, s) >= TM!ChipsAt(t, s) /\ TM!ChipsAt(u, 1 - s) = TM!ChipsAt(t, 1 - s)
  BY <1>2, <1>3, SameChips, SameSeats
<1>5. QED
  BY <1>1, <1>2, <1>4, SameChips

\* handleJoin: the seat is bought, and a hand that starts moves no chip.
LEMMA TakeSeatLedger ==
  ASSUME Server, Server', NEW s \in Sessions, TakeSeat(s)
  PROVE  TM!Ledger!Next
<1> DEFINE p == toPlayer[s]
           u == TM!Seated(table, p, FreeSeat)
<1>1. /\ p \in Players /\ FreeSeat \in Seats /\ TM!CanAssignSeat(table, p, FreeSeat)
      /\ TM!Sound(table) /\ TM!Sound(table')
  BY DEF Server, Typed, TableSound, TakeSeat, FreeSeat, Seats, TM!Seats
<1>2. /\ TM!Sound(u)
      /\ TM!PotOf(u) = TM!PotOf(table) /\ u.burned = table.burned
      /\ TM!ChipsAt(u, FreeSeat) >= TM!ChipsAt(table, FreeSeat)
      /\ TM!ChipsAt(u, 1 - FreeSeat) = TM!ChipsAt(table, 1 - FreeSeat)
  <2>1. ASSUME NEW q \in Players, NEW i \in Seats, TM!CanAssignSeat(table, q, i)
        PROVE  TM!Sound(TM!Seated(table, q, i))
    BY <1>1, <2>1, SeatedFacts
  <2>2. ASSUME NEW q \in Players, NEW i \in Seats, TM!CanAssignSeat(table, q, i)
        PROVE  LET v == TM!Seated(table, q, i)
               IN /\ TM!PotOf(v) = TM!PotOf(table) /\ v.burned = table.burned
                  /\ TM!ChipsAt(v, i) >= TM!ChipsAt(table, i)
                  /\ TM!ChipsAt(v, 1 - i) = TM!ChipsAt(table, 1 - i)
    BY <1>1, <2>2, SeatedChips
  <2>3. QED
    BY <1>1, <2>1, <2>2
<1> HIDE DEF u
<1>3. View(table') = View(u)
  <2>1. CASE table' = u
    BY <2>1
  <2>2. CASE TM!ReadyForHand(u) /\ table' = TM!HandStarted(u)
    BY <1>2, <2>2, StartedChips
  <2>3. QED
    BY <2>1, <2>2 DEF TakeSeat, u
<1>4. /\ TM!PotOf(table') = TM!PotOf(u) /\ table'.burned = u.burned
      /\ \A i \in Seats : TM!ChipsAt(table', i) = TM!ChipsAt(u, i)
  <2>1. Chips(table') = Chips(u) /\ TM!PotOf(table') = TM!PotOf(u) /\ table'.burned = u.burned
    BY <1>3 DEF View
  <2>2. \A i \in Seats : Chips(table')[i] = Chips(u)[i]
    BY <2>1
  <2>3. QED
    BY <1>1, <1>2, <2>1, <2>2, ChipTypes
<1>5. 1 - FreeSeat \in Seats
  BY <1>1, SameSeats
<1>6. QED
  BY <1>1, <1>2, <1>4, <1>5, BuyStep

\* A seat's chips given by their values at the seat and at the other one
LEMMA ChipUpdate ==
  ASSUME NEW f \in [TM!Seats -> Nat], NEW g \in [TM!Seats -> Nat], NEW s \in Seats, NEW v,
         g[s] = v, g[1 - s] = f[1 - s]
  PROVE  g = [f EXCEPT ![s] = v]
<1>1. \A r \in TM!Seats : r = s \/ r = 1 - s
  BY SameSeats
<1>2. \A r \in TM!Seats : g[r] = [f EXCEPT ![s] = v][r]
  BY <1>1
<1>3. QED
  BY <1>2

\* handleAction: a call or a raise is a bet; a fold bets nothing and settles the pot.
LEMMA ActionLedger ==
  ASSUME Server, Server', NEW s \in Sessions, NEW a, NEW n \in Int, ActionApplied(s, a, n)
  PROVE  TM!Ledger!Next \/ UNCHANGED table
<1> DEFINE p == toPlayer[s]
           after == TM!Acted(table, p, a, n)
           verdicts == {HandComplete(folded) : folded \in ReadAsFolded(after.hand)}
<1>1. /\ p \in table.roster /\ table.hand # NoHand /\ n \in Int
      /\ TM!ValidAction(table, p, a, n) /\ TM!Sound(table) /\ TM!Sound(table')
  BY ServerAssumption DEF Server, TableSound, ActionApplied, Accepts
<1>2. /\ TM!Sound(after)
      /\ after.hand # NoHand /\ after.hand.players = table.hand.players
      /\ after.hand.folded \in {table.hand.folded, table.hand.folded \cup {table.hand.turn}}
      /\ after.burned = table.burned /\ after.seat = table.seat
  BY <1>1, ActedFacts
<1>3. PICK i \in Seats : /\ n <= TM!ChipsAt(table, i)
                         /\ TM!ChipsAt(after, i) = TM!ChipsAt(table, i) - n
                         /\ TM!ChipsAt(after, 1 - i) = TM!ChipsAt(table, 1 - i)
  BY <1>1, ActedChips
<1>4. /\ n \in Nat /\ TM!PotOf(after) = TM!PotOf(table) + n
      /\ after.hand.folded # table.hand.folded => n = 0
  <2>1. /\ n \in Nat /\ after.hand.pot = table.hand.pot + n
        /\ after.hand.folded # table.hand.folded => n = 0
    BY <1>1, ActedChips
  <2>2. QED
    BY <1>1, <1>2, <2>1 DEF TM!PotOf
<1>5. /\ \A r \in Seats : after.hand.players[r] \in Players
      /\ table.hand.folded = {} /\ table.hand.turn \in Seats
  BY <1>1, <1>2, SoundTypes DEF Server, HandIsHeadsUp, TM!Hands, Seats
<1>6. \/ UNCHANGED table
      \/ table' = after
      \/ after.hand.folded # {} /\ table' = TM!HandEnded(after)
  BY DEF ActionApplied, TM!ShowdownThrows
<1> HIDE DEF after
<1>7. CASE table' = after
  <2>1. Chips(table) \in [TM!Seats -> Nat] /\ Chips(table') \in [TM!Seats -> Nat]
        /\ 1 - i \in Seats
    BY <1>1, ChipTypes, SameSeats
  <2>2. Chips(table')[i] = Chips(table)[i] - n /\ Chips(table')[1 - i] = Chips(table)[1 - i]
        /\ n \in 0..Chips(table)[i]
    BY <1>1, <1>2, <1>3, <1>4, <1>7, <2>1, ChipTypes
  <2>3. Chips(table') = [Chips(table) EXCEPT ![i] = Chips(table)[i] - n]
    BY <2>1, <2>2, ChipUpdate
  <2>4. TM!Ledger!Bet(i)
    BY <1>2, <1>4, <1>7, <2>2, <2>3 DEF TM!Ledger!Bet, Chips
  <2>5. QED
    BY <2>4, SameSeats DEF TM!Ledger!Next, TM!Ledger!Seats
<1>8. CASE after.hand.folded # {} /\ table' = TM!HandEnded(after)
  <2>1. n = 0 /\ after.hand.folded = {table.hand.turn}
    BY <1>2, <1>4, <1>5, <1>8
  <2>2. \E r \in Seats \ after.hand.folded : after.hand.players[r] # Freed
    <3>1. TM!Other(table.hand.turn) \in Seats \ after.hand.folded
      BY <1>5, <2>1, SameSeats DEF TM!Other
    <3>2. QED
      BY <1>5, <3>1, ServerAssumption
  <2>3. ~TM!ShowdownThrows(after.hand)
    BY <1>8 DEF TM!ShowdownThrows
  <2>4. /\ TM!PotOf(table') = 0 /\ table'.burned = after.burned
        /\ \E w \in Seats : \A r \in Seats :
             TM!ChipsAt(table', r) >= TM!ChipsAt(after, r) + IF r = w THEN TM!PotOf(after) ELSE 0
    BY <1>2, <1>8, <2>2, <2>3, EndedChips
  <2>5. TM!PotOf(after) = TM!PotOf(table)
    BY <1>1, <1>4, <2>1, ChipTypes
  <2>6. \A r \in Seats : TM!ChipsAt(after, r) = TM!ChipsAt(table, r)
    <3>1. \A r \in Seats : r = i \/ r = 1 - i
      BY SameSeats
    <3>2. TM!ChipsAt(after, i) = TM!ChipsAt(table, i)
      BY <1>1, <1>3, <2>1, ChipTypes
    <3>3. QED
      BY <1>3, <3>1, <3>2
  <2>7. Chips(table') \in [TM!Seats -> Nat]
        /\ \E w \in Seats : \A r \in Seats :
             Chips(table')[r] >= Chips(table)[r] + IF r = w THEN TM!PotOf(table) ELSE 0
    BY <1>1, <2>4, <2>5, <2>6, ChipTypes
  <2>8. \E w \in Seats : TM!Ledger!Settle(w)
    BY <1>2, <2>4, <2>7 DEF TM!Ledger!Settle, TM!Ledger!Seats, TM!Seats, Seats, Chips
  <2>9. QED
    BY <2>8, SameSeats DEF TM!Ledger!Next, TM!Ledger!Seats
<1>9. QED
  BY <1>6, <1>7, <1>8

\* What the disconnection machinery does moves no chip.
LEMMA KeptView ==
  ASSUME NEW t, NEW u, u.seat = t.seat, u.stack = t.stack, u.hand = t.hand, u.burned = t.burned
  PROVE  View(u) = View(t)
BY DEF View, Chips, TM!ChipsAt, TM!PotOf

\* handleJoin, handleAction, handleTopUp: each whole handler is one step of the
\* chip ledger, or none that it sees; no handler but these touches a chip.
THEOREM LedgerTheorem == AnySpec => Ledger
<1>1. Init => TM!Ledger!Init
  <2> SUFFICES ASSUME Init PROVE TM!Ledger!Init
    OBVIOUS
  <2>1. table.hand = NoHand /\ table.burned = 0 /\ \A i \in TM!Seats : table.seat[i] = NoPlayer
    BY DEF Init, TM!EmptyTable
  <2>2. QED
    BY <2>1 DEF TM!Ledger!Init, TM!ChipsAt, TM!PotOf, TM!Seats, TM!Ledger!Seats
<1>2. ASSUME Server, Server', AnyNext
      PROVE  TM!Ledger!Next \/ View(table') = View(table)
  <2>1. ASSUME NEW s \in Sessions, TakeSeat(s)
        PROVE  TM!Ledger!Next
    BY <1>2, <2>1, TakeSeatLedger
  <2>2. ASSUME NEW s \in Sessions, NEW a, NEW n \in Int, ActionApplied(s, a, n)
        PROVE  TM!Ledger!Next \/ View(table') = View(table)
    BY <1>2, <2>2, ActionLedger
  <2>3. ASSUME NEW s \in Sessions, TopUp(s)
        PROVE  TM!Ledger!Next \/ View(table') = View(table)
    <3>1. CASE toPlayer[s] \in table.roster /\ table' = TM!PlayerToppedUp(table, toPlayer[s])
      <4>1. TM!Sound(table) /\ TM!Sound(table')
        BY <1>2 DEF Server, TableSound
      <4>2. /\ TM!PotOf(table') = TM!PotOf(table) /\ table'.burned = table.burned
            /\ \E i \in Seats : /\ TM!ChipsAt(table', i) >= TM!ChipsAt(table, i)
                                /\ TM!ChipsAt(table', 1 - i) = TM!ChipsAt(table, 1 - i)
        BY <3>1, <4>1, ToppedUpChips
      <4>3. QED
        BY <4>1, <4>2, BuyStep
    <3>2. QED
      BY <2>3, <3>1 DEF TopUp
  <2>4. ASSUME NEW p \in Players,
               table' \in {TM!PlayerDisconnected(table, p), TM!PlayerReconnected(table, p),
                           TM!PlayerSatOut(table, p)}
        PROVE  View(table') = View(table)
    <3>1. table \in TM!Tables
      BY <1>2, SoundTypes DEF Server, TableSound
    <3>2. /\ table'.seat = table.seat /\ table'.stack = table.stack
          /\ table'.hand = table.hand /\ table'.burned = table.burned
      BY <2>4, <3>1 DEF TM!PlayerDisconnected, TM!PlayerReconnected, TM!PlayerSatOut, TM!Tables
    <3>3. QED
      BY <3>2, KeptView
  <2>5. ASSUME NEW s \in Sessions, Lost(s)
        PROVE  View(table') = View(table)
    BY <1>2, <2>4, <2>5, SoundTypes DEF Lost, Server, TableSound
  <2>6. ASSUME NEW s \in Sessions, NEW p \in Players, Rejoin(s, p)
        PROVE  View(table') = View(table)
    BY <2>4, <2>6 DEF Rejoin
  <2>7. ASSUME NEW p \in Players, GraceTimerExpired(p)
        PROVE  View(table') = View(table)
    BY <2>4, <2>7 DEF GraceTimerExpired
  <2>8. CASE \/ \E s \in Sessions, p \in Players : Welcome(s, p)
             \/ \E s \in Sessions : JoinAnswered(s) \/ ActionRefused(s) \/ Ping(s)
             \/ \E p \in Players, k \in PC!Kinds : Expire(k, p)
             \/ \E p \in Players : RemovalTimerExpired(p)
    BY <2>8 DEF Welcome, JoinAnswered, ActionRefused, Ping, Expire, RemovalTimerExpired
  <2>9. QED
    BY <1>2, <2>1, <2>2, <2>3, <2>5, <2>6, <2>7, <2>8, ServerAssumption
       DEF AnyNext, Next, ReadFailed, PingFailed
<1>3. Server /\ Server' /\ [AnyNext]_vars =>
        [TM!Ledger!Next]_<<[s \in TM!Seats |-> TM!ChipsAt(table, s)], TM!PotOf(table), table.burned>>
  BY <1>2 DEF View, Chips, vars
<1>4. QED
  BY <1>1, <1>3, AlwaysServer, PTL DEF AnySpec, Ledger, TM!LedgerSpec, TM!Ledger!Spec

-----------------------------------------------------------------------------
(* Part 8: one hand                                                          *)

SeatsFull == \A i \in Seats : table.seat[i] # NoPlayer

\* startHand's only caller is handleJoin, for a player it has just seated.
OneHand ==
  /\ table.started \in {0, 1}
  /\ table.started = 1 => SeatsFull
  /\ table.started = 0 => table.hand = NoHand

\* A handler, seen from the seats: nobody sits down and no hand begins; somebody
\* takes the seat that was free, and a hand begins if no other is.
SeatsKept ==
  /\ table'.started = table.started /\ table'.seat = table.seat
  /\ table'.hand # NoHand => table.hand # NoHand

SeatTaken ==
  /\ ~SeatsFull /\ table.hand = NoHand
  /\ \/ table'.started = table.started /\ table'.hand = NoHand
     \/ table'.started = table.started + 1 /\ SeatsFull'

LEMMA SeatTakenOnce ==
  ASSUME Server, NEW s \in Sessions, TakeSeat(s)
  PROVE  SeatTaken
<1> DEFINE p == toPlayer[s]
           u == TM!Seated(table, p, FreeSeat)
<1>1. /\ p \in Players /\ FreeSeat \in Seats /\ TM!CanAssignSeat(table, p, FreeSeat)
      /\ TM!Sound(table) /\ table \in TM!Tables
  BY SoundTypes DEF Server, Typed, TableSound, TakeSeat, FreeSeat, Seats, TM!Seats
<1>2. ~SeatsFull /\ table.hand = NoHand
  BY <1>1 DEF Server, HandIsHeadsUp, TM!CanAssignSeat, SeatsFull
<1>3. TM!Sound(u) /\ u.hand = NoHand
  <2>1. ASSUME NEW q \in Players, NEW i \in Seats, TM!CanAssignSeat(table, q, i)
        PROVE  TM!Sound(TM!Seated(table, q, i)) /\ TM!Seated(table, q, i).hand = table.hand
    BY <1>1, <2>1, SeatedFacts
  <2> QED
    BY <1>1, <1>2, <2>1
<1>4. u.started = table.started
  BY <1>1 DEF TM!Seated, TM!Tables
<1>5. CASE table' = u
  BY <1>2, <1>3, <1>4, <1>5 DEF SeatTaken
<1>6. CASE TM!ReadyForHand(u) /\ table' = TM!HandStarted(u)
  <2>1. u \in TM!Tables
    BY <1>3, SoundTypes
  <2>2. \A i \in Seats : u.seat[i] # NoPlayer
    BY <1>6 DEF TM!ReadyForHand, Seats
  <2> HIDE DEF u
  <2>3. table'.started = u.started + 1 /\ table'.seat = u.seat
    BY <1>6, <2>1 DEF TM!HandStarted, TM!Tables
  <2> QED
    BY <1>2, <1>4, <2>2, <2>3 DEF SeatTaken, SeatsFull
<1> QED
  BY <1>5, <1>6 DEF TakeSeat

LEMMA ActionSeats ==
  ASSUME Server, NEW s \in Sessions, NEW a, NEW n \in Int, ActionApplied(s, a, n)
  PROVE  SeatsKept
<1> DEFINE after == TM!Acted(table, toPlayer[s], a, n)
<1>1. /\ toPlayer[s] \in table.roster /\ table.hand # NoHand
      /\ TM!ValidAction(table, toPlayer[s], a, n) /\ TM!Sound(table)
  BY DEF Server, TableSound, ActionApplied, Accepts
<1>2. after.seat = table.seat /\ TM!Sound(after)
  BY <1>1, ActedFacts
<1>3. after.started = table.started
  BY <1>1, SoundTypes DEF TM!Acted, TM!Tables
<1>4. after \in TM!Tables
  BY <1>2, SoundTypes
<1>5. table' \in {table, after, TM!HandEnded(after)}
  BY DEF ActionApplied
<1> HIDE DEF after
<1>6. TM!HandEnded(after).seat = after.seat /\ TM!HandEnded(after).started = after.started
  BY <1>4 DEF TM!HandEnded, TM!Tables
<1> QED
  BY <1>1, <1>2, <1>3, <1>5, <1>6 DEF SeatsKept

\* onDisconnect, onReconnect, onGraceTimerExpired, handleTopUp
LEMMA PlayerSeats ==
  ASSUME Server, NEW p,
         table' \in {TM!PlayerDisconnected(table, p), TM!PlayerReconnected(table, p),
                     TM!PlayerSatOut(table, p), TM!PlayerToppedUp(table, p)}
  PROVE  SeatsKept
<1>1. table \in TM!Tables
  BY SoundTypes DEF Server, TableSound
<1>2. /\ table'.hand = table.hand /\ table'.started = table.started
      /\ table'.seat = table.seat
  BY <1>1 DEF TM!PlayerDisconnected, TM!PlayerReconnected, TM!PlayerSatOut,
     TM!PlayerToppedUp, TM!Tables
<1> QED
  BY <1>2 DEF SeatsKept

LEMMA EveryStepSeats ==
  ASSUME Server, [AnyNext]_vars
  PROVE  SeatsKept \/ SeatTaken
<1>1. CASE UNCHANGED table
  BY <1>1 DEF SeatsKept
<1>2. ASSUME NEW s \in Sessions, Lost(s)
      PROVE  SeatsKept
  BY <1>1, <1>2, PlayerSeats DEF Lost, SeatsKept
<1>3. ASSUME NEW s \in Sessions, NEW p \in Players, Rejoin(s, p)
      PROVE  SeatsKept
  BY <1>3, PlayerSeats DEF Rejoin
<1>4. ASSUME NEW s \in Sessions, TopUp(s)
      PROVE  SeatsKept
  BY <1>4, PlayerSeats DEF TopUp, SeatsKept
<1>5. ASSUME NEW p \in Players, GraceTimerExpired(p)
      PROVE  SeatsKept
  BY <1>5, PlayerSeats DEF GraceTimerExpired
<1>6. CASE \E s \in Sessions : TakeSeat(s)
  BY <1>6, SeatTakenOnce
<1>7. CASE \E s \in Sessions, a \in {"fold", "call", "raise"}, n \in Int : ActionApplied(s, a, n)
  BY <1>7, ActionSeats
<1>8. CASE \/ \E s \in Sessions, p \in Players : Welcome(s, p)
           \/ \E s \in Sessions : JoinAnswered(s) \/ ActionRefused(s) \/ Ping(s)
           \/ \E p \in Players, k \in PC!Kinds : Expire(k, p)
           \/ \E p \in Players : RemovalTimerExpired(p)
           \/ UNCHANGED vars
  BY <1>1, <1>8 DEF Welcome, JoinAnswered, ActionRefused, Ping, Expire, RemovalTimerExpired, vars
<1> QED
  BY <1>2, <1>3, <1>4, <1>5, <1>6, <1>7, <1>8, ServerAssumption
     DEF AnyNext, Next, ReadFailed, PingFailed

LEMMA OneHandInductive == Server /\ Server' /\ OneHand /\ [AnyNext]_vars => OneHand'
<1> SUFFICES ASSUME Server, Server', OneHand, [AnyNext]_vars PROVE OneHand'
  OBVIOUS
<1>1. CASE SeatsKept
  BY <1>1 DEF OneHand, SeatsKept, SeatsFull
<1>2. CASE SeatTaken
  BY <1>2 DEF OneHand, SeatTaken
<1> QED
  BY <1>1, <1>2, EveryStepSeats

\* handleJoin, endHand: whoever joins, leaves, returns or acts, a server starts at
\* most one hand, because startHand needs a seat just taken and no seat is freed.
THEOREM OneHandTheorem == AnySpec => []OneHand
<1>1. Init => OneHand
  BY DEF Init, OneHand, TM!EmptyTable
<1> QED
  BY <1>1, OneHandInductive, AlwaysServer, PTL DEF AnySpec

\* endHand: once the hand is over the two players sit at a table where no hand
\* ever begins again.
THEOREM NoHandAfterTheFirst ==
  AnySpec => [][table.started = 1 /\ table.hand = NoHand =>
                  table'.hand = NoHand /\ table'.seat = table.seat]_vars
<1>1. ASSUME Server, OneHand, [AnyNext]_vars
      PROVE  [table.started = 1 /\ table.hand = NoHand =>
                table'.hand = NoHand /\ table'.seat = table.seat]_vars
  BY <1>1, EveryStepSeats DEF OneHand, SeatsKept, SeatTaken
<1> QED
  BY <1>1, AlwaysServer, OneHandTheorem, PTL DEF AnySpec

=============================================================================
