----------------------------- MODULE BotTurnProofs -----------------------------
(***************************************************************************)
(* sendActionRequest, randomDelay, handleAction: what a bot was asked is   *)
(* still true when its answer is served.  The argument follows what is on  *)
(* its way about a hand: nothing about a hand that has not started, and    *)
(* about the running hand at most one request or one answer for each bot   *)
(* that sits at the table, only for the bot whose turn it is.              *)
(***************************************************************************)
EXTENDS BotTableProofs

-----------------------------------------------------------------------------
(* Part 1: what is on its way about one hand                                 *)

Asking(n) == {m \in Messages : m.type = "action_request" /\ m.hand = n}
Acting(n) == {a \in Answers : a.type = "action" /\ a.hand = n}

\* Where in a mailbox the messages of a set are
At(q, M) == {i \in DOMAIN q : q[i] \in M}

\* Nothing of M has come to a mailbox; the head may have gone.
Thins(new, old, M) ==
  \E d \in {0, 1} : \A i \in At(new, M) : i + d \in At(old, M) /\ new[i] = old[i + d]

LEMMA ThinsSame == ASSUME NEW q, NEW M, DOMAIN q \subseteq Int PROVE Thins(q, q, M)
<1>1. \A i \in At(q, M) : i + 0 \in At(q, M) /\ q[i] = q[i + 0]
  BY DEF At
<1>2. QED
  BY <1>1 DEF Thins

LEMMA ThinsTail ==
  ASSUME NEW S, NEW q \in Seq(S), q # <<>>, NEW M
  PROVE  Thins(Tail(q), q, M)
<1>1. /\ Tail(q) \in Seq(S) /\ Len(Tail(q)) = Len(q) - 1 /\ Len(q) \in Nat
      /\ \A i \in 1..Len(Tail(q)) : Tail(q)[i] = q[i + 1]
  BY HeadTailProperties
<1>2. DOMAIN Tail(q) = 1..Len(Tail(q)) /\ DOMAIN q = 1..Len(q)
  BY <1>1
<1>3. \A i \in At(Tail(q), M) : i + 1 \in At(q, M) /\ Tail(q)[i] = q[i + 1]
  BY <1>1, <1>2 DEF At
<1>4. QED
  BY <1>3 DEF Thins

LEMMA ThinsAppend ==
  ASSUME NEW S, NEW q \in Seq(S), NEW e \in S, NEW M, e \notin M
  PROVE  Thins(Append(q, e), q, M)
<1>1. /\ Append(q, e) \in Seq(S) /\ Len(Append(q, e)) = Len(q) + 1 /\ Len(q) \in Nat
      /\ \A i \in 1..Len(q) : Append(q, e)[i] = q[i]
      /\ Append(q, e)[Len(q) + 1] = e
  BY AppendProperties
<1>2. DOMAIN Append(q, e) = 1..Len(q) + 1 /\ DOMAIN q = 1..Len(q)
  BY <1>1
<1>3. \A i \in At(Append(q, e), M) : i + 0 \in At(q, M) /\ Append(q, e)[i] = q[i + 0]
  BY <1>1, <1>2 DEF At
<1>4. QED
  BY <1>3 DEF Thins

LEMMA ThinsConcat ==
  ASSUME NEW S, NEW q \in Seq(S), NEW r \in Seq(S), NEW M, At(r, M) = {}
  PROVE  Thins(q \o r, q, M)
<1>1. /\ q \o r \in Seq(S) /\ Len(q \o r) = Len(q) + Len(r) /\ Len(q) \in Nat /\ Len(r) \in Nat
      /\ \A i \in 1..Len(q) + Len(r) : (q \o r)[i] = IF i <= Len(q) THEN q[i] ELSE r[i - Len(q)]
  BY ConcatProperties
<1>2. DOMAIN (q \o r) = 1..Len(q) + Len(r) /\ DOMAIN q = 1..Len(q) /\ DOMAIN r = 1..Len(r)
  BY <1>1
<1>3. \A i \in At(q \o r, M) : i + 0 \in At(q, M) /\ (q \o r)[i] = q[i + 0]
  <2> SUFFICES ASSUME NEW i \in At(q \o r, M)
               PROVE  i + 0 \in At(q, M) /\ (q \o r)[i] = q[i + 0]
    OBVIOUS
  <2>1. i \in 1..Len(q) + Len(r) /\ (q \o r)[i] \in M
    BY <1>2 DEF At
  <2>2. CASE i <= Len(q)
    BY <1>1, <1>2, <2>1, <2>2 DEF At
  <2>3. CASE Len(q) < i
    <3>1. i - Len(q) \in DOMAIN r /\ r[i - Len(q)] \in M
      BY <1>1, <1>2, <2>1, <2>3
    <3>2. QED
      BY <3>1 DEF At
  <2>4. QED
    BY <1>1, <2>1, <2>2, <2>3
<1>4. QED
  BY <1>3 DEF Thins

LEMMA ThinsNothing ==
  ASSUME NEW new, NEW old, NEW M, Thins(new, old, M), At(old, M) = {}
  PROVE  At(new, M) = {}
BY DEF Thins

\* Nothing about hand n is on its way to or from bot s.
NothingAbout(s, n) ==
  /\ At(inbox[s], Asking(n)) = {} /\ At(outbox[s], Acting(n)) = {}
  /\ bot[s].answer \notin Acting(n)

\* At most one thing about hand n is on its way to or from bot s.
OneAbout(s, n) ==
  /\ \A i, j \in At(inbox[s], Asking(n)) : i = j
  /\ \A i, j \in At(outbox[s], Acting(n)) : i = j
  /\ At(inbox[s], Asking(n)) = {} \/ At(outbox[s], Acting(n)) = {}
  /\ bot[s].answer \in Acting(n) =>
       At(inbox[s], Asking(n)) = {} /\ At(outbox[s], Acting(n)) = {}

\* An answer that the numbers of the request allow
Fits(p, a) ==
  /\ a.action \in {"fold", "call", "raise"}
  /\ a.action = "fold" => a.amount = 0
  /\ a.action = "raise" => table.hand.min_raise <= a.amount /\ a.amount <= table.stack[p]

\* It is the turn of the player to whom it goes or from whom it comes, and its
\* numbers are those of the hand.
Timely(s, n, p) ==
  /\ ~NothingAbout(s, n) => table.hand.players[table.hand.turn] = p
  /\ \A i \in At(inbox[s], Asking(n)) :
       /\ inbox[s][i].call = CallAmount(table.hand)
       /\ inbox[s][i].min_raise = table.hand.min_raise
       /\ inbox[s][i].max_raise <= table.stack[p]
  /\ \A i \in At(outbox[s], Acting(n)) : Fits(p, outbox[s][i])
  /\ bot[s].answer \in Acting(n) => Fits(p, bot[s].answer)

\* Session s speaks for a player at the table, where hand n runs.
Plays(s, n, p) ==
  toPlayer[s] = p /\ p \in table.roster /\ table.hand # NoHand /\ table.hand.number = n

\* A step that brings bot s nothing about hand n, and takes the head of a mailbox
\* at most
Quiet(s, n) ==
  /\ Thins(inbox'[s], inbox[s], Asking(n))
  /\ Thins(outbox'[s], outbox[s], Acting(n))
  /\ bot'[s].answer = bot[s].answer \/ bot'[s].answer \notin Acting(n)

LEMMA QuietNothing ==
  ASSUME NEW s, NEW n, Quiet(s, n), NothingAbout(s, n)
  PROVE  NothingAbout(s, n)'
BY ThinsNothing DEF Quiet, NothingAbout

LEMMA QuietOne ==
  ASSUME NEW s, NEW n, Quiet(s, n), OneAbout(s, n),
         DOMAIN inbox'[s] \subseteq Int, DOMAIN outbox'[s] \subseteq Int
  PROVE  OneAbout(s, n)'
<1>1. /\ At(inbox[s], Asking(n)) = {} => At(inbox'[s], Asking(n)) = {}
      /\ At(outbox[s], Acting(n)) = {} => At(outbox'[s], Acting(n)) = {}
  BY ThinsNothing DEF Quiet
<1>2. \A i, j \in At(inbox'[s], Asking(n)) : i = j
  <2>1. PICK d \in {0, 1} : \A i \in At(inbox'[s], Asking(n)) : i + d \in At(inbox[s], Asking(n))
    BY DEF Quiet, Thins
  <2>2. \A i, j \in At(inbox'[s], Asking(n)) : i + d = j + d
    BY <2>1 DEF OneAbout
  <2>3. d \in Int /\ At(inbox'[s], Asking(n)) \subseteq Int
    BY DEF At
  <2>4. ASSUME NEW i \in Int, NEW j \in Int, i + d = j + d PROVE i = j
    BY <2>3, <2>4
  <2>5. QED
    BY <2>2, <2>3, <2>4
<1>3. \A i, j \in At(outbox'[s], Acting(n)) : i = j
  <2>1. PICK d \in {0, 1} : \A i \in At(outbox'[s], Acting(n)) : i + d \in At(outbox[s], Acting(n))
    BY DEF Quiet, Thins
  <2>2. \A i, j \in At(outbox'[s], Acting(n)) : i + d = j + d
    BY <2>1 DEF OneAbout
  <2>3. d \in Int /\ At(outbox'[s], Acting(n)) \subseteq Int
    BY DEF At
  <2>4. ASSUME NEW i \in Int, NEW j \in Int, i + d = j + d PROVE i = j
    BY <2>3, <2>4
  <2>5. QED
    BY <2>2, <2>3, <2>4
<1>4. QED
  BY <1>1, <1>2, <1>3 DEF Quiet, OneAbout

\* The hand is as it was, and nobody at the table is poorer.
HandKept ==
  /\ table'.hand = table.hand /\ table'.started = table.started
  /\ table.hand # NoHand => table'.roster = table.roster
  /\ \A p \in Players : p \in table.roster => table.stack[p] <= table'.stack[p]

\* The next hand begins.
HandBegins ==
  /\ table.hand = NoHand /\ table'.hand # NoHand
  /\ table'.started = table.started + 1 /\ table'.hand.number = table'.started

LEMMA QuietTimely ==
  ASSUME Server, Server', NEW s \in Bots, NEW n \in Nat, NEW p \in Players,
         Quiet(s, n), HandKept, Plays(s, n, p), Timely(s, n, p)
  PROVE  Timely(s, n, p)'
<1>1. /\ table'.hand = table.hand /\ table.stack[p] <= table'.stack[p]
      /\ table.stack[p] \in Nat /\ table'.stack[p] \in Nat /\ table.hand \in TM!Hands
  BY SoundTypes DEF Server, TableSound, HandKept, Plays
<1>2. ~NothingAbout(s, n)' => ~NothingAbout(s, n)
  BY QuietNothing
<1>3. ASSUME NEW i \in At(inbox'[s], Asking(n))
      PROVE  /\ inbox'[s][i].call = CallAmount(table'.hand)
             /\ inbox'[s][i].min_raise = table'.hand.min_raise
             /\ inbox'[s][i].max_raise <= table'.stack[p]
  <2>1. PICK j \in At(inbox[s], Asking(n)) : inbox'[s][i] = inbox[s][j]
    BY <1>3 DEF Quiet, Thins
  <2>2. inbox[s][j].max_raise \in Nat
    BY <2>1 DEF At, Asking, Messages
  <2>3. QED
    BY <1>1, <2>1, <2>2 DEF Timely
<1>4. ASSUME NEW a \in Acting(n), Fits(p, a)
      PROVE  Fits(p, a)'
  <2>1. a.amount \in Nat
    BY DEF Acting, Answers, BC!NoAnswer
  <2>2. table.hand.min_raise \in Nat
    BY <1>1 DEF TM!Hands
  <2>3. QED
    BY <1>1, <1>4, <2>1, <2>2 DEF Fits
<1>5. ASSUME NEW i \in At(outbox'[s], Acting(n))
      PROVE  Fits(p, outbox[s][i])'
  <2>1. PICK j \in At(outbox[s], Acting(n)) : outbox'[s][i] = outbox[s][j]
    BY <1>5 DEF Quiet, Thins
  <2>2. outbox[s][j] \in Acting(n) /\ Fits(p, outbox[s][j])
    BY <2>1 DEF At, Timely
  <2>3. QED
    BY <1>1, <1>4, <2>1, <2>2 DEF Fits
<1>6. bot'[s].answer \in Acting(n) => Fits(p, bot[s].answer)'
  <2>1. bot'[s].answer \in Acting(n) => bot'[s].answer = bot[s].answer /\ Fits(p, bot[s].answer)
    BY DEF Quiet, Timely
  <2>2. QED
    BY <1>4, <2>1 DEF Fits
<1>7. QED
  BY <1>1, <1>2, <1>3, <1>5, <1>6 DEF Timely, Plays

-----------------------------------------------------------------------------
(* Part 2: what the handlers do to a running hand                            *)

LEMMA Unseated == ASSUME Server, UNCHANGED table PROVE HandKept
BY SoundTypes DEF Server, TableSound, HandKept

\* A running hand bears the number of hands started.
LEMMA RunningNumber ==
  ASSUME NEW t, TM!Sound(t), t.hand # NoHand
  PROVE  t.hand.number = t.started /\ t.started \in Nat
BY DEF TM!Sound, TM!ButtonInStep, TM!Tables

\* onDisconnect, onReconnect, onGraceTimerExpired, handleTopUp
LEMMA PlayersKept ==
  ASSUME Server, NEW p \in Players,
         \/ table' = TM!PlayerDisconnected(table, p)
         \/ table' = TM!PlayerReconnected(table, p)
         \/ table' = TM!PlayerSatOut(table, p)
         \/ table' = TM!PlayerToppedUp(table, p)
  PROVE  HandKept
<1>1. table \in TM!Tables /\ table.stack \in [Players -> Nat]
  BY SoundTypes DEF Server, TableSound
<1>2. /\ table'.hand = table.hand /\ table'.started = table.started
      /\ table'.roster = table.roster
  BY <1>1 DEF TM!PlayerDisconnected, TM!PlayerReconnected, TM!PlayerSatOut,
     TM!PlayerToppedUp, TM!Tables
<1>3. \/ table'.stack = table.stack
      \/ table'.stack = [table.stack EXCEPT ![p] = TM!ToppedUp(@)]
  BY <1>1 DEF TM!PlayerDisconnected, TM!PlayerReconnected, TM!PlayerSatOut,
     TM!PlayerToppedUp, TM!Tables
<1>4. TM!ToppedUp(table.stack[p]) >= table.stack[p]
  BY <1>1, ServerAssumption DEF TM!ToppedUp
<1>5. \A q \in Players : table.stack[q] <= table'.stack[q]
  BY <1>1, <1>3, <1>4
<1>6. QED
  BY <1>2, <1>5 DEF HandKept

\* handleJoin seats a player between two hands; the second one starts the next.
LEMMA TakeSeatHand ==
  ASSUME Server, NEW s \in Sessions, TakeSeat(s)
  PROVE  HandKept \/ HandBegins
<1> DEFINE p == toPlayer[s]
           u == TM!Seated(table, p, FreeSeat)
<1>1. p \in Players /\ FreeSeat \in Seats /\ TM!CanAssignSeat(table, p, FreeSeat)
  BY DEF Server, Typed, TakeSeat, FreeSeat, Seats, TM!Seats
<1>2. TM!Sound(table) /\ table \in TM!Tables /\ p \notin table.roster
  BY <1>1, SoundTypes DEF Server, TableSound, TM!CanAssignSeat
<1>3. /\ u.hand = table.hand /\ u.started = table.started
      /\ u.stack = [table.stack EXCEPT ![p] = StartingStack]
  BY <1>2 DEF TM!Seated, TM!Tables
<1>4. table.hand = NoHand
  BY <1>1 DEF Server, HandIsHeadsUp, TM!CanAssignSeat
<1>5. CASE table' = u
  <2>1. \A q \in Players : q \in table.roster => table.stack[q] <= table'.stack[q]
    BY <1>2, <1>3, <1>5, SoundTypes
  <2>2. QED
    BY <1>3, <1>4, <1>5, <2>1 DEF HandKept
<1>6. CASE TM!ReadyForHand(u) /\ table' = TM!HandStarted(u)
  <2>1. TM!Sound(u)
    <3>1. ASSUME NEW q \in Players, NEW i \in Seats, TM!CanAssignSeat(table, q, i)
          PROVE  TM!Sound(TM!Seated(table, q, i))
      BY <1>2, <3>1, SeatedFacts
    <3>2. QED
      BY <1>1, <3>1
  <2>2. table'.hand # NoHand /\ TM!Sound(table')
    <3> HIDE DEF u
    <3>1. QED
      BY <1>6, <2>1, StartedFacts
  <2>3. table'.started = u.started + 1
    <3>1. u \in TM!Tables
      BY <2>1, SoundTypes
    <3> HIDE DEF u
    <3>2. QED
      BY <1>6, <3>1 DEF TM!HandStarted, TM!Tables
  <2>4. table'.hand.number = table'.started
    BY <2>2, RunningNumber
  <2>5. QED
    BY <1>3, <1>4, <2>2, <2>3, <2>4 DEF HandBegins
<1>7. QED
  BY <1>5, <1>6 DEF TakeSeat

\* processPlayerAction: the turn goes to the other player, whose stack is as it was.
LEMMA ActedDetails ==
  ASSUME NEW t, TM!Sound(t), t.hand # NoHand, NEW p \in t.roster, NEW a, NEW n \in Int,
         TM!ValidAction(t, p, a, n)
  PROVE  LET u == TM!Acted(t, p, a, n)
         IN /\ u.hand.number = t.hand.number /\ u.started = t.started
            /\ u.hand.turn = TM!Other(t.hand.turn)
            /\ \A q \in Players : q # p => u.stack[q] = t.stack[q]
<1>1. t \in TM!Tables /\ t.hand \in TM!Hands /\ t.stack \in [Players -> Nat]
  BY SoundTypes
<1> DEFINE h == IF a = "fold" THEN TM!HandFolded(t.hand) ELSE TM!HandPaid(t.hand, a, n)
<1>2. h.number = t.hand.number /\ h.turn = TM!Other(t.hand.turn)
  BY <1>1 DEF TM!HandFolded, TM!HandPaid, TM!Hands
<1>3. TM!Acted(t, p, a, n) = [t EXCEPT !.hand = h, !.stack[p] = @ - n, !.pot = h.pot]
  BY DEF TM!Acted
<1> HIDE DEF h
<1>4. QED
  BY <1>1, <1>2, <1>3 DEF TM!Tables

\* A player who may act is the one whose turn it is.
LEMMA ActorHasTurn ==
  ASSUME Server, NEW s \in Sessions, NEW a, NEW n \in Int, ActionApplied(s, a, n)
  PROVE  /\ TM!Sound(table) /\ table.hand # NoHand
         /\ toPlayer[s] \in table.roster /\ toPlayer[s] \in Players
         /\ TM!ValidAction(table, toPlayer[s], a, n)
         /\ table.hand.players[table.hand.turn] = toPlayer[s]
<1>1. /\ TM!Sound(table) /\ table.hand # NoHand
      /\ toPlayer[s] \in table.roster
      /\ TM!ValidAction(table, toPlayer[s], a, n)
  BY DEF Server, TableSound, ActionApplied, Accepts
<1>2. QED
  BY <1>1, SoundTypes DEF TM!ValidAction, TM!HasTurn

\* What handleAction leaves: the table as it was, if the process died and nothing
\* was sent; no hand; or the hand after the action.
LEMMA ActionLeaves ==
  ASSUME Server, NEW s \in Sessions, NEW a, NEW n \in Int, ActionApplied(s, a, n)
  PROVE  LET after == TM!Acted(table, toPlayer[s], a, n)
         IN /\ table'.roster = table.roster
            /\ table'.started = table.started
            /\ \/ table' = table /\ last'.sent = <<>>
               \/ table'.hand = NoHand
               \/ table' = after
<1> DEFINE after == TM!Acted(table, toPlayer[s], a, n)
<1>1. after.roster = table.roster /\ after.started = table.started
      /\ after.hand # NoHand /\ TM!Sound(after)
  BY ActorHasTurn, ActedFacts, ActedDetails
<1>2. TM!HandEnded(after).roster = after.roster /\ TM!HandEnded(after).started = after.started
      /\ TM!HandEnded(after).hand = NoHand
  <2>1. after \in TM!Tables
    BY <1>1, SoundTypes
  <2> HIDE DEF after
  <2>2. QED
    BY <2>1 DEF TM!HandEnded, TM!Tables
<1>3. \/ UNCHANGED table /\ Handled(s, <<>>)
      \/ table' = after
      \/ table' = TM!HandEnded(after)
  BY Zenon DEF ActionApplied
<1> HIDE DEF after
<1>4. last' = [from |-> s, sent |-> <<>>] => last'.sent = <<>>
  OBVIOUS
<1>5. QED
  BY <1>1, <1>2, <1>3, <1>4 DEF after, Handled

-----------------------------------------------------------------------------
(* Part 3: steps that ask nobody                                             *)

\* What is true of the messages about hand n to and from bot s
BotTurn(s, n) ==
  /\ n > table.started => NothingAbout(s, n)
  /\ \A p \in Players : Plays(s, n, p) => OneAbout(s, n) /\ Timely(s, n, p)

BotTurns == \A s \in Bots, n \in Nat : BotTurn(s, n)

\* The session speaks for whom it spoke for, or for nobody at the table.
SameVoice(s) == toPlayer'[s] = toPlayer[s] \/ toPlayer'[s] \notin table'.roster

LEMMA QuietTurn ==
  ASSUME Server, Server', BotTypes', NEW s \in Bots, NEW n \in Nat, BotTurn(s, n),
         SameVoice(s), Quiet(s, n), HandKept \/ HandBegins
  PROVE  BotTurn(s, n)'
<1>1. table.started \in Nat /\ table'.started \in Nat /\ table'.started >= table.started
      /\ (HandBegins => table'.started > table.started)
  <2>1. table.started \in Nat /\ table'.started \in Nat
    BY DEF Server, TableSound, TM!Sound, TM!Tables
  <2>2. QED
    BY <2>1 DEF HandKept, HandBegins
<1>2. ASSUME n > table'.started
      PROVE  NothingAbout(s, n)'
  <2>1. NothingAbout(s, n)
    BY <1>1, <1>2 DEF BotTurn
  <2>2. QED
    BY <2>1, QuietNothing
<1>3. DOMAIN inbox'[s] \subseteq Int /\ DOMAIN outbox'[s] \subseteq Int
  BY DEF BotTypes
<1>4. ASSUME NEW p \in Players, Plays(s, n, p)'
      PROVE  OneAbout(s, n)' /\ Timely(s, n, p)'
  <2>1. CASE HandKept
    <3>1. Plays(s, n, p)
      BY <1>4, <2>1 DEF Plays, SameVoice, HandKept
    <3>2. OneAbout(s, n) /\ Timely(s, n, p)
      BY <3>1 DEF BotTurn
    <3>3. QED
      BY <1>3, <2>1, <3>1, <3>2, QuietOne, QuietTimely
  <2>2. CASE HandBegins
    <3>1. n > table.started
      BY <1>1, <1>4, <2>2 DEF Plays, HandBegins
    <3>2. NothingAbout(s, n)'
      <4>1. NothingAbout(s, n)
        BY <3>1 DEF BotTurn
      <4>2. QED
        BY <4>1, QuietNothing
    <3>3. QED
      BY <3>2 DEF OneAbout, Timely, NothingAbout
  <2>3. QED
    BY <2>1, <2>2
<1>5. QED
  BY <1>2, <1>4 DEF BotTurn

\* A delivery without a request brings a bot nothing to answer.
LEMMA DeliveredQuietly ==
  ASSUME BotTypes, Answered', Deliver, AsksNobody(last'.sent), NEW s \in Bots, NEW n
  PROVE  Thins(inbox'[s], inbox[s], Asking(n))
<1> DEFINE q == Addressed(s, last'.sent)
<1>1. last'.sent \in Seq(Messages) /\ inbox[s] \in Seq(Messages)
  BY DEF Answered, BotTypes
<1>2. q \in Seq(Messages)
      /\ \A i \in DOMAIN q : \E j \in DOMAIN last'.sent : q[i] = last'.sent[j]
  BY <1>1, AddressedFacts
<1> HIDE DEF q
<1>3. At(q, Asking(n)) = {}
  BY <1>2 DEF At, Asking, AsksNobody
<1>4. inbox'[s] = inbox[s] \/ inbox'[s] = inbox[s] \o q
  BY Delivered DEF q
<1>5. Thins(inbox[s] \o q, inbox[s], Asking(n))
  BY <1>1, <1>2, <1>3, ThinsConcat
<1>6. Thins(inbox[s], inbox[s], Asking(n))
  BY <1>1, ThinsSame
<1>7. QED
  BY <1>4, <1>5, <1>6

LEMMA RelayedQuietly ==
  ASSUME BotTypes, Answered', Relayed, AsksNobody(last'.sent), NEW s \in Bots, NEW n
  PROVE  Quiet(s, n)
<1>1. Thins(inbox'[s], inbox[s], Asking(n))
  BY DeliveredQuietly DEF Relayed
<1>2. outbox[s] \in Seq(Answers \cup {BC!Join, BC!TopUpRequest})
      /\ outbox \in [Bots -> Seq(Answers \cup {BC!Join, BC!TopUpRequest})]
  BY DEF BotTypes
<1>3. outbox'[s] = outbox[s] \/ (outbox[s] # <<>> /\ outbox'[s] = Tail(outbox[s]))
  BY <1>2 DEF Relayed
<1>4. Thins(outbox[s], outbox[s], Acting(n))
  <2>1. DOMAIN outbox[s] \subseteq Int
    BY <1>2
  <2>2. QED
    BY <2>1, ThinsSame
<1>5. outbox[s] # <<>> => Thins(Tail(outbox[s]), outbox[s], Acting(n))
  BY <1>2, ThinsTail, Zenon
<1>6. QED
  BY <1>1, <1>3, <1>4, <1>5 DEF Quiet, Relayed

LEMMA UnchangedQuietly ==
  ASSUME BotTypes, NEW s \in Bots, NEW n,
         UNCHANGED <<bot[s], inbox[s], outbox[s]>>
  PROVE  Quiet(s, n)
<1>1. DOMAIN inbox[s] \subseteq Int /\ DOMAIN outbox[s] \subseteq Int
  BY DEF BotTypes
<1>2. QED
  BY <1>1, ThinsSame DEF Quiet

ActionTypes == {"fold", "call", "raise"}

\* An action of session s is applied, to whomever the session belongs: that of a
\* bot is the head of its outbox.
Applied(s, a, n) ==
  /\ ActionApplied(s, a, n) /\ Deliver /\ bot' = bot
  /\ s \in Bots => /\ outbox[s] # <<>> /\ Head(outbox[s]).type = "action"
                   /\ Head(outbox[s]).hand = table.hand.number
                   /\ outbox' = [outbox EXCEPT ![s] = Tail(@)]
  /\ s \notin Bots => outbox' = outbox

LEMMA HandSteps ==
  ASSUME Server, BotTypes, [BNext]_allvars
  PROVE  \/ \E s \in Sessions, a \in ActionTypes, n \in Int : Applied(s, a, n)
         \/ \E s \in Bots : BotStep(s)
         \/ UNCHANGED bots /\ HandKept
         \/ AsksNobody(last'.sent) /\ (HandKept \/ HandBegins)
<1>1. ASSUME NEW s \in Bots, Serve(s)
      PROVE  \/ \E a \in ActionTypes, n \in Int : Applied(s, a, n)
             \/ AsksNobody(last'.sent) /\ (HandKept \/ HandBegins)
  <2>0. s \in Sessions
    BY BotsAssumption
  <2>1. CASE TakeSeat(s)
    BY <2>0, <2>1, TakeSeatHand, HandlersAskNobody DEF Sends
  <2>2. CASE JoinAnswered(s) \/ ActionRefused(s)
    BY <2>0, <2>2, Unseated, HandlersAskNobody DEF Sends, JoinAnswered, ActionRefused
  <2>3. CASE TopUp(s)
    <3>1. UNCHANGED table \/ (toPlayer[s] \in table.roster
                              /\ table' = TM!PlayerToppedUp(table, toPlayer[s]))
      BY <2>3 DEF TopUp
    <3>2. HandKept
      BY <3>1, Unseated, PlayersKept, SoundTypes DEF Server, TableSound
    <3>3. QED
      BY <2>0, <2>3, <3>2, HandlersAskNobody DEF Sends
  <2>4. CASE /\ ServeAction(s) /\ table.hand.number = Head(outbox[s]).hand
             /\ ActionApplied(s, Head(outbox[s]).action, Head(outbox[s]).amount)
    <3>1. Head(outbox[s]).amount \in Int /\ Head(outbox[s]).action \in ActionTypes
      BY <2>4, HeadOfOutbox DEF ServeAction, ActionTypes
    <3>2. Applied(s, Head(outbox[s]).action, Head(outbox[s]).amount)
      BY <2>4 DEF ServeAction, Incoming, Applied
    <3>3. QED
      BY <3>1, <3>2
  <2>5. QED
    BY <1>1, <2>1, <2>2, <2>3, <2>4 DEF Serve, ServeJoin, ServeAction, ServeTopUp
<1>2. ASSUME NEW s \in Sessions \ Bots, Stranger(s)
      PROVE  \/ \E a \in ActionTypes, n \in Int : Applied(s, a, n)
             \/ AsksNobody(last'.sent) /\ (HandKept \/ HandBegins)
  <2>1. CASE TakeSeat(s)
    BY <2>1, TakeSeatHand, HandlersAskNobody DEF Sends
  <2>2. CASE JoinAnswered(s) \/ ActionRefused(s) \/ Ping(s)
    BY <2>2, Unseated, HandlersAskNobody DEF Sends, JoinAnswered, ActionRefused, Ping
  <2>3. CASE TopUp(s)
    <3>1. UNCHANGED table \/ (toPlayer[s] \in table.roster
                              /\ table' = TM!PlayerToppedUp(table, toPlayer[s]))
      BY <2>3 DEF TopUp
    <3>2. HandKept
      BY <3>1, Unseated, PlayersKept, SoundTypes DEF Server, TableSound
    <3>3. QED
      BY <2>3, <3>2, HandlersAskNobody DEF Sends
  <2>4. CASE \E given \in Players : Rejoin(s, given)
    <3>1. PICK given \in Players : Rejoin(s, given)
      BY <2>4
    <3>2. HandKept
      BY <3>1, PlayersKept DEF Rejoin
    <3>3. QED
      BY <3>1, <3>2, ComersAskNobody DEF Sends
  <2>5. CASE \E a \in {"fold", "call", "raise"}, n \in Amounts : ActionApplied(s, a, n)
    BY <1>2, <2>5, ServerAssumption DEF Stranger, Applied, ActionTypes
  <2>6. QED
    BY <1>2, <2>1, <2>2, <2>3, <2>4, <2>5 DEF Stranger, AnyMessage
<1>3. ASSUME NEW s \in Sessions, NEW p \in Players,
             ConnectBot(s, p) \/ ConnectStranger(s, p)
      PROVE  AsksNobody(last'.sent) /\ HandKept
  BY <1>3, Unseated, ComersAskNobody DEF Sends, ConnectBot, ConnectStranger, Welcome
<1>4. ASSUME NEW s \in Sessions, SocketLost(s)
      PROVE  AsksNobody(last'.sent) /\ HandKept
  <2>1. UNCHANGED table \/ (toPlayer[s] \in table.roster
                            /\ table' = TM!PlayerDisconnected(table, toPlayer[s]))
    BY <1>4 DEF SocketLost, ReadFailed, PingFailed, Lost
  <2>2. HandKept
    BY <2>1, Unseated, PlayersKept, SoundTypes DEF Server, TableSound
  <2>3. QED
    BY <1>4, <2>2, LossAsksNobody DEF SocketLost, Sends
<1>5. ASSUME NEW p \in Players, TimerHandled(p)
      PROVE  AsksNobody(last'.sent) /\ HandKept
  <2>1. UNCHANGED table \/ table' = TM!PlayerSatOut(table, p)
    BY <1>5 DEF TimerHandled, GraceTimerExpired, RemovalTimerExpired
  <2>2. HandKept
    BY <2>1, Unseated, PlayersKept
  <2>3. QED
    BY <1>5, <2>2, TimersAskNobody DEF TimerHandled, Sends
<1>6. CASE UNCHANGED allvars \/ \E p \in Players : TimerExpires(p)
  BY <1>6, Unseated DEF allvars, vars, bots, TimerExpires, Expire
<1>7. CASE Writes
  BY <1>7, Unseated DEF Writes, WriteDone, WriteFails, vars
<1>8. QED
  BY <1>1, <1>2, <1>3, <1>4, <1>5, <1>6, <1>7, BotsAssumption DEF BNext, Writes

-----------------------------------------------------------------------------
(* Part 4: a bot reads and answers                                           *)

LEMMA StepOfOne ==
  ASSUME BotTypes, NEW s \in Bots, BotStep(s), NEW r \in Bots, r # s
  PROVE  UNCHANGED <<bot[r], inbox[r], outbox[r]>>
BY DEF BotTypes, BotStep, BC!Step, BC!ReadWelcome, BC!ReadJoinAck, BC!ReadRequest, BC!Answer,
   BC!ReadHandCompleted, BC!ReadError, BC!ReadNotice, BC!Read, BC!Write, BC!GoesTo

\* Client::run, all it does but reading a request and answering one
LEMMA OtherSteps ==
  ASSUME BotTypes, NEW s \in Bots, BotStep(s), ~BC!Answer(s),
         ~(BC!ReadRequest(s) /\ bot'[s].answer # bot[s].answer), NEW n
  PROVE  Quiet(s, n)
<1> DEFINE Writings == Answers \cup {BC!Join, BC!TopUpRequest}
<1>1. /\ bot \in [Bots -> [phase: BC!Phases, id: Players \cup {NoPlayer}, answer: Answers]]
      /\ inbox \in [Bots -> Seq(Messages)] /\ outbox \in [Bots -> Seq(Writings)]
  BY DEF BotTypes
<1>2. \/ BC!ReadWelcome(s) \/ BC!ReadJoinAck(s)
      \/ BC!ReadRequest(s) /\ bot'[s].answer = bot[s].answer
      \/ BC!ReadHandCompleted(s) \/ BC!ReadError(s) \/ BC!ReadNotice(s)
  BY DEF BotStep, BC!Step
<1>3. bot'[s].answer = bot[s].answer
  BY <1>1, <1>2 DEF BC!ReadWelcome, BC!ReadJoinAck, BC!ReadHandCompleted, BC!ReadError,
     BC!ReadNotice, BC!GoesTo
<1>4. inbox[s] # <<>> /\ inbox'[s] = Tail(inbox[s])
  BY <1>1, <1>2 DEF BC!ReadWelcome, BC!ReadJoinAck, BC!ReadRequest, BC!ReadHandCompleted,
     BC!ReadError, BC!ReadNotice, BC!Waiting, BC!Read
<1>5. \/ outbox'[s] = outbox[s]
      \/ outbox'[s] = Append(outbox[s], BC!Join)
      \/ outbox'[s] = Append(outbox[s], BC!TopUpRequest)
  BY <1>1, <1>2 DEF BC!ReadWelcome, BC!ReadJoinAck, BC!ReadRequest, BC!ReadHandCompleted,
     BC!ReadError, BC!ReadNotice, BC!Write
<1>6. Thins(inbox'[s], inbox[s], Asking(n))
  <2>1. inbox[s] \in Seq(Messages)
    BY <1>1
  <2>2. QED
    BY <1>4, <2>1, ThinsTail
<1>7. Thins(outbox'[s], outbox[s], Acting(n))
  <2>1. /\ outbox[s] \in Seq(Writings) /\ DOMAIN outbox[s] \subseteq Int
        /\ BC!Join \in Writings /\ BC!TopUpRequest \in Writings
    BY <1>1
  <2>2. BC!Join \notin Acting(n) /\ BC!TopUpRequest \notin Acting(n)
    BY DEF Acting, BC!Join, BC!TopUpRequest
  <2> HIDE DEF Writings
  <2>3. Thins(outbox[s], outbox[s], Acting(n))
    BY <2>1, ThinsSame
  <2>4. Thins(Append(outbox[s], BC!Join), outbox[s], Acting(n))
    BY <2>1, <2>2, ThinsAppend
  <2>5. Thins(Append(outbox[s], BC!TopUpRequest), outbox[s], Acting(n))
    BY <2>1, <2>2, ThinsAppend
  <2>6. QED
    BY <1>5, <2>3, <2>4, <2>5
<1>8. QED
  BY <1>3, <1>6, <1>7 DEF Quiet

\* RandomStrategy::chooseAction: the answer takes the place of the request.
LEMMA RequestRead ==
  ASSUME BotServer, BotServer', NEW s \in Bots, BotStep(s), BC!ReadRequest(s),
         bot'[s].answer # bot[s].answer, NEW n \in Nat, BotTurn(s, n)
  PROVE  BotTurn(s, n)'
<1> DEFINE m == Head(inbox[s])
           a == bot'[s].answer
<1>1. /\ bot \in [Bots -> [phase: BC!Phases, id: Players \cup {NoPlayer}, answer: Answers]]
      /\ inbox[s] \in Seq(Messages) /\ inbox \in [Bots -> Seq(Messages)]
      /\ outbox' = outbox /\ UNCHANGED <<table, toPlayer>> /\ a \in Answers
  BY DEF BotServer, BotTypes, BC!ReadRequest, BotStep, vars
<1>2. inbox[s] # <<>> /\ m \in Messages /\ m.type = "action_request"
      /\ inbox'[s] = Tail(inbox[s]) /\ m = inbox[s][1] /\ 1 \in DOMAIN inbox[s]
  BY <1>1 DEF BC!ReadRequest, BC!Waiting, BC!Read
<1>3. a \in BC!Choices(m)
  BY <1>1 DEF BC!ReadRequest, BC!GoesTo
<1>4. a.type = "action" /\ a.hand = m.hand /\ a.action \in {"fold", "call", "raise"}
      /\ (a.action = "fold" => a.amount = 0)
      /\ (a.action = "raise" => m.min_raise <= a.amount /\ a.amount <= m.max_raise)
  <2>1. m.min_raise \in Nat /\ m.max_raise \in Nat
    BY <1>2 DEF Messages
  <2> HIDE DEF m
  <2>2. QED
    BY <1>3, <2>1 DEF BC!Choices, BC!Action
<1>5. HandKept /\ SameVoice(s)
  BY <1>1, Unseated DEF BotServer, SameVoice
<1>6. Thins(inbox'[s], inbox[s], Asking(n)) /\ Thins(outbox'[s], outbox[s], Acting(n))
  <2>1. DOMAIN outbox[s] \subseteq Int
    BY DEF BotServer, BotTypes
  <2>2. Thins(outbox[s], outbox[s], Acting(n))
    BY <2>1, ThinsSame
  <2>3. QED
    BY <1>1, <1>2, <2>2, ThinsTail
<1>7. CASE n # m.hand
  <2>1. a \notin Acting(n)
    BY <1>4, <1>7 DEF Acting
  <2>2. Quiet(s, n)
    BY <1>6, <2>1 DEF Quiet
  <2>3. QED
    BY <1>5, <2>2, QuietTurn DEF BotServer
<1>8. CASE n = m.hand
  <2>1. 1 \in At(inbox[s], Asking(n))
    BY <1>2, <1>8 DEF At, Asking
  <2>2. ~NothingAbout(s, n)
    BY <2>1 DEF NothingAbout
  <2>3. n > table'.started => NothingAbout(s, n)'
    BY <1>1, <2>2 DEF BotTurn
  <2>4. ASSUME NEW p \in Players, Plays(s, n, p)'
        PROVE  OneAbout(s, n)' /\ Timely(s, n, p)'
    <3>1. OneAbout(s, n) /\ Timely(s, n, p)
      BY <1>1, <2>4 DEF Plays, BotTurn
    <3>2. At(inbox'[s], Asking(n)) = {}
      <4> SUFFICES ASSUME NEW i \in At(inbox'[s], Asking(n)) PROVE FALSE
        OBVIOUS
      <4>1. /\ Len(Tail(inbox[s])) = Len(inbox[s]) - 1 /\ Tail(inbox[s]) \in Seq(Messages)
            /\ \A j \in 1..Len(Tail(inbox[s])) : Tail(inbox[s])[j] = inbox[s][j + 1]
        BY <1>1, <1>2, HeadTailProperties
      <4>2. i \in 1..Len(Tail(inbox[s])) /\ Tail(inbox[s])[i] \in Asking(n)
        BY <1>2, <4>1 DEF At
      <4>3. i + 1 \in At(inbox[s], Asking(n))
        BY <1>1, <4>1, <4>2 DEF At
      <4>4. i + 1 = 1
        BY <2>1, <3>1, <4>3 DEF OneAbout
      <4>5. QED
        BY <4>2, <4>4
    <3>3. At(outbox'[s], Acting(n)) = {}
      BY <1>1, <2>1, <3>1 DEF OneAbout
    <3>4. Fits(p, a)
      <4>1. m.min_raise = table.hand.min_raise /\ m.max_raise <= table.stack[p]
        BY <1>2, <2>1, <3>1 DEF Timely
      <4>2. m.max_raise \in Nat /\ a.amount \in Nat /\ table.stack[p] \in Nat
        <5>1. table.stack[p] \in Nat
          BY SoundTypes DEF BotServer, Server, TableSound
        <5>2. m.max_raise \in Nat
          BY <1>2 DEF Messages
        <5>3. a.amount \in Nat
          BY <1>1, <1>4 DEF Answers, BC!NoAnswer
        <5>4. QED
          BY <5>1, <5>2, <5>3
      <4> HIDE DEF m, a
      <4>3. QED
        BY <1>4, <4>1, <4>2 DEF Fits
    <3>5. OneAbout(s, n)'
      BY <3>2, <3>3 DEF OneAbout
    <3>6. table'.hand.players[table'.hand.turn] = p
      BY <1>1, <2>2, <3>1 DEF Timely
    <3>7. QED
      BY <1>1, <3>2, <3>3, <3>4, <3>5, <3>6 DEF Timely, Fits
  <2>5. QED
    BY <2>3, <2>4 DEF BotTurn
<1>9. QED
  BY <1>7, <1>8

\* The delay is over: the answer is on its way.
LEMMA AnswerWritten ==
  ASSUME BotServer, BotServer', NEW s \in Bots, BotStep(s), BC!Answer(s),
         NEW n \in Nat, BotTurn(s, n)
  PROVE  BotTurn(s, n)'
<1> DEFINE a == bot[s].answer
           Writings == Answers \cup {BC!Join, BC!TopUpRequest}
<1>1. /\ bot \in [Bots -> [phase: BC!Phases, id: Players \cup {NoPlayer}, answer: Answers]]
      /\ outbox[s] \in Seq(Writings) /\ outbox \in [Bots -> Seq(Writings)]
      /\ a \in Writings
      /\ inbox' = inbox /\ UNCHANGED <<table, toPlayer>>
  BY DEF BotServer, BotTypes, BC!Answer, BotStep, vars
<1>2. bot'[s].answer = BC!NoAnswer /\ outbox'[s] = Append(outbox[s], a)
  BY <1>1 DEF BC!Answer, BC!Write
<1>3. BC!NoAnswer \notin Acting(n)
  BY DEF Acting, BC!NoAnswer
<1>4. HandKept /\ SameVoice(s)
  BY <1>1, Unseated DEF BotServer, SameVoice
<1>5. CASE a \notin Acting(n)
  <2>1. DOMAIN inbox[s] \subseteq Int
    BY DEF BotServer, BotTypes
  <2>2. Thins(inbox'[s], inbox[s], Asking(n))
    BY <1>1, <2>1, ThinsSame
  <2> HIDE DEF a, Writings
  <2>3. Thins(Append(outbox[s], a), outbox[s], Acting(n))
    BY <1>1, <1>5, ThinsAppend
  <2>4. Quiet(s, n)
    BY <1>2, <1>3, <2>2, <2>3 DEF Quiet
  <2>5. QED
    BY <1>4, <2>4, QuietTurn DEF BotServer
<1>6. CASE a \in Acting(n)
  <2>1. ~NothingAbout(s, n)
    BY <1>6 DEF NothingAbout
  <2>2. n > table'.started => NothingAbout(s, n)'
    BY <1>1, <2>1 DEF BotTurn
  <2>3. ASSUME NEW p \in Players, Plays(s, n, p)'
        PROVE  OneAbout(s, n)' /\ Timely(s, n, p)'
    <3>1. OneAbout(s, n) /\ Timely(s, n, p)
      BY <1>1, <2>3 DEF Plays, BotTurn
    <3>2. At(inbox'[s], Asking(n)) = {} /\ At(outbox[s], Acting(n)) = {}
      BY <1>1, <1>6, <3>1 DEF OneAbout
    <3>3. \A i \in At(outbox'[s], Acting(n)) : i = Len(outbox[s]) + 1 /\ outbox'[s][i] = a
      <4> HIDE DEF a, Writings
      <4>1. /\ Append(outbox[s], a) \in Seq(Writings) /\ Len(outbox[s]) \in Nat
            /\ Len(Append(outbox[s], a)) = Len(outbox[s]) + 1
            /\ \A i \in 1..Len(outbox[s]) : Append(outbox[s], a)[i] = outbox[s][i]
            /\ Append(outbox[s], a)[Len(outbox[s]) + 1] = a
        BY <1>1, AppendProperties
      <4>2. DOMAIN Append(outbox[s], a) = 1..Len(outbox[s]) + 1
            /\ DOMAIN outbox[s] = 1..Len(outbox[s])
        BY <1>1, <4>1
      <4>3. QED
        BY <1>2, <3>2, <4>1, <4>2 DEF At
    <3>4. Fits(p, a)
      BY <1>6, <3>1 DEF Timely
    <3>5. OneAbout(s, n)'
      BY <1>2, <1>3, <3>2, <3>3 DEF OneAbout
    <3>6. table'.hand.players[table'.hand.turn] = p
      BY <1>1, <2>1, <3>1 DEF Timely
    <3>7. \A i \in At(outbox'[s], Acting(n)) : Fits(p, outbox[s][i])'
      BY <1>1, <3>3, <3>4 DEF Fits
    <3>8. QED
      BY <1>2, <1>3, <3>2, <3>5, <3>6, <3>7 DEF Timely
  <2>4. QED
    BY <2>2, <2>3 DEF BotTurn
<1>7. QED
  BY <1>5, <1>6

LEMMA BotStepTurns ==
  ASSUME BotServer, BotServer', NEW s \in Bots, BotStep(s), BotTurns
  PROVE  BotTurns'
<1> SUFFICES ASSUME NEW r \in Bots, NEW n \in Nat PROVE BotTurn(r, n)'
  BY DEF BotTurns
<1>1. BotTurn(r, n)
  BY DEF BotTurns
<1>2. HandKept /\ SameVoice(r)
  BY Unseated DEF BotServer, SameVoice, BotStep, vars
<1>3. CASE r # s
  <2>1. Quiet(r, n)
    BY <1>3, StepOfOne, UnchangedQuietly DEF BotServer
  <2>2. QED
    BY <1>1, <1>2, <2>1, QuietTurn DEF BotServer
<1>4. CASE r = s /\ ~BC!Answer(s) /\ ~(BC!ReadRequest(s) /\ bot'[s].answer # bot[s].answer)
  <2>1. Quiet(r, n)
    BY <1>4, OtherSteps DEF BotServer
  <2>2. QED
    BY <1>1, <1>2, <2>1, QuietTurn DEF BotServer
<1>5. CASE r = s /\ BC!Answer(s)
  BY <1>1, <1>5, AnswerWritten
<1>6. CASE r = s /\ BC!ReadRequest(s) /\ bot'[s].answer # bot[s].answer
  BY <1>1, <1>6, RequestRead
<1>7. QED
  BY <1>3, <1>4, <1>5, <1>6

-----------------------------------------------------------------------------
(* Part 5: an action is applied                                              *)

\* Two players sit at the table of a running hand.
LEMMA TwoPlayers ==
  ASSUME Server, table.hand # NoHand
  PROVE  /\ table.hand.players[0] # table.hand.players[1]
         /\ table.hand.players[0] \in Players /\ table.hand.players[1] \in Players
         /\ table.roster = {table.hand.players[0], table.hand.players[1]}
<1>1. /\ table.hand.players = table.seat /\ \A i \in Seats : table.seat[i] # NoPlayer
      /\ TM!Sound(table)
  BY DEF Server, HandIsHeadsUp, TableSound
<1>2. /\ table.seat \in [Seats -> Players \cup {NoPlayer}]
      /\ table.roster = {table.seat[i] : i \in Seats} \ {NoPlayer}
  BY <1>1, SoundTypes
<1>3. table.seat[0] = table.seat[1] => table.seat[0] = NoPlayer
  BY <1>1 DEF TM!Sound, TM!SeatsInStep
<1>4. Seats = {0, 1}
  BY SameSeats
<1>5. QED
  BY <1>1, <1>2, <1>3, <1>4

\* Once an action is served, nothing of the running hand is left on its way: the
\* request that asked for it is gone, and nobody else was asked.
LEMMA ActionConsumes ==
  ASSUME BotServer, NEW s \in Sessions, NEW a, NEW n \in Int, Applied(s, a, n),
         BotTurns, NEW r \in Bots, NEW p \in Players,
         Plays(r, table.hand.number, p)
  PROVE  /\ At(inbox[r], Asking(table.hand.number)) = {}
         /\ At(outbox'[r], Acting(table.hand.number)) = {}
         /\ bot[r].answer \notin Acting(table.hand.number)
<1>1. /\ TM!Sound(table) /\ table.hand # NoHand
      /\ toPlayer[s] \in Players
      /\ table.hand.players[table.hand.turn] = toPlayer[s]
  BY ActorHasTurn DEF BotServer, Applied
<1>2. PICK k \in Nat : k = table.hand.number
  BY <1>1, RunningNumber
<1>3. OneAbout(r, k) /\ Timely(r, k, p)
  BY <1>2 DEF BotTurns, BotTurn
<1>4. r \in Sessions /\ outbox \in [Bots -> Seq(Answers \cup {BC!Join, BC!TopUpRequest})]
  BY BotsAssumption DEF BotServer, BotTypes
<1>5. CASE r = s
  <2>1. outbox[r] # <<>> /\ outbox[r] \in Seq(Answers \cup {BC!Join, BC!TopUpRequest})
        /\ outbox'[r] = Tail(outbox[r])
        /\ Head(outbox[r]).type = "action" /\ Head(outbox[r]).hand = k
    BY <1>2, <1>4, <1>5 DEF Applied
  <2>2. 1 \in DOMAIN outbox[r] /\ Head(outbox[r]) = outbox[r][1]
    BY <2>1
  <2>3. outbox[r][1] \in Answers
    <3>1. outbox[r][1] \in Answers \cup {BC!Join, BC!TopUpRequest}
      BY <2>1, <2>2
    <3>2. QED
      BY <2>1, <2>2, <3>1 DEF BC!Join, BC!TopUpRequest
  <2>4. 1 \in At(outbox[r], Acting(k))
    BY <2>1, <2>2, <2>3 DEF At, Acting
  <2>5. At(outbox'[r], Acting(k)) = {}
    <3> SUFFICES ASSUME NEW i \in At(outbox'[r], Acting(k)) PROVE FALSE
      OBVIOUS
    <3>1. /\ Len(Tail(outbox[r])) = Len(outbox[r]) - 1 /\ Len(outbox[r]) \in Nat
          /\ DOMAIN Tail(outbox[r]) = 1..Len(Tail(outbox[r]))
          /\ \A j \in 1..Len(Tail(outbox[r])) : Tail(outbox[r])[j] = outbox[r][j + 1]
      <4> DEFINE S == Answers \cup {BC!Join, BC!TopUpRequest}
      <4>1. outbox[r] \in Seq(S)
        BY <2>1
      <4> HIDE DEF S
      <4>2. Tail(outbox[r]) \in Seq(S)
        BY <2>1, <4>1, HeadTailProperties
      <4>3. QED
        BY <2>1, <4>1, <4>2, HeadTailProperties
    <3>2. i \in 1..Len(Tail(outbox[r])) /\ Tail(outbox[r])[i] \in Acting(k)
      BY <2>1, <3>1 DEF At
    <3>3. i + 1 \in At(outbox[r], Acting(k))
      BY <2>1, <3>1, <3>2 DEF At
    <3>4. i + 1 = 1
      BY <1>3, <2>4, <3>3 DEF OneAbout
    <3>5. QED
      BY <3>2, <3>4
  <2>6. At(inbox[r], Asking(k)) = {} /\ bot[r].answer \notin Acting(k)
    BY <1>3, <2>4 DEF OneAbout
  <2>7. QED
    BY <1>2, <2>5, <2>6
<1>6. CASE r # s
  <2>1. p # toPlayer[s]
    BY <1>1, <1>4, <1>6 DEF Plays, BotServer, Server, MapsInverse
  <2>2. NothingAbout(r, k)
    BY <1>1, <1>3, <2>1 DEF Timely
  <2>3. outbox'[r] = outbox[r]
    BY <1>4, <1>6 DEF Applied
  <2>4. QED
    BY <1>2, <2>2, <2>3 DEF NothingAbout
<1>7. QED
  BY <1>5, <1>6

\* sendActionRequest reaches only the player who is next, with the hand's numbers.
LEMMA RequestsDelivered ==
  ASSUME BotServer, Server', NEW s \in Sessions, NEW a, NEW n \in Int, Applied(s, a, n),
         NEW r \in Bots, NEW k
  PROVE  LET q == Addressed(r, last'.sent)
             after == TM!Acted(table, toPlayer[s], a, n)
         IN /\ q \in Seq(Messages)
            /\ inbox'[r] = inbox[r] \/ inbox'[r] = inbox[r] \o q
            /\ \A i, j \in At(q, Asking(k)) : i = j
            /\ \A i \in At(q, Asking(k)) : IsRequestAfter(q[i], after) /\ r \in q[i].to
<1> DEFINE q == Addressed(r, last'.sent)
           after == TM!Acted(table, toPlayer[s], a, n)
<1>1. last'.sent \in Seq(Messages) /\ Deliver
  BY DEF Server, Answered, Applied
<1>2. \A j \in DOMAIN last'.sent : last'.sent[j].type = "action_request" =>
        j = 2 /\ IsRequestAfter(last'.sent[j], after)
  BY ActionSends DEF BotServer, Applied
<1>3. /\ q \in Seq(Messages)
      /\ \A i \in DOMAIN q : \E j \in DOMAIN last'.sent : q[i] = last'.sent[j] /\ r \in last'.sent[j].to
      /\ \A i, j \in DOMAIN q :
           q[i].type = "action_request" /\ q[j].type = "action_request" => i = j
  BY <1>1, <1>2, AddressedFacts
<1>4. inbox'[r] = inbox[r] \/ inbox'[r] = inbox[r] \o q
  BY <1>1, Delivered DEF BotServer, Server
<1> HIDE DEF q, after
<1>5. \A i, j \in At(q, Asking(k)) : i = j
  BY <1>3 DEF At, Asking
<1>6. \A i \in At(q, Asking(k)) : IsRequestAfter(q[i], after) /\ r \in q[i].to
  BY <1>2, <1>3 DEF At, Asking
<1>7. QED
  BY <1>3, <1>4, <1>5, <1>6 DEF q, after

\* Of another hand than the running one, an action brings nothing.
LEMMA ActionElsewhere ==
  ASSUME BotServer, Server', NEW s \in Sessions, NEW a, NEW n \in Int, Applied(s, a, n),
         NEW r \in Bots, NEW k, k # table.hand.number
  PROVE  Quiet(r, k)
<1> DEFINE q == Addressed(r, last'.sent)
           after == TM!Acted(table, toPlayer[s], a, n)
           Writings == Answers \cup {BC!Join, BC!TopUpRequest}
<1>1. inbox[r] \in Seq(Messages) /\ outbox[r] \in Seq(Writings) /\ DOMAIN inbox[r] \subseteq Int
      /\ DOMAIN outbox[r] \subseteq Int /\ outbox \in [Bots -> Seq(Writings)]
  BY DEF BotServer, BotTypes
<1>2. after.hand.number = table.hand.number
  BY ActorHasTurn, ActedDetails DEF BotServer, Applied
<1>3. Thins(inbox'[r], inbox[r], Asking(k))
  <2> HIDE DEF q, after, Writings
  <2>1. /\ q \in Seq(Messages)
        /\ inbox'[r] = inbox[r] \/ inbox'[r] = inbox[r] \o q
        /\ \A i \in At(q, Asking(k)) : IsRequestAfter(q[i], after)
    BY RequestsDelivered DEF q, after
  <2>2. \A m : IsRequestAfter(m, after) => m.hand = after.hand.number
    BY DEF IsRequestAfter
  <2>3. At(q, Asking(k)) = {}
    BY <1>2, <2>1, <2>2 DEF At, Asking
  <2>4. Thins(inbox[r] \o q, inbox[r], Asking(k))
    BY <1>1, <2>1, <2>3, ThinsConcat
  <2>5. Thins(inbox[r], inbox[r], Asking(k))
    BY <1>1, ThinsSame
  <2>6. QED
    BY <2>1, <2>4, <2>5
<1>4. Thins(outbox'[r], outbox[r], Acting(k))
  <2> HIDE DEF Writings
  <2>1. outbox'[r] = outbox[r] \/ (outbox[r] # <<>> /\ outbox'[r] = Tail(outbox[r]))
    BY <1>1 DEF Applied
  <2>2. outbox[r] # <<>> => Thins(Tail(outbox[r]), outbox[r], Acting(k))
    BY <1>1, ThinsTail
  <2>3. Thins(outbox[r], outbox[r], Acting(k))
    BY <1>1, ThinsSame
  <2>4. QED
    BY <2>1, <2>2, <2>3
<1>5. QED
  BY <1>3, <1>4 DEF Quiet, Applied

\* processPlayerAction, sendActionRequest: the bot whose turn it is now may have
\* been asked, once and with the numbers of the hand.
LEMMA NextIsAsked ==
  ASSUME BotServer, BotServer', NEW s \in Sessions, NEW a, NEW n \in Int, Applied(s, a, n),
         table' = TM!Acted(table, toPlayer[s], a, n), BotTurns,
         NEW r \in Bots, NEW k \in Nat, NEW p \in Players, Plays(r, k, p)'
  PROVE  OneAbout(r, k)' /\ Timely(r, k, p)'
<1> DEFINE q == Addressed(r, last'.sent)
<1>1. /\ TM!Sound(table) /\ table.hand # NoHand /\ toPlayer[s] \in table.roster
      /\ TM!ValidAction(table, toPlayer[s], a, n)
  BY ActorHasTurn DEF BotServer, Applied
<1>2. /\ table'.hand # NoHand /\ table'.hand.number = table.hand.number
      /\ table'.roster = table.roster
  BY <1>1, ActedFacts, ActedDetails
<1>3. k = table.hand.number /\ toPlayer' = toPlayer /\ toSession' = toSession /\ bot' = bot
      /\ Plays(r, table.hand.number, p)
  BY <1>1, <1>2 DEF Plays, Applied, ActionApplied
<1>4. /\ At(inbox[r], Asking(k)) = {} /\ At(outbox'[r], Acting(k)) = {}
      /\ bot'[r].answer \notin Acting(k)
  BY <1>3, ActionConsumes
<1>5. /\ q \in Seq(Messages)
      /\ inbox'[r] = inbox[r] \/ inbox'[r] = inbox[r] \o q
      /\ \A i, j \in At(q, Asking(k)) : i = j
      /\ \A i \in At(q, Asking(k)) : IsRequestAfter(q[i], table') /\ r \in q[i].to
  BY RequestsDelivered DEF BotServer
<1> HIDE DEF q
<1>6. inbox[r] \in Seq(Messages)
  BY DEF BotServer, BotTypes
<1>7. \A i \in At(inbox'[r], Asking(k)) :
        \E j \in At(q, Asking(k)) : i = Len(inbox[r]) + j /\ inbox'[r][i] = q[j]
  <2> SUFFICES ASSUME NEW i \in At(inbox'[r], Asking(k))
               PROVE  \E j \in At(q, Asking(k)) : i = Len(inbox[r]) + j /\ inbox'[r][i] = q[j]
    OBVIOUS
  <2>1. inbox'[r] = inbox[r] \o q
    BY <1>4, <1>5
  <2>2. /\ inbox[r] \o q \in Seq(Messages) /\ Len(inbox[r] \o q) = Len(inbox[r]) + Len(q)
        /\ \A j \in 1..Len(inbox[r]) + Len(q) :
             (inbox[r] \o q)[j] = IF j <= Len(inbox[r]) THEN inbox[r][j] ELSE q[j - Len(inbox[r])]
        /\ Len(inbox[r]) \in Nat /\ Len(q) \in Nat
        /\ DOMAIN inbox[r] = 1..Len(inbox[r]) /\ DOMAIN q = 1..Len(q)
    BY <1>5, <1>6, ConcatProperties
  <2>3. i \in 1..Len(inbox[r]) + Len(q) /\ (inbox[r] \o q)[i] \in Asking(k)
        /\ inbox'[r][i] = (inbox[r] \o q)[i]
    BY <2>1, <2>2 DEF At
  <2>4. ~(i <= Len(inbox[r]))
    <3>1. i <= Len(inbox[r]) => i \in At(inbox[r], Asking(k))
      BY <2>2, <2>3 DEF At
    <3>2. QED
      BY <1>4, <3>1
  <2>5. i - Len(inbox[r]) \in DOMAIN q /\ q[i - Len(inbox[r])] \in Asking(k)
        /\ inbox'[r][i] = q[i - Len(inbox[r])] /\ i = Len(inbox[r]) + (i - Len(inbox[r]))
    BY <2>2, <2>3, <2>4
  <2>6. QED
    BY <2>5 DEF At
<1>8. \A i, j \in At(inbox'[r], Asking(k)) : i = j
  BY <1>5, <1>7
<1>9. ASSUME NEW i \in At(inbox'[r], Asking(k))
      PROVE  /\ table'.hand.players[table'.hand.turn] = p
             /\ inbox'[r][i].call = CallAmount(table'.hand)
             /\ inbox'[r][i].min_raise = table'.hand.min_raise
             /\ inbox'[r][i].max_raise <= table'.stack[p]
  <2>1. IsRequestAfter(inbox'[r][i], table') /\ r \in inbox'[r][i].to
    BY <1>5, <1>7
  <2> DEFINE x == table'.hand.players[table'.hand.turn]
  <2>2. /\ x \in table'.roster /\ toSession[x] # NoSession
        /\ inbox'[r][i] = [type |-> "action_request", to |-> {toSession[x]},
             hand |-> table'.hand.number, call |-> CallAmount(table'.hand),
             min_raise |-> table'.hand.min_raise, max_raise |-> table'.stack[x]]
    BY <2>1 DEF IsRequestAfter
  <2> HIDE DEF x
  <2>3. toSession[x] = r
    BY <2>1, <2>2
  <2>4. x \in Players
    BY <2>2, SoundTypes DEF BotServer, Server, TableSound
  <2>5. x = p
    BY <1>3, <2>3, <2>4, BotsAssumption DEF BotServer, Server, MapsInverse, Plays
  <2>6. table'.stack[p] \in Nat
    BY SoundTypes DEF BotServer, Server, TableSound
  <2>7. QED
    BY <2>2, <2>5, <2>6 DEF x
<1>10. OneAbout(r, k)'
  BY <1>4, <1>8 DEF OneAbout
<1>11. Timely(r, k, p)'
  <2>1. ~NothingAbout(r, k)' => \E i : i \in At(inbox'[r], Asking(k))
    BY <1>4 DEF NothingAbout
  <2>2. QED
    BY <1>4, <1>9, <2>1 DEF Timely
<1>12. QED
  BY <1>10, <1>11

LEMMA ActionTurns ==
  ASSUME BotServer, BotServer', NEW s \in Sessions, NEW a, NEW n \in Int, Applied(s, a, n),
         BotTurns
  PROVE  BotTurns'
<1> SUFFICES ASSUME NEW r \in Bots, NEW k \in Nat PROVE BotTurn(r, k)'
  BY DEF BotTurns
<1> DEFINE after == TM!Acted(table, toPlayer[s], a, n)
<1>1. BotTurn(r, k) /\ toPlayer' = toPlayer /\ table.hand # NoHand /\ TM!Sound(table)
      /\ Server /\ Server' /\ ActionApplied(s, a, n)
  BY ActorHasTurn DEF BotTurns, Applied, ActionApplied, BotServer
<1>2. /\ table'.started = table.started
      /\ \/ table' = table /\ last'.sent = <<>>
         \/ table'.hand = NoHand
         \/ table' = after
  BY <1>1, ActionLeaves
<1>3. k > table'.started => NothingAbout(r, k)'
  <2> SUFFICES ASSUME k > table.started PROVE NothingAbout(r, k)'
    BY <1>2
  <2>1. k # table.hand.number
    BY <1>1, RunningNumber
  <2>2. Quiet(r, k) /\ NothingAbout(r, k)
    BY <1>1, <2>1, ActionElsewhere DEF BotTurn
  <2>3. QED
    BY <2>2, QuietNothing
<1>4. CASE table' = table /\ last'.sent = <<>>
  <2>1. AsksNobody(last'.sent) /\ Answered' /\ Deliver /\ BotTypes
    BY <1>1, <1>4 DEF AsksNobody, Server, Applied, BotServer
  <2>2. Thins(inbox'[r], inbox[r], Asking(k))
    BY <2>1, DeliveredQuietly
  <2>3. Thins(outbox'[r], outbox[r], Acting(k))
    <3> DEFINE S == Answers \cup {BC!Join, BC!TopUpRequest}
    <3>1. outbox \in [Bots -> Seq(S)] /\ outbox[r] \in Seq(S) /\ DOMAIN outbox[r] \subseteq Int
      BY <2>1 DEF BotTypes
    <3> HIDE DEF S
    <3>2. outbox'[r] = outbox[r] \/ (outbox[r] # <<>> /\ outbox'[r] = Tail(outbox[r]))
      BY <3>1 DEF Applied
    <3>3. outbox[r] # <<>> => Thins(Tail(outbox[r]), outbox[r], Acting(k))
      BY <3>1, ThinsTail
    <3>4. Thins(outbox[r], outbox[r], Acting(k))
      BY <3>1, ThinsSame
    <3>5. QED
      BY <3>2, <3>3, <3>4
  <2>4. Quiet(r, k)
    BY <2>2, <2>3 DEF Quiet, Applied
  <2>5. HandKept /\ SameVoice(r)
    BY <1>1, <1>4, Unseated DEF SameVoice
  <2>6. QED
    BY <1>1, <2>4, <2>5, QuietTurn DEF BotServer
<1>5. CASE table'.hand = NoHand
  BY <1>3, <1>5 DEF BotTurn, Plays
<1>6. CASE table' = after
  BY <1>3, <1>6, NextIsAsked DEF BotTurn
<1>7. QED
  BY <1>2, <1>4, <1>5, <1>6

-----------------------------------------------------------------------------
(* Part 6: the theorem                                                       *)

LEMMA BotTurnsInductive ==
  ASSUME BotServer, BotServer', BotTurns, [BNext]_allvars
  PROVE  BotTurns'
<1>1. Server /\ Server' /\ BotTypes /\ BotTypes' /\ Answered'
  BY DEF BotServer, Server
<1>2. NoPlayer \notin table'.roster
  BY <1>1, SoundTypes, ServerAssumption DEF Server, TableSound
<1>3. ASSUME \A r \in Bots : SameVoice(r), HandKept \/ HandBegins,
             \A r \in Bots, n \in Nat : Quiet(r, n)
      PROVE  BotTurns'
  BY <1>1, <1>3, QuietTurn DEF BotTurns
<1>4. CASE \E s \in Sessions, a \in ActionTypes, n \in Int : Applied(s, a, n)
  BY <1>4, ActionTurns
<1>5. CASE \E s \in Bots : BotStep(s)
  BY <1>5, BotStepTurns
<1>6. CASE UNCHANGED bots /\ HandKept
  <2>1. \A r \in Bots, n \in Nat : Quiet(r, n)
    BY <1>1, <1>6, UnchangedQuietly DEF bots
  <2>2. \A r \in Bots : SameVoice(r)
    <3>1. CASE UNCHANGED toPlayer
      BY <3>1 DEF SameVoice
    <3>2. CASE Relayed
      BY <1>2, <3>2 DEF Relayed, SameVoice
    <3>3. CASE \E s \in Bots : BotStep(s)
      BY <3>3 DEF BotStep, vars, SameVoice
    <3>4. CASE \E s \in Bots, p \in Players : ConnectBot(s, p)
      <4>1. PICK s \in Bots, p \in Players : ConnectBot(s, p)
        BY <3>4
      <4>2. p \notin table.roster /\ toPlayer' = [toPlayer EXCEPT ![s] = p] /\ table' = table
        BY <4>1 DEF ConnectBot, Welcome
      <4>3. QED
        BY <1>1, <4>2, BotsAssumption DEF SameVoice, Server, Typed
    <3>5. QED
      BY <1>1, <3>1, <3>2, <3>3, <3>4, EveryStep DEF Apart
  <2>3. QED
    BY <1>3, <1>6, <2>1, <2>2
<1>7. CASE AsksNobody(last'.sent) /\ (HandKept \/ HandBegins)
  <2>1. CASE Relayed
    <3>1. \A r \in Bots, n \in Nat : Quiet(r, n)
      BY <1>1, <1>7, <2>1, RelayedQuietly
    <3>2. \A r \in Bots : SameVoice(r)
      BY <1>2, <2>1 DEF Relayed, SameVoice
    <3>3. QED
      BY <1>3, <1>7, <3>1, <3>2
  <2>2. CASE Apart
    <3>1. \A r \in Bots, n \in Nat : Quiet(r, n)
      BY <1>1, <2>2, UnchangedQuietly DEF Apart, bots
    <3>2. \A r \in Bots : SameVoice(r)
      BY <2>2 DEF Apart, SameVoice
    <3>3. QED
      BY <1>3, <1>7, <3>1, <3>2
  <2>3. CASE \E s \in Bots, p \in Players : ConnectBot(s, p)
    <3>1. PICK s \in Bots, p \in Players : ConnectBot(s, p)
      BY <2>3
    <3>2. /\ p \notin table.roster /\ toPlayer' = [toPlayer EXCEPT ![s] = p]
          /\ table' = table /\ Deliver /\ outbox' = outbox
          /\ bot' = [bot EXCEPT ![s].phase = "welcoming"]
      BY <3>1 DEF ConnectBot, Welcome, BC!Connect, BC!GoesTo
    <3>3. ASSUME NEW r \in Bots, NEW n \in Nat
          PROVE  Quiet(r, n)
      <4>1. Thins(inbox'[r], inbox[r], Asking(n))
        BY <1>1, <1>7, <3>2, DeliveredQuietly
      <4>2. Thins(outbox'[r], outbox[r], Acting(n))
        <5>1. DOMAIN outbox[r] \subseteq Int
          BY <1>1 DEF BotTypes
        <5>2. QED
          BY <3>2, <5>1, ThinsSame
      <4>3. bot'[r].answer = bot[r].answer
        BY <1>1, <3>2 DEF BotTypes
      <4>4. QED
        BY <4>1, <4>2, <4>3 DEF Quiet
    <3>4. \A r \in Bots : SameVoice(r)
      BY <1>1, <3>2, BotsAssumption DEF SameVoice, Server, Typed
    <3>5. QED
      BY <1>3, <1>7, <3>3, <3>4
  <2>4. CASE \E s \in Bots : BotStep(s)
    BY <2>4, BotStepTurns
  <2>5. QED
    BY <1>1, <2>1, <2>2, <2>3, <2>4, EveryStep
<1>8. QED
  BY <1>1, <1>4, <1>5, <1>6, <1>7, HandSteps

\* The inductive invariant
BotInv == BotServer /\ StrangersUntouched /\ BotsHere /\ BotTurns

LEMMA InitBotInv == BInit => BotInv
<1> SUFFICES ASSUME BInit PROVE BotInv
  OBVIOUS
<1>1. Init /\ BC!Init /\ BotServer
  BY InitBotServer DEF BInit
<1>2. /\ table = TM!EmptyTable /\ timers = PC!NoTimers
      /\ toPlayer = [s \in Sessions |-> NoPlayer]
  BY <1>1 DEF Init
<1>3. StrangersUntouched
  BY <1>2 DEF StrangersUntouched, TM!EmptyTable, PC!NoTimers
<1>4. BotsHere
  BY <1>2, BotsAssumption DEF BotsHere
<1>5. \A s \in Bots : toPlayer[s] = NoPlayer /\ inbox[s] = <<>> /\ outbox[s] = <<>>
                      /\ bot[s].answer = BC!NoAnswer
  BY <1>1, <1>2, BotsAssumption DEF BC!Init
<1>6. \A s \in Bots, n \in Nat : NothingAbout(s, n)
  BY <1>5 DEF NothingAbout, At, Acting, BC!NoAnswer
<1>7. BotTurns
  BY <1>5, <1>6, ServerAssumption DEF BotTurns, BotTurn, Plays
<1>8. QED
  BY <1>1, <1>3, <1>4, <1>7 DEF BotInv

LEMMA BotInvInductive == BotInv /\ [BNext]_allvars => BotInv'
<1> SUFFICES ASSUME BotInv, [BNext]_allvars PROVE BotInv'
  OBVIOUS
<1>1. BotServer /\ BotServer'
  BY BotServerInductive DEF BotInv
<1>2. [AnyNext]_vars
  BY <1>1, ServerSteps DEF BotServer
<1>3. StrangersUntouched'
  BY <1>1, <1>2, StrangersInductive DEF BotServer, BotInv
<1>4. BotsHere' /\ BotTurns'
  BY <1>1, BotsHereInductive, BotTurnsInductive DEF BotInv
<1>5. QED
  BY <1>1, <1>3, <1>4 DEF BotInv

\* The numbers of a request are those of the hand, whose other player has bet at
\* least what it takes to level.
LEMMA Levels ==
  ASSUME NEW h \in TM!Hands, h = table.hand
  PROVE  h.bets[h.turn] + CallAmount(h) = LevelBet
<1>1. h.turn \in {0, 1} /\ h.bets[0] \in Nat /\ h.bets[1] \in Nat
  BY DEF TM!Hands, TM!Seats
<1>2. TM!Other(0) = 1 /\ TM!Other(1) = 0
  BY DEF TM!Other
<1>3. QED
  BY <1>1, <1>2 DEF CallAmount, LevelBet

\* randomDelay, sendActionRequest, handleAction: however old a request is when its
\* answer is served, for as long as its hand runs it is the bot's turn, the call
\* levels the bets, and the server refuses the answer for one reason only, a call
\* the bot cannot pay.
THEOREM RequestTheorem == BSpec => []RequestStillTrue
<1>1. BotInv => RequestStillTrue
  <2> SUFFICES ASSUME BotInv, NEW s \in Bots
               PROVE  /\ \A m \in Requests(s) : About(s, m.hand) =>
                           /\ TM!HasTurn(table, bot[s].id)
                           /\ table.hand.bets[table.hand.turn] + m.call = LevelBet
                           /\ m.min_raise = table.hand.min_raise
                           /\ m.max_raise <= table.stack[bot[s].id]
                      /\ \A a \in AnswersOf(s) : About(s, a.hand) =>
                           \/ Accepts(bot[s].id, a.action, a.amount)
                           \/ a.action = "call" /\ a.amount > table.stack[bot[s].id]
    BY DEF RequestStillTrue
  <2>1. /\ Server /\ TM!Sound(table) /\ inbox[s] \in Seq(Messages)
        /\ outbox[s] \in Seq(Answers \cup {BC!Join, BC!TopUpRequest}) /\ bot[s].answer \in Answers
    BY DEF BotInv, BotServer, BotTypes, Server, TableSound
  <2>2. ASSUME NEW n, About(s, n)
        PROVE  /\ n \in Nat /\ bot[s].id \in Players /\ Plays(s, n, bot[s].id)
               /\ OneAbout(s, n) /\ Timely(s, n, bot[s].id)
               /\ table.hand \in TM!Hands
    <3>1. bot[s].id \in Players /\ table.hand \in TM!Hands /\ n \in Nat
      BY <2>1, <2>2, SoundTypes, RunningNumber DEF About
    <3>2. Plays(s, n, bot[s].id)
      BY <2>2 DEF About, Plays
    <3>3. QED
      BY <3>1, <3>2 DEF BotInv, BotTurns, BotTurn
  <2>3. ASSUME NEW m \in Requests(s), About(s, m.hand)
        PROVE  /\ TM!HasTurn(table, bot[s].id)
               /\ table.hand.bets[table.hand.turn] + m.call = LevelBet
               /\ m.min_raise = table.hand.min_raise
               /\ m.max_raise <= table.stack[bot[s].id]
    <3>1. PICK i \in DOMAIN inbox[s] : m = inbox[s][i] /\ m.type = "action_request"
      BY <2>3 DEF Requests, ToSet
    <3>2. i \in At(inbox[s], Asking(m.hand))
      BY <2>1, <3>1 DEF At, Asking
    <3>3. Timely(s, m.hand, bot[s].id) /\ table.hand \in TM!Hands
      BY <2>2, <2>3
    <3>4. m.call = CallAmount(table.hand) /\ m.min_raise = table.hand.min_raise
          /\ m.max_raise <= table.stack[bot[s].id]
          /\ table.hand.players[table.hand.turn] = bot[s].id
      BY <3>1, <3>2, <3>3 DEF Timely, NothingAbout
    <3>5. QED
      BY <3>3, <3>4, Levels DEF TM!HasTurn
  <2>4. ASSUME NEW a \in AnswersOf(s), About(s, a.hand)
        PROVE  \/ Accepts(bot[s].id, a.action, a.amount)
               \/ a.action = "call" /\ a.amount > table.stack[bot[s].id]
    <3> DEFINE n == a.hand
               p == bot[s].id
    <3>1. p \in Players /\ p \in table.roster /\ Timely(s, n, p) /\ table.hand \in TM!Hands
          /\ toPlayer[s] = p /\ table.hand # NoHand
      BY <2>2, <2>4 DEF About
    <3>2. a \in Acting(n) /\ Fits(p, a) /\ table.hand.players[table.hand.turn] = p
      <4>1. CASE a = bot[s].answer
        BY <2>1, <2>4, <3>1, <4>1 DEF AnswersOf, Acting, Timely, NothingAbout
      <4>2. CASE a \in ToSet(outbox[s])
        <5>1. PICK i \in DOMAIN outbox[s] : a = outbox[s][i] /\ a.type = "action"
          BY <2>4, <4>2 DEF AnswersOf, ToSet
        <5>2. a \in Answers
          <6>1. a \in Answers \cup {BC!Join, BC!TopUpRequest}
            BY <2>1, <5>1
          <6>2. QED
            BY <5>1, <6>1 DEF BC!Join, BC!TopUpRequest
        <5>3. i \in At(outbox[s], Acting(n))
          BY <5>1, <5>2 DEF At, Acting
        <5>4. QED
          BY <3>1, <5>1, <5>2, <5>3 DEF Timely, NothingAbout, Acting
      <4>3. QED
        BY <4>1, <4>2 DEF AnswersOf
    <3>3. a.action \in ActionTypes /\ a.amount \in Nat /\ table.stack[p] \in Nat
      <4>1. a.amount \in Nat
        BY <3>2 DEF Acting, Answers, BC!NoAnswer
      <4>2. table.stack[p] \in Nat
        BY <2>1, <3>1, SoundTypes
      <4>3. QED
        BY <3>2, <4>1, <4>2 DEF Fits, ActionTypes
    <3>4. TM!CanAct(table, p)
      <4>1. Here(p)
        BY <3>1, ServerAssumption DEF BotInv, BotsHere
      <4>2. table.hand.folded = {}
        BY <2>1, <3>1 DEF Server, HandIsHeadsUp
      <4>3. table.hand.turn \in TM!Seats
        BY <3>1 DEF TM!Hands
      <4>4. QED
        BY <3>2, <4>1, <4>2, <4>3 DEF TM!CanAct, Here
    <3>5. a.amount <= table.stack[p] => TM!ValidAction(table, p, a.action, a.amount)
      BY <3>2, <3>3, <3>4 DEF Fits, ActionTypes, TM!ValidAction, TM!Affordable, TM!HasTurn
    <3>6. a.action # "call" => a.amount <= table.stack[p]
      BY <3>2, <3>3 DEF Fits, ActionTypes
    <3>7. QED
      BY <3>1, <3>3, <3>5, <3>6 DEF Accepts
  <2>5. QED
    BY <2>3, <2>4
<1>2. QED
  BY <1>1, InitBotInv, BotInvInductive, PTL DEF BSpec

=============================================================================
