----------------------------- MODULE BotTableProofs -----------------------------
(***************************************************************************)
(* Theorems about BotTable: bots at the server, for any number of ids,     *)
(* sessions and bots, and whatever the clients behind the other sessions   *)
(* send.  The server's own theorems (GameSessionProofs) carry over, since  *)
(* a step of the composition is one of the server's or none that it sees.  *)
(***************************************************************************)
EXTENDS BotTable, GameSessionProofs

-----------------------------------------------------------------------------
(* Part 1: the server does not know whom it serves                           *)

BotTypes ==
  /\ bot \in [Bots -> [phase: BC!Phases, id: Players \cup {NoPlayer}, answer: Answers]]
  /\ inbox \in [Bots -> Seq(Messages)]
  /\ outbox \in [Bots -> Seq(Answers \cup {BC!Join, BC!TopUpRequest})]
  /\ losses \in 0..MaxLosses

ChannelTypes ==
  /\ unwritten \in [Sessions -> Nat] /\ \A s \in Sessions : unwritten[s] <= Bound(s)
  /\ broken \subseteq Bots /\ blocked \in BOOLEAN

\* send, on_write: a message on its way to a client is written, or its write fails,
\* and the server sees nothing of it.
Writes == (\E s \in Sessions : WriteDone(s)) \/ (\E s \in Bots : WriteFails(s))

\* What a bot's program asks the server to apply is an amount like any other.
LEMMA HeadOfOutbox ==
  ASSUME BotTypes, NEW s \in Bots, outbox[s] # <<>>, Head(outbox[s]).type = "action"
  PROVE  /\ Head(outbox[s]).action \in {"fold", "call", "raise"}
         /\ Head(outbox[s]).amount \in Nat /\ Head(outbox[s]).hand \in Nat
<1>1. Head(outbox[s]) \in Answers \cup {BC!Join, BC!TopUpRequest}
  <2>1. outbox[s] \in Seq(Answers \cup {BC!Join, BC!TopUpRequest})
    BY DEF BotTypes
  <2>2. QED
    BY <2>1
<1>2. QED
  BY <1>1 DEF Answers, BC!NoAnswer, BC!Join, BC!TopUpRequest

LEMMA ServerSteps ==
  ASSUME BotTypes, [BNext]_allvars
  PROVE  [AnyNext]_vars
<1>1. ASSUME NEW s \in Bots, Serve(s)
      PROVE  AnyNext
  <2>1. s \in Sessions
    BY BotsAssumption
  <2>2. CASE ServeJoin(s) \/ ServeTopUp(s)
    BY <2>1, <2>2 DEF ServeJoin, ServeTopUp, AnyNext, Next
  <2>3. CASE ServeAction(s) /\ ActionRefused(s)
    BY <2>1, <2>3 DEF AnyNext, Next
  <2>4. CASE ServeAction(s) /\ ActionApplied(s, Head(outbox[s]).action, Head(outbox[s]).amount)
    <3>1. Head(outbox[s]).action \in {"fold", "call", "raise"} /\ Head(outbox[s]).amount \in Int
      BY <2>4, HeadOfOutbox DEF ServeAction
    <3>2. QED
      BY <2>1, <2>4, <3>1 DEF AnyNext
  <2>5. QED
    BY <1>1, <2>2, <2>3, <2>4 DEF Serve, ServeAction
<1>2. ASSUME NEW s \in Sessions, AnyMessage(s)
      PROVE  AnyNext
  BY <1>2 DEF AnyMessage, AnyNext, Next
<1>3. CASE \E s \in Bots : BotStep(s)
  BY <1>3 DEF BotStep, vars
<1>4. CASE \/ \E s \in Bots, p \in Players : ConnectBot(s, p)
           \/ \E s \in Sessions \ Bots, p \in Players : ConnectStranger(s, p)
  BY <1>4, BotsAssumption DEF ConnectBot, ConnectStranger, AnyNext, Next
<1>5. CASE \E s \in Sessions : SocketLost(s)
  BY <1>5 DEF SocketLost, AnyNext, Next
<1>6. CASE \E p \in Players : TimerExpires(p) \/ TimerHandled(p)
  BY <1>6 DEF TimerExpires, TimerHandled, AnyNext, Next
<1>7. CASE UNCHANGED allvars
  BY <1>7 DEF allvars, vars
<1>8. CASE Writes
  BY <1>8 DEF Writes, WriteDone, WriteFails
<1>9. QED
  BY <1>1, <1>2, <1>3, <1>4, <1>5, <1>6, <1>7, <1>8 DEF BNext, Stranger, Writes

-----------------------------------------------------------------------------
(* Part 2: what the handlers send                                            *)

\* No handler sends more than three messages, and all of them go to the session
\* it handles or to sessions that speak for somebody.
ToKnown(from, messages) ==
  /\ Len(messages) <= 3
  /\ \A j \in DOMAIN messages : \A r \in messages[j].to : r = from \/ toPlayer[r] # NoPlayer

\* No action is asked of anybody.
AsksNobody(messages) == \A j \in DOMAIN messages : messages[j].type # "action_request"

Sends(from) == ToKnown(from, last'.sent) /\ AsksNobody(last'.sent)

LEMMA NothingSent == ASSUME NEW from, Handled(from, <<>>) PROVE Sends(from)
BY DEF Handled, Sends, ToKnown, AsksNobody

LEMMA OneSent ==
  ASSUME NEW from, NEW m, Handled(from, <<m>>), m.type # "action_request",
         \A r \in m.to : r = from \/ toPlayer[r] # NoPlayer
  PROVE  Sends(from)
BY DEF Handled, Sends, ToKnown, AsksNobody

LEMMA TwoSent ==
  ASSUME NEW from, NEW m, NEW n, Handled(from, <<m, n>>),
         m.type # "action_request" /\ n.type # "action_request",
         \A r \in m.to \cup n.to : r = from \/ toPlayer[r] # NoPlayer
  PROVE  Sends(from)
BY DEF Handled, Sends, ToKnown, AsksNobody

\* A broadcast reaches the mapped sessions.
LEMMA BroadcastKnown ==
  ASSUME Server, NEW type, NEW r \in Broadcast(type, toSession).to
  PROVE  toPlayer[r] # NoPlayer /\ r \in Sessions
<1>1. PICK p \in Players : r = toSession[p] /\ r # NoSession
  BY DEF Broadcast, Message
<1>2. r \in Sessions
  BY <1>1 DEF Server, Typed
<1>3. toPlayer[r] = p
  BY <1>1, <1>2 DEF Server, MapsInverse
<1>4. QED
  BY <1>2, <1>3, ServerAssumption

\* on_read and on_pong_timeout: what is sent is no answer
LEMMA LossAsksNobody ==
  ASSUME Server, NEW s \in Sessions, ReadFailed(s) \/ PingFailed(s)
  PROVE  Sends(NoSession)
<1>1. CASE Handled(NoSession, <<>>)
  BY <1>1 DEF Handled, Sends, ToKnown, AsksNobody
<1>2. CASE /\ SessionRemoved(toPlayer[s])
           /\ Handled(NoSession, <<Broadcast("player_disconnected", toSession')>>)
  <2> DEFINE m == Broadcast("player_disconnected", toSession')
  <2>1. \A r \in m.to : toPlayer[r] # NoPlayer
    <3> SUFFICES ASSUME NEW r \in m.to PROVE toPlayer[r] # NoPlayer
      OBVIOUS
    <3>1. PICK q \in Players : r = toSession'[q] /\ r # NoSession
      BY DEF Broadcast, Message
    <3>2. r = toSession[q]
      BY <1>2, <3>1 DEF SessionRemoved, Server, Typed
    <3>3. r \in Sessions
      BY <3>1, <3>2 DEF Server, Typed
    <3>4. toPlayer[r] = q
      BY <3>2, <3>3 DEF Server, MapsInverse
    <3>5. QED
      BY <3>4, ServerAssumption
  <2>2. m.type # "action_request" /\ last'.sent = <<m>>
    BY <1>2 DEF Broadcast, Message, Handled
  <2> HIDE DEF m
  <2>3. QED
    BY <2>1, <2>2 DEF Sends, ToKnown, AsksNobody
<1>3. QED
  BY <1>1, <1>2 DEF ReadFailed, PingFailed, Lost

\* sendWelcome, and handleJoin of a player who comes back
LEMMA ComersAskNobody ==
  ASSUME Server, NEW s \in Sessions, NEW p \in Players,
         Welcome(s, p) \/ Rejoin(s, p)
  PROVE  Sends(s)
<1>1. CASE Welcome(s, p)
  BY <1>1, OneSent DEF Welcome
<1>2. CASE Rejoin(s, p)
  <2> DEFINE m == Broadcast("player_reconnected", toSession')
  <2>1. \A r \in m.to : r = s \/ toPlayer[r] # NoPlayer
    <3> SUFFICES ASSUME NEW r \in m.to, r # s PROVE toPlayer[r] # NoPlayer
      OBVIOUS
    <3>1. PICK q \in Players : r = toSession'[q] /\ r # NoSession
      BY DEF Broadcast, Message
    <3>2. r = toSession[q]
      BY <1>2, <3>1 DEF Rejoin
    <3>3. r \in Sessions
      BY <3>1, <3>2 DEF Server, Typed
    <3>4. toPlayer[r] = q
      BY <3>2, <3>3 DEF Server, MapsInverse
    <3>5. QED
      BY <3>4, ServerAssumption
  <2>2. m.type # "action_request" /\ Handled(s, <<m, Message("join_ack", {s})>>)
    BY <1>2 DEF Rejoin, Broadcast, Message
  <2> HIDE DEF m
  <2>3. QED
    BY <2>1, <2>2, TwoSent DEF Message
<1>3. QED
  BY <1>1, <1>2

\* Every other handler of a message but handleAction
LEMMA HandlersAskNobody ==
  ASSUME Server, NEW s \in Sessions,
         TakeSeat(s) \/ JoinAnswered(s) \/ ActionRefused(s) \/ TopUp(s) \/ Ping(s)
  PROVE  Sends(s)
<1>1. CASE TakeSeat(s)
  <2>1. CASE Handled(s, <<Message("join_ack", {s})>>)
    BY <2>1, OneSent DEF Message
  <2>2. CASE Handled(s, <<Message("join_ack", {s}), BroadcastHandStarted>>)
    <3>1. \A r \in BroadcastHandStarted.to : toPlayer[r] # NoPlayer
      BY BroadcastKnown DEF BroadcastHandStarted
    <3>2. BroadcastHandStarted.type # "action_request"
      BY DEF BroadcastHandStarted, Broadcast, Message
    <3>3. QED
      BY <2>2, <3>1, <3>2, TwoSent DEF Message
  <2>3. QED
    BY <1>1, <2>1, <2>2 DEF TakeSeat
<1>2. CASE JoinAnswered(s) \/ ActionRefused(s) \/ TopUp(s) \/ Ping(s)
  <2>1. \E type \in {"join_ack", "error", "pong", "top_up_ack"} :
          Handled(s, <<Message(type, {s})>>)
    BY <1>2 DEF JoinAnswered, ActionRefused, Ping, TopUp
  <2>2. QED
    BY <2>1, OneSent DEF Message
<1>3. QED
  BY <1>1, <1>2

LEMMA TimersAskNobody ==
  ASSUME Server, NEW p \in Players, GraceTimerExpired(p) \/ RemovalTimerExpired(p)
  PROVE  Sends(NoSession)
<1>1. CASE Handled(NoSession, <<>>)
  BY <1>1, NothingSent
<1>2. CASE Handled(NoSession, <<BroadcastPlayerRemoved>>)
  <2>1. \A r \in BroadcastPlayerRemoved.to : toPlayer[r] # NoPlayer
    BY BroadcastKnown DEF BroadcastPlayerRemoved
  <2>2. BroadcastPlayerRemoved.type # "action_request"
    BY DEF BroadcastPlayerRemoved, Broadcast, Message
  <2>3. QED
    BY <1>2, <2>1, <2>2, OneSent
<1>3. QED
  BY <1>1, <1>2 DEF GraceTimerExpired, RemovalTimerExpired

\* Messages sent one after another
LEMMA OneAppended ==
  ASSUME NEW S, NEW a \in S, NEW b \in S
  PROVE  <<a>> \o <<b>> = <<a, b>> /\ Append(<<a>>, b) = <<a, b>>
<1>1. <<a>> \in Seq(S) /\ <<b>> \in Seq(S) /\ <<a, b>> \in Seq(S)
      /\ Len(<<a>>) = 1 /\ Len(<<b>>) = 1 /\ Len(<<a, b>>) = 2
  OBVIOUS
<1>2. <<a>> \o <<b>> \in Seq(S) /\ Len(<<a>> \o <<b>>) = 2
      /\ (<<a>> \o <<b>>)[1] = a /\ (<<a>> \o <<b>>)[2] = b
  BY <1>1, ConcatProperties
<1>3. \A i \in 1..2 : (<<a>> \o <<b>>)[i] = <<a, b>>[i]
  BY <1>2
<1>4. <<a>> \o <<b>> = <<a, b>>
  <2> DEFINE q == <<a>> \o <<b>>
  <2>1. q \in Seq(S) /\ Len(q) = Len(<<a, b>>) /\ \A i \in 1..Len(q) : q[i] = <<a, b>>[i]
    BY <1>1, <1>2, <1>3
  <2> HIDE DEF q
  <2>2. q = <<a, b>>
    BY <1>1, <2>1, SeqEqual
  <2>3. QED
    BY <2>2 DEF q
<1>5. Append(<<a>>, b) \in Seq(S) /\ Len(Append(<<a>>, b)) = 2
  BY <1>1, AppendProperties
<1>6. \A i \in 1..2 : Append(<<a>>, b)[i] = <<a, b>>[i]
  BY <1>1, AppendProperties
<1>7. Append(<<a>>, b) = <<a, b>>
  BY <1>1, <1>5, <1>6, SeqEqual
<1>8. QED
  BY <1>4, <1>7

LEMMA TwoAppended ==
  ASSUME NEW S, NEW a \in S, NEW b \in S, NEW c \in S
  PROVE  Append(<<a, b>>, c) = <<a, b, c>>
<1>1. <<a, b>> \in Seq(S) /\ <<a, b, c>> \in Seq(S)
      /\ Len(<<a, b>>) = 2 /\ Len(<<a, b, c>>) = 3
  OBVIOUS
<1>2. Append(<<a, b>>, c) \in Seq(S) /\ Len(Append(<<a, b>>, c)) = 3
  BY <1>1, AppendProperties
<1>3. \A i \in 1..3 : Append(<<a, b>>, c)[i] = <<a, b, c>>[i]
  BY <1>1, AppendProperties
<1>4. QED
  BY <1>1, <1>2, <1>3, SeqEqual

\* handleAction: the broadcast, perhaps one request, perhaps the end of the hand.
\* The request is for the other player of the hand, with the hand's numbers after
\* the action.
IsRequestAfter(m, t) ==
  LET p == t.hand.players[t.hand.turn]
  IN /\ p \in t.roster /\ toSession[p] # NoSession
     /\ m = [type |-> "action_request", to |-> {toSession[p]}, hand |-> t.hand.number,
             call |-> CallAmount(t.hand), min_raise |-> t.hand.min_raise,
             max_raise |-> t.stack[p]]

LEMMA ActionSends ==
  ASSUME Server, NEW s \in Sessions, NEW a, NEW n \in Int, ActionApplied(s, a, n)
  PROVE  /\ ToKnown(s, last'.sent)
         /\ \A j \in DOMAIN last'.sent : last'.sent[j].type = "action_request" =>
              /\ j = 2
              /\ IsRequestAfter(last'.sent[j], TM!Acted(table, toPlayer[s], a, n))
<1> DEFINE after == TM!Acted(table, toPlayer[s], a, n)
           b == BroadcastActionApplied
           c == BroadcastHandCompleted(after)
           e == Message("error", {s})
           req == ActionRequest(after)
<1>1. \A r \in b.to \cup c.to \cup e.to : r = s \/ toPlayer[r] # NoPlayer
  BY BroadcastKnown DEF BroadcastActionApplied, BroadcastHandCompleted, Message
<1>2. b.type # "action_request" /\ c.type # "action_request" /\ e.type # "action_request"
  BY DEF BroadcastActionApplied, Broadcast, BroadcastHandCompleted, Message
<1>3. \/ req = <<>>
      \/ \E m : /\ req = <<m>> /\ IsRequestAfter(m, after)
                /\ \A r \in m.to : toPlayer[r] # NoPlayer
  <2> DEFINE p == after.hand.players[after.hand.turn]
             m == [type |-> "action_request", to |-> {toSession[p]}, hand |-> after.hand.number,
                   call |-> CallAmount(after.hand), min_raise |-> after.hand.min_raise,
                   max_raise |-> after.stack[p]]
  <2> HIDE DEF after
  <2>1. CASE p \notin after.roster \/ toSession[p] = NoSession
    BY <2>1 DEF ActionRequest
  <2>2. CASE p \in after.roster /\ toSession[p] # NoSession
    <3>1. req = <<m>> /\ IsRequestAfter(m, after)
      BY <2>2 DEF ActionRequest, IsRequestAfter
    <3>2. p \in Players
      <4>1. /\ toPlayer[s] \in table.roster /\ table.hand # NoHand
            /\ TM!ValidAction(table, toPlayer[s], a, n) /\ TM!Sound(table)
        BY DEF Server, TableSound, ActionApplied, Accepts
      <4>2. after.roster = table.roster
        BY <4>1, ActedFacts DEF after
      <4>3. QED
        BY <2>2, <4>1, <4>2, SoundTypes
    <3>3. toPlayer[toSession[p]] = p
      BY <2>2, <3>2 DEF Server, Typed, MapsInverse
    <3>4. \A r \in m.to : toPlayer[r] # NoPlayer
      BY <3>2, <3>3, ServerAssumption
    <3>5. QED
      BY <3>1, <3>4
  <2>3. QED
    BY <2>1, <2>2
<1>4. \/ Handled(s, <<>>) \/ Handled(s, <<b>> \o req)
      \/ Handled(s, Append(<<b>> \o req, c)) \/ Handled(s, Append(<<b>> \o req, e))
  BY DEF ActionApplied
<1> HIDE DEF after, b, c, e, req
<1>5. CASE req = <<>>
  <2> DEFINE S == {b, c, e}
  <2>1. <<b>> \o req = <<b>>
    <3>1. <<b>> \in Seq(S)
      OBVIOUS
    <3>2. QED
      BY <1>5, <3>1, ConcatEmptySeq
  <2>2. Append(<<b>>, c) = <<b, c>> /\ Append(<<b>>, e) = <<b, e>>
    <3>1. b \in S /\ c \in S /\ e \in S
      OBVIOUS
    <3> HIDE DEF S
    <3>2. Append(<<b>>, c) = <<b, c>>
      BY <3>1, OneAppended
    <3>3. Append(<<b>>, e) = <<b, e>>
      BY <3>1, OneAppended
    <3>4. QED
      BY <3>2, <3>3
  <2>3. \/ Handled(s, <<>>) \/ Handled(s, <<b>>) \/ Handled(s, <<b, c>>) \/ Handled(s, <<b, e>>)
    BY <1>4, <2>1, <2>2
  <2>4. last'.sent \in {<<>>, <<b>>, <<b, c>>, <<b, e>>}
    BY <2>3 DEF Handled
  <2>5. ToKnown(s, <<>>) /\ ToKnown(s, <<b>>)
    BY <1>1 DEF ToKnown
  <2>6. ToKnown(s, <<b, c>>)
    BY <1>1 DEF ToKnown
  <2>7. ToKnown(s, <<b, e>>)
    BY <1>1 DEF ToKnown
  <2>8. ToKnown(s, last'.sent)
    BY <2>4, <2>5, <2>6, <2>7
  <2>9. AsksNobody(last'.sent)
    BY <1>2, <2>4 DEF AsksNobody
  <2>10. QED
    BY <2>8, <2>9 DEF AsksNobody
<1>6. ASSUME NEW m, req = <<m>>, IsRequestAfter(m, after),
             \A r \in m.to : toPlayer[r] # NoPlayer
      PROVE  /\ ToKnown(s, last'.sent)
             /\ \A j \in DOMAIN last'.sent : last'.sent[j].type = "action_request" =>
                  j = 2 /\ IsRequestAfter(last'.sent[j], after)
  <2>1. last'.sent \in {<<>>, <<b, m>>, <<b, m, c>>, <<b, m, e>>}
    <3> DEFINE S == {b, m, c, e}
    <3>1. b \in S /\ m \in S /\ c \in S /\ e \in S
      OBVIOUS
    <3> HIDE DEF S
    <3>2. <<b>> \o req = <<b, m>>
      BY <1>6, <3>1, OneAppended
    <3>3. Append(<<b, m>>, c) = <<b, m, c>>
      BY <3>1, TwoAppended
    <3>4. Append(<<b, m>>, e) = <<b, m, e>>
      BY <3>1, TwoAppended
    <3>5. \/ Handled(s, <<>>) \/ Handled(s, <<b, m>>)
          \/ Handled(s, <<b, m, c>>) \/ Handled(s, <<b, m, e>>)
      BY <1>4, <3>2, <3>3, <3>4
    <3>6. QED
      BY <3>5 DEF Handled
  <2>2. ToKnown(s, last'.sent)
    <3>1. \A r \in b.to \cup c.to \cup e.to \cup m.to : r = s \/ toPlayer[r] # NoPlayer
      BY <1>1, <1>6
    <3>2. ToKnown(s, <<>>) /\ ToKnown(s, <<b, m>>)
      BY <3>1 DEF ToKnown
    <3>3. ToKnown(s, <<b, m, c>>)
      BY <3>1 DEF ToKnown
    <3>4. ToKnown(s, <<b, m, e>>)
      BY <3>1 DEF ToKnown
    <3>5. QED
      BY <2>1, <3>2, <3>3, <3>4
  <2>3. \A j \in DOMAIN last'.sent :
          last'.sent[j].type = "action_request" => j = 2 /\ last'.sent[j] = m
    BY <1>2, <2>1
  <2>4. QED
    BY <1>6, <2>2, <2>3
<1>7. QED
  BY <1>3, <1>5, <1>6 DEF after

-----------------------------------------------------------------------------
(* Part 3: delivery                                                          *)

\* Three sequences of at most one element each, one after another
Pieces(q, x, y, z) ==
  \A i \in DOMAIN q :
    \/ i = 1 /\ Len(x) = 1 /\ q[i] = x[1]
    \/ i = Len(x) + 1 /\ Len(y) = 1 /\ q[i] = y[1]
    \/ i = Len(x) + Len(y) + 1 /\ Len(z) = 1 /\ q[i] = z[1]

LEMMA ThreePieces ==
  ASSUME NEW S, NEW x \in Seq(S), NEW y \in Seq(S), NEW z \in Seq(S),
         Len(x) \in {0, 1}, Len(y) \in {0, 1}, Len(z) \in {0, 1}
  PROVE  x \o y \o z \in Seq(S) /\ Pieces(x \o y \o z, x, y, z)
<1>0. /\ Len(x) \in Int /\ Len(y) \in Int /\ Len(z) \in Int
      /\ 0 <= Len(x) /\ 0 <= Len(y) /\ Len(y) <= 1 /\ Len(z) <= 1
  <2>1. ASSUME NEW l, l \in {0, 1} PROVE l \in Int /\ 0 <= l /\ l <= 1
    BY <2>1
  <2>2. QED
    BY <2>1
<1> DEFINE xy == x \o y
<1>1. /\ xy \in Seq(S) /\ Len(xy) = Len(x) + Len(y)
      /\ \A i \in 1..Len(x) + Len(y) : xy[i] = IF i <= Len(x) THEN x[i] ELSE y[i - Len(x)]
  BY ConcatProperties
<1> HIDE DEF xy
<1> DEFINE q == xy \o z
<1>2. /\ q \in Seq(S) /\ Len(q) = Len(xy) + Len(z)
      /\ \A i \in 1..Len(xy) + Len(z) : q[i] = IF i <= Len(xy) THEN xy[i] ELSE z[i - Len(xy)]
  <2>1. xy \in Seq(S) /\ z \in Seq(S)
    BY <1>1
  <2>2. QED
    BY <2>1, ConcatProperties, Zenon
<1> HIDE DEF q
<1>3. DOMAIN q = 1..Len(x) + Len(y) + Len(z)
  BY <1>1, <1>2
<1>4. \A i \in DOMAIN q :
        \/ i = 1 /\ Len(x) = 1 /\ q[i] = x[1]
        \/ i = Len(x) + 1 /\ Len(y) = 1 /\ q[i] = y[1]
        \/ i = Len(x) + Len(y) + 1 /\ Len(z) = 1 /\ q[i] = z[1]
  <2> SUFFICES ASSUME NEW i \in DOMAIN q
               PROVE  \/ i = 1 /\ Len(x) = 1 /\ q[i] = x[1]
                      \/ i = Len(x) + 1 /\ Len(y) = 1 /\ q[i] = y[1]
                      \/ i = Len(x) + Len(y) + 1 /\ Len(z) = 1 /\ q[i] = z[1]
    OBVIOUS
  <2>1. i \in Int /\ 1 <= i /\ i <= Len(x) + Len(y) + Len(z)
    BY <1>3
  <2>2. CASE i <= Len(x)
    <3>1. q[i] = xy[i] /\ xy[i] = x[i]
      BY <1>1, <1>2, <2>1, <2>2
    <3>2. QED
      BY <2>1, <2>2, <3>1
  <2>3. CASE Len(x) < i /\ i <= Len(x) + Len(y)
    <3>1. q[i] = xy[i] /\ xy[i] = y[i - Len(x)]
      BY <1>1, <1>2, <2>1, <2>3
    <3>2. i - Len(x) = 1 /\ Len(y) = 1 /\ i = Len(x) + 1
      BY <1>0, <2>1, <2>3
    <3>3. QED
      BY <3>1, <3>2
  <2>4. CASE Len(x) + Len(y) < i
    <3>1. q[i] = z[i - (Len(x) + Len(y))]
      BY <1>1, <1>2, <2>1, <2>4
    <3>2. i - (Len(x) + Len(y)) = 1 /\ Len(z) = 1 /\ i = Len(x) + Len(y) + 1
      BY <1>0, <2>1, <2>4
    <3>3. QED
      BY <3>1, <3>2
  <2>5. QED
    BY <2>1, <2>2, <2>3, <2>4
<1>5. QED
  BY <1>2, <1>4 DEF q, xy, Pieces

\* The three pieces one after another are messages to s, and a kind that can only
\* be the second message comes once.
LEMMA AddressedFacts ==
  ASSUME NEW s, NEW messages \in Seq(Messages)
  PROVE  /\ Addressed(s, messages) \in Seq(Messages)
         /\ \A i \in DOMAIN Addressed(s, messages) :
              \E j \in DOMAIN messages :
                Addressed(s, messages)[i] = messages[j] /\ s \in messages[j].to
         /\ \A i, k \in DOMAIN Addressed(s, messages) :
              (\A j \in DOMAIN messages :
                 messages[j].type = "action_request" => j = 2)
              /\ Addressed(s, messages)[i].type = "action_request"
              /\ Addressed(s, messages)[k].type = "action_request" => i = k
<1> DEFINE x == Piece(s, messages, 1)
           y == Piece(s, messages, 2)
           z == Piece(s, messages, 3)
           q == Addressed(s, messages)
           Holds(u, j) == j \in DOMAIN messages /\ s \in messages[j].to /\ u = messages[j]
<1>1. ASSUME NEW j \in 1..3
      PROVE  LET u == Piece(s, messages, j)
             IN /\ u \in Seq(Messages) /\ Len(u) \in {0, 1}
                /\ Len(u) = 1 => Holds(u[1], j)
  BY DEF Piece
<1>2. /\ x \in Seq(Messages) /\ Len(x) \in {0, 1} /\ (Len(x) = 1 => Holds(x[1], 1))
      /\ y \in Seq(Messages) /\ Len(y) \in {0, 1} /\ (Len(y) = 1 => Holds(y[1], 2))
      /\ z \in Seq(Messages) /\ Len(z) \in {0, 1} /\ (Len(z) = 1 => Holds(z[1], 3))
  BY <1>1
<1>3. q = x \o y \o z
  BY DEF Addressed
<1> HIDE DEF x, y, z, q
<1>4. q \in Seq(Messages) /\ Pieces(q, x, y, z)
  BY <1>2, <1>3, ThreePieces
<1>5. \A i \in DOMAIN q :
        \E j \in 1..3 : Holds(q[i], j) /\ (j = 2 => i = Len(x) + 1)
  BY <1>2, <1>4 DEF Pieces
<1>6. QED
  BY <1>4, <1>5 DEF q

\* What the bots' inboxes are after a handler
LEMMA Delivered ==
  ASSUME BotTypes, Answered', Deliver, NEW s \in Bots
  PROVE  /\ inbox' \in [Bots -> Seq(Messages)]
         /\ \/ inbox'[s] = inbox[s]
            \/ /\ bot[s].phase # "gone"
               /\ inbox'[s] = inbox[s] \o Addressed(s, last'.sent)
         /\ inbox[s] # <<>> => inbox'[s] # <<>> /\ Head(inbox'[s]) = Head(inbox[s])
         /\ (\A j \in DOMAIN last'.sent : s \notin last'.sent[j].to) => inbox'[s] = inbox[s]
<1> DEFINE q == Addressed(s, last'.sent)
<1>1. last'.sent \in Seq(Messages)
  BY DEF Answered
<1>2. \A r \in Bots : inbox[r] \in Seq(Messages) /\ Addressed(r, last'.sent) \in Seq(Messages)
  BY <1>1, AddressedFacts DEF BotTypes
<1>3. inbox' = [r \in Bots |->
        IF bot[r].phase = "gone" \/ r \in broken THEN inbox[r]
        ELSE inbox[r] \o Addressed(r, last'.sent)]
  BY DEF Deliver
<1>4. inbox' \in [Bots -> Seq(Messages)]
  <2>1. \A r \in Bots : inbox[r] \o Addressed(r, last'.sent) \in Seq(Messages)
    BY <1>2, ConcatProperties
  <2>2. QED
    BY <1>2, <1>3, <2>1
<1>5. \/ inbox'[s] = inbox[s]
      \/ bot[s].phase # "gone" /\ inbox'[s] = inbox[s] \o q
  BY <1>3
<1>6. ASSUME inbox[s] # <<>>
      PROVE  inbox'[s] # <<>> /\ Head(inbox'[s]) = Head(inbox[s])
  <2>1. inbox[s] \in Seq(Messages) /\ q \in Seq(Messages)
    BY <1>2
  <2> HIDE DEF q
  <2>2. inbox[s] \o q # <<>> /\ Head(inbox[s] \o q) = Head(inbox[s])
    BY <1>6, <2>1
  <2>3. QED
    BY <1>5, <1>6, <2>2
<1>7. ASSUME \A j \in DOMAIN last'.sent : s \notin last'.sent[j].to
      PROVE  inbox'[s] = inbox[s]
  <2>1. q = <<>>
    BY <1>7 DEF Addressed, Piece
  <2>2. inbox[s] \o <<>> = inbox[s]
    BY <1>2, ConcatEmptySeq
  <2>3. QED
    BY <1>5, <2>1, <2>2
<1>8. QED
  BY <1>4, <1>5, <1>6, <1>7

\* send: the count of what a session has not written keeps its bound, and that of a
\* session to which nothing is sent does not rise.
LEMMA Queued ==
  ASSUME ChannelTypes, Answered', Deliver
  PROVE  /\ ChannelTypes'
         /\ \A s \in Sessions :
              unwritten[s] = 0 /\ (\A j \in DOMAIN last'.sent : s \notin last'.sent[j].to)
                => unwritten'[s] = 0
<1> DEFINE q(s) == Addressed(s, last'.sent)
<1>1. last'.sent \in Seq(Messages)
  BY DEF Answered
<1>2. /\ unwritten' = [s \in Sessions |->
           IF s \in broken THEN unwritten[s] ELSE AtMost(Bound(s), Left(s) + Len(q(s)))]
      /\ broken' = broken /\ blocked' = blocked
  BY DEF Deliver
<1>3. ASSUME NEW s \in Sessions
      PROVE  /\ unwritten'[s] \in Nat /\ unwritten'[s] <= Bound(s)
             /\ unwritten[s] = 0 /\ (\A j \in DOMAIN last'.sent : s \notin last'.sent[j].to)
                  => unwritten'[s] = 0
  <2>1. Len(q(s)) \in Nat
    <3>1. q(s) \in Seq(Messages)
      BY <1>1, AddressedFacts
    <3> HIDE DEF q
    <3>2. QED
      BY <3>1, LenProperties
  <2>2. Bound(s) \in Nat /\ unwritten[s] \in Nat /\ unwritten[s] <= Bound(s)
    BY BotsAssumption DEF Bound, ChannelTypes
  <2>3. Left(s) \in {0, unwritten[s]}
    BY DEF Left
  <2>4. (\A j \in DOMAIN last'.sent : s \notin last'.sent[j].to) => Len(q(s)) = 0
    BY DEF Addressed, Piece
  <2> HIDE DEF q
  <2>5. unwritten'[s] \in {unwritten[s], Left(s) + Len(q(s)), Bound(s)}
        /\ (unwritten'[s] = unwritten[s] \/ unwritten'[s] <= Bound(s))
        /\ (Left(s) + Len(q(s)) = 0 => unwritten'[s] \in {unwritten[s], 0})
    <3>1. CASE s \in broken
      BY <1>2, <3>1
    <3>2. CASE s \notin broken
      <4>1. unwritten'[s] = AtMost(Bound(s), Left(s) + Len(q(s)))
        BY <1>2, <3>2
      <4>2. Left(s) + Len(q(s)) \in Nat
        BY <2>1, <2>2, <2>3
      <4>3. QED
        BY <2>2, <4>1, <4>2 DEF AtMost
    <3>3. QED
      BY <3>1, <3>2
  <2>6. QED
    BY <2>1, <2>2, <2>3, <2>4, <2>5
<1>4. unwritten' \in [Sessions -> Nat]
  BY <1>2, <1>3
<1>5. \A s \in Sessions : Bound(s)' = Bound(s)
  BY DEF Bound
<1>6. QED
  BY <1>2, <1>3, <1>4, <1>5 DEF ChannelTypes

-----------------------------------------------------------------------------
(* Part 4: what a bot reads and writes                                       *)

\* A step in which the server handles something and its answers are delivered:
\* no bot does anything, and nobody but the sender of a message loses it.
Relayed ==
  /\ bot' = bot /\ Deliver /\ losses' \in 0..MaxLosses
  /\ \E from : /\ ToKnown(from, last'.sent)
               /\ from \in Bots =>
                    outbox[from] # <<>> /\ outbox' = [outbox EXCEPT ![from] = Tail(@)]
               /\ from \notin Bots => outbox' = outbox
  /\ \A s \in Bots : toPlayer'[s] \in {toPlayer[s], NoPlayer}

\* A step of none of them, but perhaps of the write path.
Apart ==
  /\ UNCHANGED <<bots, toPlayer, last>> /\ losses' \in 0..MaxLosses
  /\ UNCHANGED <<unwritten, broken, blocked>> \/ Writes

LEMMA EveryStep ==
  ASSUME Server, BotTypes, [BNext]_allvars
  PROVE  \/ \E s \in Bots : BotStep(s)
         \/ \E s \in Bots, p \in Players : ConnectBot(s, p)
         \/ Apart
         \/ Relayed
<1>0. losses \in 0..MaxLosses /\ MaxLosses \in Nat /\ NoSession \notin Bots /\ Bots \subseteq Sessions
      /\ toPlayer \in [Sessions -> Players \cup {NoPlayer}]
  BY BotsAssumption, SessionsAssumption DEF BotTypes, Server, Typed
<1>1. ASSUME NEW s \in Bots, Serve(s)
      PROVE  Relayed
  <2>1. /\ bot' = bot /\ Deliver /\ losses' = losses
        /\ outbox[s] # <<>> /\ outbox' = [outbox EXCEPT ![s] = Tail(@)]
    BY <1>1 DEF Serve, ServeJoin, ServeAction, ServeTopUp, Incoming
  <2>2. \/ TakeSeat(s) \/ JoinAnswered(s) \/ ActionRefused(s) \/ TopUp(s)
        \/ /\ Head(outbox[s]).type = "action"
           /\ ActionApplied(s, Head(outbox[s]).action, Head(outbox[s]).amount)
    BY <1>1 DEF Serve, ServeJoin, ServeAction, ServeTopUp
  <2>3. toPlayer' = toPlayer
    BY <2>2 DEF TakeSeat, JoinAnswered, ActionRefused, TopUp, ActionApplied
  <2>4. ToKnown(s, last'.sent)
    <3>1. CASE TakeSeat(s) \/ JoinAnswered(s) \/ ActionRefused(s) \/ TopUp(s)
      BY <1>0, <3>1, HandlersAskNobody DEF Sends
    <3>2. CASE /\ Head(outbox[s]).type = "action"
               /\ ActionApplied(s, Head(outbox[s]).action, Head(outbox[s]).amount)
      <4>1. Head(outbox[s]).amount \in Int
        BY <2>1, <3>2, HeadOfOutbox
      <4>2. QED
        BY <1>0, <3>2, <4>1, ActionSends
    <3>3. QED
      BY <2>2, <3>1, <3>2
  <2>5. QED
    BY <1>0, <2>1, <2>3, <2>4 DEF Relayed
<1>2. ASSUME NEW s \in Sessions \ Bots, Stranger(s)
      PROVE  Relayed
  <2>1. bot' = bot /\ Deliver /\ outbox' = outbox /\ losses' = losses
    BY <1>2 DEF Stranger
  <2>2. ToKnown(s, last'.sent)
    <3>1. CASE \E given \in Players : Rejoin(s, given)
      BY <3>1, ComersAskNobody DEF Sends
    <3>2. CASE TakeSeat(s) \/ JoinAnswered(s) \/ ActionRefused(s) \/ TopUp(s) \/ Ping(s)
      BY <3>2, HandlersAskNobody DEF Sends
    <3>3. CASE \E a \in {"fold", "call", "raise"}, n \in Amounts : ActionApplied(s, a, n)
      BY <3>3, ServerAssumption, ActionSends
    <3>4. QED
      BY <1>2, <3>1, <3>2, <3>3 DEF Stranger, AnyMessage
  <2>3. \A r \in Bots : toPlayer'[r] = toPlayer[r]
    BY <1>0, <1>2 DEF Stranger, AnyMessage, Rejoin, TakeSeat, JoinAnswered, ActionRefused,
       ActionApplied, TopUp, Ping
  <2>4. QED
    BY <1>0, <2>1, <2>2, <2>3 DEF Relayed
<1>3. ASSUME NEW s \in Sessions \ Bots, NEW p \in Players, ConnectStranger(s, p)
      PROVE  Relayed
  <2>1. bot' = bot /\ Deliver /\ outbox' = outbox /\ losses' = losses
    BY <1>3 DEF ConnectStranger
  <2>2. ToKnown(s, last'.sent)
    BY <1>3, ComersAskNobody DEF ConnectStranger, Sends
  <2>3. \A r \in Bots : toPlayer'[r] = toPlayer[r]
    BY <1>0, <1>3 DEF ConnectStranger, Welcome
  <2>4. QED
    BY <1>0, <2>1, <2>2, <2>3 DEF Relayed
<1>4. ASSUME NEW s \in Sessions, SocketLost(s)
      PROVE  Relayed
  <2>1. bot' = bot /\ Deliver /\ outbox' = outbox /\ losses' \in 0..MaxLosses
    BY <1>0, <1>4 DEF SocketLost
  <2>2. ToKnown(NoSession, last'.sent)
    BY <1>4, LossAsksNobody DEF SocketLost, Sends
  <2>3. \A r \in Bots : toPlayer'[r] \in {toPlayer[r], NoPlayer}
    BY <1>0, <1>4 DEF SocketLost, ReadFailed, PingFailed, Lost, SessionRemoved
  <2>4. QED
    BY <1>0, <2>1, <2>2, <2>3 DEF Relayed
<1>5. ASSUME NEW p \in Players, TimerHandled(p)
      PROVE  Relayed
  <2>1. bot' = bot /\ Deliver /\ outbox' = outbox /\ losses' = losses /\ toPlayer' = toPlayer
    BY <1>5 DEF TimerHandled, GraceTimerExpired, RemovalTimerExpired
  <2>2. ToKnown(NoSession, last'.sent)
    BY <1>5, TimersAskNobody DEF TimerHandled, Sends
  <2>3. QED
    BY <1>0, <2>1, <2>2 DEF Relayed
<1>6. CASE UNCHANGED allvars \/ \E p \in Players : TimerExpires(p)
  BY <1>0, <1>6 DEF allvars, vars, channels, TimerExpires, Expire, Apart
<1>7. CASE Writes
  <2>1. losses' \in 0..MaxLosses
    BY <1>0, <1>7 DEF Writes, WriteDone, WriteFails
  <2>2. UNCHANGED <<bots, toPlayer, last>>
    BY <1>7 DEF Writes, WriteDone, WriteFails, vars
  <2>3. QED
    BY <1>7, <2>1, <2>2 DEF Apart
<1>8. QED
  BY <1>1, <1>2, <1>3, <1>4, <1>5, <1>6, <1>7 DEF BNext, Writes

\* Client::connect: a bot that has not connected has no id, nothing to read, and
\* nothing on its way; the first thing a connected bot reads is its welcome.
Mailboxes ==
  \A s \in Bots :
    /\ bot[s].phase = "off" =>
         /\ toPlayer[s] = NoPlayer /\ inbox[s] = <<>> /\ outbox[s] = <<>>
         /\ unwritten[s] = 0 /\ s \notin broken
    /\ bot[s].phase = "welcoming" => inbox[s] # <<>> /\ Head(inbox[s]).type = "welcome"

BotServer == Server /\ BotTypes /\ ChannelTypes /\ Len(last.sent) <= 3 /\ Mailboxes

LEMMA RelayedKeeps ==
  ASSUME BotServer, Server', Relayed
  PROVE  BotServer'
<1>1. PICK from : /\ ToKnown(from, last'.sent)
                  /\ from \in Bots =>
                       outbox[from] # <<>> /\ outbox' = [outbox EXCEPT ![from] = Tail(@)]
                  /\ from \notin Bots => outbox' = outbox
  BY DEF Relayed
<1>2. inbox' \in [Bots -> Seq(Messages)]
  <2>1. CASE Bots = {}
    BY <2>1 DEF Relayed, Deliver
  <2>2. CASE \E s \in Bots : TRUE
    BY <2>2, Delivered DEF BotServer, Server, Relayed
  <2>3. QED
    BY <2>1, <2>2
<1>3. BotTypes'
  <2> DEFINE Writings == Answers \cup {BC!Join, BC!TopUpRequest}
  <2>1. outbox' \in [Bots -> Seq(Writings)]
    <3>1. outbox \in [Bots -> Seq(Writings)]
      BY DEF BotServer, BotTypes
    <3> HIDE DEF Writings
    <3>2. from \in Bots => Tail(outbox[from]) \in Seq(Writings)
      BY <1>1, <3>1, HeadTailProperties
    <3>3. QED
      BY <1>1, <3>1, <3>2
  <2>2. QED
    BY <1>2, <2>1 DEF BotServer, BotTypes, Relayed
<1>4. Len(last'.sent) <= 3
  BY <1>1 DEF ToKnown
<1>0. /\ ChannelTypes' /\ broken' = broken
      /\ \A s \in Bots :
           unwritten[s] = 0 /\ (\A j \in DOMAIN last'.sent : s \notin last'.sent[j].to)
             => unwritten'[s] = 0
  BY Queued, BotsAssumption DEF BotServer, Server, Relayed, Deliver
<1>5. Mailboxes'
  <2> SUFFICES ASSUME NEW s \in Bots
               PROVE  /\ bot'[s].phase = "off" =>
                           /\ toPlayer'[s] = NoPlayer /\ inbox'[s] = <<>> /\ outbox'[s] = <<>>
                           /\ unwritten'[s] = 0 /\ s \notin broken'
                      /\ bot'[s].phase = "welcoming" =>
                           inbox'[s] # <<>> /\ Head(inbox'[s]).type = "welcome"
    BY DEF Mailboxes
  <2>1. /\ inbox[s] # <<>> => inbox'[s] # <<>> /\ Head(inbox'[s]) = Head(inbox[s])
        /\ (\A j \in DOMAIN last'.sent : s \notin last'.sent[j].to) => inbox'[s] = inbox[s]
    BY Delivered DEF BotServer, Server, Relayed
  <2>2. bot' = bot /\ toPlayer'[s] \in {toPlayer[s], NoPlayer}
    BY DEF Relayed
  <2>3. CASE bot[s].phase = "off"
    <3>1. /\ toPlayer[s] = NoPlayer /\ inbox[s] = <<>> /\ outbox[s] = <<>>
          /\ unwritten[s] = 0 /\ s \notin broken
      BY <2>3 DEF BotServer, Mailboxes
    <3>2. from # s
      BY <1>1, <3>1
    <3>3. outbox'[s] = <<>>
      BY <1>1, <3>1, <3>2 DEF BotServer, BotTypes
    <3>4. \A j \in DOMAIN last'.sent : s \notin last'.sent[j].to
      BY <1>1, <3>1, <3>2 DEF ToKnown
    <3>5. unwritten'[s] = 0 /\ s \notin broken'
      BY <1>0, <3>1, <3>4
    <3>6. QED
      BY <2>1, <2>2, <2>3, <3>1, <3>3, <3>4, <3>5
  <2>4. CASE bot[s].phase # "off"
    BY <2>1, <2>2, <2>4 DEF BotServer, Mailboxes
  <2>5. QED
    BY <2>3, <2>4
<1>6. QED
  BY <1>0, <1>3, <1>4, <1>5 DEF BotServer

\* Client::run keeps what a bot holds well-formed; the welcome it reads gives it
\* an id.
LEMMA BotStepKeeps ==
  ASSUME BotServer, Server', NEW s \in Bots, BotStep(s)
  PROVE  BotServer'
<1> DEFINE Writings == Answers \cup {BC!Join, BC!TopUpRequest}
<1>1. /\ bot \in [Bots -> [phase: BC!Phases, id: Players \cup {NoPlayer}, answer: Answers]]
      /\ inbox \in [Bots -> Seq(Messages)]
      /\ outbox \in [Bots -> Seq(Writings)]
      /\ losses' \in 0..MaxLosses /\ toPlayer' = toPlayer /\ last' = last
      /\ unwritten' = unwritten /\ broken' = broken /\ blocked' = blocked
  BY DEF BotServer, BotTypes, BotStep, vars, channels
<1>2. BC!Step(s)
  BY DEF BotStep
<1>3. inbox' = inbox \/ (inbox[s] # <<>> /\ inbox' = [inbox EXCEPT ![s] = Tail(@)])
  BY <1>2 DEF BC!Step, BC!ReadWelcome, BC!ReadJoinAck, BC!ReadRequest, BC!Answer,
     BC!ReadHandCompleted, BC!ReadError, BC!ReadNotice, BC!Waiting, BC!Read
<1>4. \/ outbox' = outbox
      \/ \E a \in Writings : outbox' = [outbox EXCEPT ![s] = Append(@, a)]
  <2>1. bot[s].answer \in Writings /\ BC!Join \in Writings /\ BC!TopUpRequest \in Writings
    BY <1>1
  <2>2. \/ outbox' = outbox
        \/ outbox' = [outbox EXCEPT ![s] = Append(@, bot[s].answer)]
        \/ outbox' = [outbox EXCEPT ![s] = Append(@, BC!Join)]
        \/ outbox' = [outbox EXCEPT ![s] = Append(@, BC!TopUpRequest)]
    BY <1>2 DEF BC!Step, BC!ReadWelcome, BC!ReadJoinAck, BC!ReadRequest, BC!Answer,
       BC!ReadHandCompleted, BC!ReadError, BC!ReadNotice, BC!Write
  <2>3. QED
    BY <2>1, <2>2
<1>5. /\ bot' \in [Bots -> [phase: BC!Phases, id: Players \cup {NoPlayer}, answer: Answers]]
      /\ \A r \in Bots \ {s} : bot'[r] = bot[r]
  <2>1. CASE BC!ReadWelcome(s)
    <3>1. inbox[s] # <<>> /\ Head(inbox[s]).type = "welcome"
      BY <2>1 DEF BotServer, Mailboxes, BC!ReadWelcome, BC!Waiting
    <3>2. Head(inbox[s]) \in Messages
      BY <1>1, <3>1
    <3>3. Head(inbox[s]).player \in Players
      BY <3>1, <3>2 DEF Messages
    <3>4. bot' = [bot EXCEPT ![s].phase = "joining", ![s].id = Head(inbox[s]).player]
      BY <2>1 DEF BC!ReadWelcome
    <3>5. QED
      BY <1>1, <3>3, <3>4 DEF BC!Phases
  <2>2. CASE BC!ReadRequest(s)
    <3>1. CASE bot' = [bot EXCEPT ![s].phase = "gone"]
      BY <1>1, <3>1 DEF BC!Phases
    <3>2. CASE \E a \in BC!Choices(Head(inbox[s])) :
                 bot' = [bot EXCEPT ![s].phase = "thinking", ![s].answer = a]
      <4>1. Head(inbox[s]) \in Messages /\ Head(inbox[s]).type = "action_request"
        BY <1>1, <2>2 DEF BC!ReadRequest, BC!Waiting
      <4>2. BC!Choices(Head(inbox[s])) \subseteq Answers
        BY <4>1 DEF BC!Choices, BC!Action, Answers, Messages
      <4>3. PICK a \in Answers : bot' = [bot EXCEPT ![s].phase = "thinking", ![s].answer = a]
        BY <3>2, <4>2
      <4>4. QED
        BY <1>1, <4>3 DEF BC!Phases
    <3>3. QED
      BY <2>2, <3>1, <3>2 DEF BC!ReadRequest, BC!GoesTo
  <2>3. CASE BC!Answer(s)
    <3>1. BC!NoAnswer \in Answers
      BY DEF Answers
    <3>2. bot' = [bot EXCEPT ![s].phase = "playing", ![s].answer = BC!NoAnswer]
      BY <2>3 DEF BC!Answer
    <3>3. QED
      BY <1>1, <3>1, <3>2 DEF BC!Phases
  <2>4. CASE BC!ReadJoinAck(s) \/ BC!ReadError(s)
    <3>1. \E phase \in {"playing", "gone"} : bot' = [bot EXCEPT ![s].phase = phase]
      BY <2>4 DEF BC!ReadJoinAck, BC!ReadError, BC!GoesTo
    <3>2. QED
      BY <1>1, <3>1 DEF BC!Phases
  <2>5. CASE BC!ReadHandCompleted(s) \/ BC!ReadNotice(s)
    BY <1>1, <2>5 DEF BC!ReadHandCompleted, BC!ReadNotice
  <2>6. QED
    BY <1>2, <2>1, <2>2, <2>3, <2>4, <2>5 DEF BC!Step
<1>6. BotTypes'
  <2>1. bot' \in [Bots -> [phase: BC!Phases, id: Players \cup {NoPlayer}, answer: Answers]]
    BY <1>5
  <2>2. inbox' \in [Bots -> Seq(Messages)]
    <3>1. inbox[s] # <<>> => Tail(inbox[s]) \in Seq(Messages)
      BY <1>1, HeadTailProperties
    <3>2. QED
      BY <1>1, <1>3, <3>1
  <2>3. outbox' \in [Bots -> Seq(Writings)]
    <3> HIDE DEF Writings
    <3>1. \A a \in Writings : Append(outbox[s], a) \in Seq(Writings)
      BY <1>1, AppendProperties
    <3>2. QED
      BY <1>1, <1>4, <3>1
  <2>4. QED
    BY <1>1, <2>1, <2>2, <2>3 DEF BotTypes
<1>7. Mailboxes'
  <2>1. bot[s].phase # "off" /\ bot'[s].phase \notin {"off", "welcoming"}
    BY <1>2, <1>1 DEF BC!Step, BC!ReadWelcome, BC!ReadJoinAck, BC!ReadRequest, BC!Answer,
       BC!ReadHandCompleted, BC!ReadError, BC!ReadNotice, BC!Waiting, BC!GoesTo
  <2>2. \A r \in Bots \ {s} : bot'[r] = bot[r] /\ inbox'[r] = inbox[r] /\ outbox'[r] = outbox[r]
    BY <1>1, <1>3, <1>4, <1>5
  <2>3. QED
    BY <1>1, <2>1, <2>2 DEF BotServer, Mailboxes
<1>8. ChannelTypes'
  BY <1>1 DEF BotServer, ChannelTypes, Bound
<1>9. QED
  BY <1>1, <1>6, <1>7, <1>8 DEF BotServer

\* sendWelcome to a bot: the first message of an empty inbox
LEMMA ConnectBotKeeps ==
  ASSUME BotServer, Server', NEW s \in Bots, NEW p \in Players, ConnectBot(s, p)
  PROVE  BotServer'
<1> DEFINE w == [type |-> "welcome", to |-> {s}, player |-> p]
<1>1. /\ bot[s].phase = "off" /\ bot' = [bot EXCEPT ![s].phase = "welcoming"]
      /\ Deliver /\ outbox' = outbox /\ losses' = losses
      /\ toPlayer' = [toPlayer EXCEPT ![s] = p] /\ last' = [from |-> s, sent |-> <<w>>]
  BY DEF ConnectBot, Welcome, Handled, BC!Connect, BC!GoesTo
<1>2. inbox' \in [Bots -> Seq(Messages)] /\ s \in Sessions
  BY <1>1, Delivered, BotsAssumption DEF BotServer, Server
<1>3. BotTypes'
  BY <1>1, <1>2 DEF BotServer, BotTypes, BC!Phases
<1>4. inbox'[s] = <<w>>
  <2>1. inbox[s] = <<>>
    BY <1>1 DEF BotServer, Mailboxes
  <2>2. Piece(s, last'.sent, 1) = <<w>> /\ Piece(s, last'.sent, 2) = <<>>
        /\ Piece(s, last'.sent, 3) = <<>>
    <3>1. last'.sent = <<w>> /\ s \in w.to
      BY <1>1
    <3> HIDE DEF w
    <3>2. DOMAIN <<w>> = {1} /\ <<w>>[1] = w
      OBVIOUS
    <3>3. QED
      BY <3>1, <3>2 DEF Piece
  <2>3. Addressed(s, last'.sent) = <<w>> \o <<>> \o <<>>
    BY <2>2 DEF Addressed
  <2>4. <<w>> \in Seq({w})
    OBVIOUS
  <2>5. Addressed(s, last'.sent) = <<w>> /\ <<>> \o <<w>> = <<w>>
    BY <2>3, <2>4, ConcatEmptySeq
  <2>6. inbox'[s] = inbox[s] \o Addressed(s, last'.sent)
    BY <1>1 DEF Deliver, BotServer, Mailboxes
  <2>7. QED
    BY <2>1, <2>5, <2>6
<1>0. ChannelTypes' /\ broken' = broken
  BY <1>1, Queued DEF BotServer, Server, Deliver
<1>5. \A r \in Bots \ {s} : /\ inbox'[r] = inbox[r] /\ bot'[r] = bot[r]
                            /\ toPlayer'[r] = toPlayer[r]
                            /\ unwritten[r] = 0 => unwritten'[r] = 0
  <2> SUFFICES ASSUME NEW r \in Bots \ {s}
               PROVE  /\ inbox'[r] = inbox[r] /\ bot'[r] = bot[r]
                      /\ toPlayer'[r] = toPlayer[r]
                      /\ unwritten[r] = 0 => unwritten'[r] = 0
    OBVIOUS
  <2>1. \A j \in DOMAIN last'.sent : r \notin last'.sent[j].to
    BY <1>1
  <2>2. inbox'[r] = inbox[r]
    BY <1>1, <2>1, Delivered DEF BotServer, Server
  <2>3. unwritten[r] = 0 => unwritten'[r] = 0
    BY <1>1, <2>1, Queued, BotsAssumption DEF BotServer, Server
  <2>4. QED
    BY <1>1, <2>2, <2>3, BotsAssumption DEF BotServer, BotTypes, Server, Typed
<1>6. Mailboxes'
  <2>1. bot'[s].phase = "welcoming" /\ inbox'[s] # <<>> /\ Head(inbox'[s]).type = "welcome"
    BY <1>1, <1>4 DEF BotServer, BotTypes
  <2>2. \A r \in Bots \ {s} : outbox'[r] = outbox[r] /\ (r \notin broken => r \notin broken')
    BY <1>0, <1>1
  <2>3. ASSUME NEW r \in Bots, r # s
        PROVE  /\ bot'[r].phase = "off" =>
                    /\ toPlayer'[r] = NoPlayer /\ inbox'[r] = <<>> /\ outbox'[r] = <<>>
                    /\ unwritten'[r] = 0 /\ r \notin broken'
               /\ bot'[r].phase = "welcoming" =>
                    inbox'[r] # <<>> /\ Head(inbox'[r]).type = "welcome"
    BY <1>5, <2>2, <2>3 DEF BotServer, Mailboxes
  <2>4. QED
    BY <2>1, <2>3 DEF Mailboxes
<1>7. Len(last'.sent) <= 3
  BY <1>1
<1>8. QED
  BY <1>0, <1>3, <1>6, <1>7 DEF BotServer

LEMMA InitBotServer == BInit => BotServer
<1> SUFFICES ASSUME BInit PROVE BotServer
  OBVIOUS
<1>1. Server
  BY InitServer DEF BInit
<1>2. BotTypes
  BY BotsAssumption DEF BInit, BC!Init, BotTypes, BC!Phases, Answers
<1>3. Len(last.sent) <= 3 /\ Mailboxes
  BY BotsAssumption DEF BInit, Init, BC!Init, Mailboxes
<1>4. ChannelTypes
  <2>1. \A s \in Sessions : Bound(s) \in Nat /\ 0 <= Bound(s)
    BY BotsAssumption DEF Bound
  <2>2. QED
    BY <2>1 DEF BInit, ChannelTypes
<1>5. QED
  BY <1>1, <1>2, <1>3, <1>4 DEF BotServer

\* What is written had been sent, so a bot that has not connected is no matter.
LEMMA ApartKeeps ==
  ASSUME BotServer, Server', Apart
  PROVE  BotServer'
<1>1. /\ bot' = bot /\ inbox' = inbox /\ outbox' = outbox
      /\ toPlayer' = toPlayer /\ last' = last /\ losses' \in 0..MaxLosses
  BY DEF Apart, bots
<1>2. BotTypes'
  BY <1>1 DEF BotServer, BotTypes
<1>3. /\ ChannelTypes'
      /\ \A s \in Bots : unwritten[s] = 0 /\ s \notin broken => unwritten'[s] = 0 /\ s \notin broken'
  <2>1. /\ unwritten \in [Sessions -> Nat] /\ \A s \in Sessions : unwritten[s] <= Bound(s)
        /\ broken \subseteq Bots /\ blocked \in BOOLEAN /\ Bots \subseteq Sessions
        /\ \A s \in Sessions : Bound(s) \in Nat /\ Bound(s)' = Bound(s)
    BY BotsAssumption DEF BotServer, ChannelTypes, Bound
  <2>2. CASE UNCHANGED <<unwritten, broken, blocked>>
    BY <2>1, <2>2 DEF ChannelTypes
  <2>3. ASSUME NEW s \in Sessions, WriteDone(s)
        PROVE  /\ ChannelTypes'
               /\ \A r \in Bots :
                    unwritten[r] = 0 /\ r \notin broken => unwritten'[r] = 0 /\ r \notin broken'
    <3>1. /\ unwritten[s] > 0 /\ unwritten' = [unwritten EXCEPT ![s] = @ - 1]
          /\ broken' = broken /\ blocked' \in BOOLEAN
      BY <2>1, <2>3 DEF WriteDone
    <3>2. QED
      BY <2>1, <3>1 DEF ChannelTypes
  <2>4. ASSUME NEW s \in Bots, WriteFails(s)
        PROVE  /\ ChannelTypes'
               /\ \A r \in Bots :
                    unwritten[r] = 0 /\ r \notin broken => unwritten'[r] = 0 /\ r \notin broken'
    <3>1. /\ unwritten[s] > 0 /\ unwritten' = unwritten
          /\ broken' = broken \cup {s} /\ blocked' = blocked
      BY <2>4 DEF WriteFails
    <3>2. QED
      BY <2>1, <3>1 DEF ChannelTypes
  <2>5. QED
    BY <2>2, <2>3, <2>4 DEF Apart, Writes
<1>4. Mailboxes'
  BY <1>1, <1>3 DEF BotServer, Mailboxes
<1>5. QED
  BY <1>1, <1>2, <1>3, <1>4 DEF BotServer

LEMMA BotServerInductive == BotServer /\ [BNext]_allvars => BotServer'
<1> SUFFICES ASSUME BotServer, [BNext]_allvars PROVE BotServer'
  OBVIOUS
<1>1. Server'
  BY ServerSteps, Inductive DEF BotServer
<1>2. QED
  BY <1>1, EveryStep, BotStepKeeps, ConnectBotKeeps, RelayedKeeps, ApartKeeps DEF BotServer

\* The composition is the server with clients of which some are bots: every step
\* is one of the server's or none that it sees.
THEOREM BotTableIsServer == BSpec => AnySpec
<1>1. BInit => Init
  BY DEF BInit
<1>2. BotServer /\ [BNext]_allvars => [AnyNext]_vars
  BY ServerSteps DEF BotServer
<1>3. QED
  BY <1>1, <1>2, InitBotServer, BotServerInductive, PTL DEF BSpec, AnySpec

\* So whatever bots and strangers do, the server keeps its promises: the types, the
\* session maps, the table, the hand that is open and the only one, an answer to
\* every message, the disconnection machinery and the chips.
THEOREM ServerPromises ==
  BSpec => /\ []TypeOK /\ []MapsInverse /\ []AwayHasNoSession /\ []TableSound /\ []HandIsOpen
           /\ []OneHand /\ EveryMessageAnswered /\ Connections /\ Ledger
BY BotTableIsServer, TypeCorrect, MapsTheorem, AwayTheorem, TableTheorem, HandTheorem,
   OneHandTheorem, AnswerTheorem, ConnectionsTheorem, LedgerTheorem

\* sendWelcome, Client::run: what a bot holds and what is on its way in either
\* direction has the fields its reader uses, and no handler sends more than three
\* messages.
THEOREM BotTypesTheorem == BSpec => []BTypeOK
<1>1. BotServer => BTypeOK
  BY DEF BotServer, BotTypes, ChannelTypes, BTypeOK
<1>2. QED
  BY <1>1, InitBotServer, BotServerInductive, PTL DEF BSpec

-----------------------------------------------------------------------------
(* Part 5: a bot that is connected is in the game                            *)

\* A player who is there: connected, not sitting out, and on no way to it.
Here(p) ==
  /\ table.status[p] = "CONNECTED" /\ ~table.sitting_out[p]
  /\ p \notin timers.armed["grace"] /\ p \notin timers.queued["grace"]

\* Whatever the server handles, a player whose session it keeps stays here.
LEMMA HereKept ==
  ASSUME Server, Server', StrangersUntouched, [AnyNext]_vars,
         NEW s \in Sessions, NEW p \in Players, Here(p), toPlayer'[s] = p
  PROVE  Here(p)'
<1>1. /\ timers \in PC!Timers /\ "grace" \in PC!Kinds /\ "removal" \in PC!Kinds
      /\ table.status \in [Players -> TM!Statuses] /\ table.sitting_out \in [Players -> BOOLEAN]
      /\ table'.roster \subseteq Players
  BY SoundTypes DEF Server, Typed, TableSound, PC!Kinds
<1>2. p \in table'.roster => table'.status[p] # "DISCONNECTED"
  BY SessionsAssumption DEF Server, MapsInverse, AwayHasNoSession
<1>3. CASE Unseen
  BY <1>3 DEF Unseen, Here
<1>4. CASE SeenOf
  <2>1. PICK q \in table.roster : Seen(q) /\ table'.roster = table.roster
    BY <1>4 DEF SeenOf
  <2>2. q \in Players
    BY SoundTypes DEF Server, TableSound
  <2>3. CASE q # p
    <3>1. timers' \in {PC!TimersAtDisconnect(timers, q), PC!TimersAtReconnect(timers, q),
                       PC!TimersAtGraceExpiry(timers, q), PC!TimersAtRemovalExpiry(timers, q)}
                      \cup {PC!Expired(timers, k, q) : k \in PC!Kinds}
      BY <2>1 DEF Seen, PC!Disconnect, PC!Reconnect, PC!Expire, PC!GraceTimerExpired,
         PC!RemovalTimerExpired
    <3>2. /\ p \in timers'.armed["grace"] <=> p \in timers.armed["grace"]
          /\ p \in timers'.queued["grace"] <=> p \in timers.queued["grace"]
      BY <1>1, <2>2, <2>3, <3>1, TimersOfOthers
    <3>3. table'.status[p] = table.status[p] /\ table'.sitting_out[p] = table.sitting_out[p]
      BY <1>1, <2>1, <2>3 DEF Seen, PC!Disconnect, PC!Reconnect, PC!Expire,
         PC!GraceTimerExpired, PC!RemovalTimerExpired
    <3>4. QED
      BY <3>2, <3>3 DEF Here
  <2>4. CASE q = p
    <3>1. ~PC!Disconnect(p)
      BY <1>1, <1>2, <2>1, <2>4 DEF PC!Disconnect
    <3>2. ~PC!Reconnect(p) /\ ~PC!GraceTimerExpired(p) /\ ~PC!Expire("grace", p)
      BY DEF Here, PC!Reconnect, PC!GraceTimerExpired, PC!Expire, PC!CanExpire
    <3>3. CASE PC!Expire("removal", p)
      BY <1>1, <3>3 DEF Here, PC!Expire, PC!Expired, PC!Timers
    <3>4. CASE PC!RemovalTimerExpired(p)
      BY <1>1, <3>4 DEF Here, PC!RemovalTimerExpired, PC!TimersAtRemovalExpiry,
         PC!HandlerTaken, PC!Timers
    <3>5. QED
      BY <2>1, <2>4, <3>1, <3>2, <3>3, <3>4 DEF Seen, PC!Kinds
  <2>5. QED
    BY <2>3, <2>4
<1>5. QED
  BY <1>3, <1>4, EveryStepSeen

\* A bot never rejoins, so it speaks for the id of its welcome or for nobody.
BotsHere == \A s \in Bots : toPlayer[s] # NoPlayer => Here(toPlayer[s])

LEMMA BotsHereInductive ==
  ASSUME BotServer, BotServer', StrangersUntouched, BotsHere, [BNext]_allvars
  PROVE  BotsHere'
<1>1. [AnyNext]_vars
  BY ServerSteps DEF BotServer
<1>2. Bots \subseteq Sessions /\ toPlayer' \in [Sessions -> Players \cup {NoPlayer}]
  BY BotsAssumption DEF BotServer, Server, Typed
<1>3. ASSUME NEW s \in Bots, NEW p \in Players, toPlayer'[s] = p
      PROVE  Here(p)'
  <2>1. CASE toPlayer[s] = p
    <3>1. Here(p)
      BY <2>1, ServerAssumption DEF BotsHere
    <3>2. QED
      BY <1>1, <1>2, <1>3, <3>1, HereKept DEF BotServer
  <2>2. CASE toPlayer[s] # p
    <3>1. PICK r \in Bots, q \in Players : ConnectBot(r, q)
      BY <1>3, <2>2, ServerAssumption, EveryStep DEF BotServer, BotStep, vars, Relayed, Apart
    <3>2. q \notin table.roster /\ toPlayer' = [toPlayer EXCEPT ![r] = q]
          /\ table' = table /\ timers' = timers
      BY <3>1 DEF ConnectBot, Welcome
    <3>3. q = p
      BY <1>2, <1>3, <2>2, <3>2 DEF BotServer, Server, Typed
    <3>4. Here(p)
      BY <3>2, <3>3 DEF Here, StrangersUntouched, PC!Kinds
    <3>5. QED
      BY <3>2, <3>4 DEF Here
  <2>3. QED
    BY <2>1, <2>2
<1>4. QED
  <2> SUFFICES ASSUME NEW s \in Bots, toPlayer'[s] # NoPlayer
               PROVE  Here(toPlayer[s])'
    BY DEF BotsHere
  <2>1. PICK p \in Players : toPlayer'[s] = p
    BY <1>2
  <2>2. Here(p)'
    BY <1>3, <2>1
  <2>3. QED
    BY <2>1, <2>2 DEF Here

=============================================================================
