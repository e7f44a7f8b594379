------------------------------- MODULE BotTable -------------------------------
(***************************************************************************)
(* Bots at the server: GameSession composed with BotClient.  The sessions  *)
(* in Bots are read by bots, which write what their program writes; behind *)
(* the other sessions is any client at all.  Messages to a client pass     *)
(* through its session's write path, which keeps their order, may fail, and *)
(* may stop the only thread (WebSocketSession); messages to the server keep *)
(* their order.  Sockets may be lost at any time.                          *)
(***************************************************************************)
EXTENDS GameSession, SequencesExt

CONSTANTS
  Bots,
  MaxInbox,      \* bound: messages on their way to one bot
  MaxUnwritten,  \* bound: unwritten messages counted for any other client
  MaxLosses      \* bound: sockets lost and writes failed

ASSUME BotsAssumption ==
  /\ Bots \subseteq Sessions
  /\ {MaxInbox, MaxUnwritten, MaxLosses} \subseteq Nat

VARIABLES
  bot, inbox, outbox,   \* BotClient
  unwritten,            \* by session: messages posted or in write_queue_
  broken,               \* the bots' sessions of which a write failed
  blocked,              \* the thread waits for a write_queue_mutex_ it holds
  losses                \* sockets lost and writes failed so far

BC == INSTANCE BotClient WITH Nobody <- NoPlayer

bots == <<bot, inbox, outbox>>
channels == <<unwritten, broken, blocked, losses>>
allvars == <<vars, bots, channels>>

BInit ==
  /\ Init /\ BC!Init
  /\ unwritten = [s \in Sessions |-> 0] /\ broken = {} /\ blocked = FALSE
  /\ losses = 0

-----------------------------------------------------------------------------
(* The write path                                                          *)

Bound(s) == IF s \in Bots THEN MaxInbox ELSE MaxUnwritten

AtMost(bound, n) == IF n <= bound THEN n ELSE bound

\* The messages of one handler to one session.  No handler sends more than three
\* (BTypeOK).
Piece(s, messages, i) ==
  IF i \in DOMAIN messages /\ s \in messages[i].to THEN <<messages[i]>> ELSE <<>>

Addressed(s, messages) == Piece(s, messages, 1) \o Piece(s, messages, 2) \o Piece(s, messages, 3)

\* A new connection is a new session, with an empty queue.
Left(s) == IF link[s] = "closed" /\ link'[s] = "open" THEN 0 ELSE unwritten[s]

\* send: what a handler sent is posted behind what the session has not written.
\* inbox holds a bot's messages from here on; the last unwritten[s] of them have
\* not left the server.  A bot that is gone reads nothing, a session with a
\* failed write writes nothing more.
Deliver ==
  /\ ~blocked
  /\ inbox' = [s \in Bots |->
       IF bot[s].phase = "gone" \/ s \in broken THEN inbox[s]
       ELSE inbox[s] \o Addressed(s, last'.sent)]
  /\ unwritten' = [s \in Sessions |->
       IF s \in broken THEN unwritten[s]
       ELSE AtMost(Bound(s), Left(s) + Len(Addressed(s, last'.sent)))]
  /\ \A s \in Bots : Len(inbox'[s]) <= MaxInbox
  /\ UNCHANGED <<broken, blocked>>

\* do_write, on_write: the message at the head is written.  If another one is in
\* the queue, on_write locks write_queue_mutex_ again, which may stop the thread;
\* one that is only posted yet is written by its own handler.
WriteDone(s) ==
  /\ ~crashed /\ ~blocked /\ s \notin broken
  /\ unwritten[s] > 0
  /\ unwritten' = [unwritten EXCEPT ![s] = @ - 1]
  /\ \/ UNCHANGED blocked
     \/ unwritten[s] > 1 /\ blocked' = TRUE
  /\ UNCHANGED <<vars, bots, broken, losses>>

\* on_write with an error leaves the message at the head of the queue.  Of other
\* clients nothing depends on a failed write but that no more is written.
WriteFails(s) ==
  /\ ~crashed /\ ~blocked /\ s \notin broken
  /\ unwritten[s] > 0
  /\ losses < MaxLosses /\ losses' = losses + 1
  /\ broken' = broken \cup {s}
  /\ UNCHANGED <<vars, bots, unwritten, blocked>>

-----------------------------------------------------------------------------
(* Clients and handlers                                                    *)

\* The server handles the head of a bot's outbox.
Incoming(s, type) ==
  /\ outbox[s] # <<>> /\ Head(outbox[s]).type = type
  /\ outbox' = [outbox EXCEPT ![s] = Tail(@)]
  /\ Deliver
  /\ UNCHANGED bot

ServeJoin(s) == (TakeSeat(s) \/ JoinAnswered(s)) /\ Incoming(s, "join")

\* hand_id is compared with the running hand before the action is validated.
ServeAction(s) ==
  LET m == Head(outbox[s])
      current == table.hand # NoHand /\ table.hand.number = m.hand
  IN /\ outbox[s] # <<>> /\ m.type = "action"
     /\ \/ current /\ ActionApplied(s, m.action, m.amount)
        \/ /\ ~current \/ ~Accepts(toPlayer[s], m.action, m.amount)
           /\ ActionRefused(s)
     /\ Incoming(s, "action")

ServeTopUp(s) == TopUp(s) /\ Incoming(s, "top_up")

Serve(s) == (ServeJoin(s) \/ ServeAction(s) \/ ServeTopUp(s)) /\ UNCHANGED losses

\* A client that is no bot sends what it likes.
AnyMessage(s) ==
  \/ \E given \in Players : Rejoin(s, given)
  \/ TakeSeat(s) \/ JoinAnswered(s)
  \/ ActionRefused(s)
  \/ \E a \in {"fold", "call", "raise"}, n \in Amounts : ActionApplied(s, a, n)
  \/ TopUp(s) \/ Ping(s)

Stranger(s) == AnyMessage(s) /\ Deliver /\ UNCHANGED <<bot, outbox, losses>>

ConnectBot(s, p) == Welcome(s, p) /\ BC!Connect(s) /\ Deliver /\ UNCHANGED <<outbox, losses>>

ConnectStranger(s, p) == Welcome(s, p) /\ Deliver /\ UNCHANGED <<bot, outbox, losses>>

SocketLost(s) ==
  /\ losses < MaxLosses /\ losses' = losses + 1
  /\ ReadFailed(s) \/ PingFailed(s)
  /\ Deliver
  /\ UNCHANGED <<bot, outbox>>

\* What happens elsewhere once the thread is blocked is seen by nobody and left out.
TimerExpires(p) == ~blocked /\ (\E k \in PC!Kinds : Expire(k, p)) /\ UNCHANGED <<bots, channels>>

TimerHandled(p) ==
  /\ GraceTimerExpired(p) \/ RemovalTimerExpired(p)
  /\ Deliver
  /\ UNCHANGED <<bot, outbox, losses>>

\* A bot reads what has been written to its socket.
BotStep(s) ==
  /\ ~crashed /\ ~blocked
  /\ BC!Step(s)
  /\ inbox' # inbox => unwritten[s] < Len(inbox[s])
  /\ UNCHANGED <<vars, channels>>

BNext ==
  \/ \E s \in Bots : Serve(s) \/ BotStep(s) \/ WriteFails(s)
  \/ \E s \in Sessions \ Bots : Stranger(s)
  \/ \E s \in Bots, p \in Players : ConnectBot(s, p)
  \/ \E s \in Sessions \ Bots, p \in Players : ConnectStranger(s, p)
  \/ \E s \in Sessions : SocketLost(s) \/ WriteDone(s)
  \/ \E p \in Players : TimerExpires(p) \/ TimerHandled(p)

BSpec == BInit /\ [][BNext]_allvars

\* A bot reads, thinks and answers without end, what is sent to it is written
\* unless a write fails, and the io_context, as long as its thread is not blocked,
\* serves every socket that has something to read.  Nobody else owes anything: any
\* other client may leave what it is sent unread and unwritten.  Strong, since the
\* bound on the inbox disables Serve now and then.
FairBSpec ==
  /\ BSpec
  /\ \A s \in Bots :
       SF_allvars(Serve(s)) /\ WF_allvars(BotStep(s)) /\ WF_allvars(WriteDone(s))

-----------------------------------------------------------------------------
(* Properties                                                              *)

Answers ==
  {BC!NoAnswer}
  \cup [type: {"action"}, hand: Nat, action: {"fold", "call", "raise"}, amount: Nat]

\* What a bot holds and what is on its way have the fields their readers use.
BTypeOK ==
  /\ bot \in [Bots -> [phase: BC!Phases, id: Players \cup {NoPlayer}, answer: Answers]]
  /\ inbox \in [Bots -> Seq(Messages)]
  /\ outbox \in [Bots -> Seq(Answers \cup {BC!Join, BC!TopUpRequest})]
  /\ unwritten \in [Sessions -> Nat] /\ \A s \in Sessions : unwritten[s] <= Bound(s)
  /\ broken \subseteq Bots /\ blocked \in BOOLEAN
  /\ losses \in 0..MaxLosses
  /\ Len(last.sent) <= 3

\* The hand runs, and the session still speaks for the bot.
About(s, hand) ==
  /\ toPlayer[s] = bot[s].id /\ bot[s].id \in table.roster
  /\ table.hand # NoHand /\ table.hand.number = hand

Requests(s) == {m \in ToSet(inbox[s]) : m.type = "action_request"}

\* Its answers: the one it is thinking about and those the server has not read
AnswersOf(s) == {a \in ToSet(outbox[s]) \cup {bot[s].answer} : a.type = "action"}

LevelBet == IF table.hand.bets[0] > table.hand.bets[1]
            THEN table.hand.bets[0] ELSE table.hand.bets[1]

\* sendActionRequest, randomDelay: a bot decides on numbers that are some time
\* old.  However long it takes, whoever joins, leaves, comes back or tops up in
\* between, what the request said of a hand that still runs is still true when
\* the answer is served: it is the bot's turn, the call levels the bets, and the
\* answer is refused for one reason only, a call the bot cannot pay.
RequestStillTrue ==
  \A s \in Bots :
    /\ \A m \in Requests(s) : About(s, m.hand) =>
         /\ TM!HasTurn(table, bot[s].id)
         /\ table.hand.bets[table.hand.turn] + m.call = LevelBet
         /\ m.min_raise = table.hand.min_raise
         /\ m.max_raise <= table.stack[bot[s].id]
    /\ \A a \in AnswersOf(s) : About(s, a.hand) =>
         \/ Accepts(bot[s].id, a.action, a.amount)
         \/ a.action = "call" /\ a.amount > table.stack[bot[s].id]

\* An action of the running hand has been asked of a bot that is there, over a
\* connection and by a thread that work.
Asked(s) ==
  /\ ~crashed /\ ~blocked
  /\ link[s] = "open" /\ s \notin broken /\ bot[s].phase # "gone"
  /\ \/ \E m \in Requests(s) : About(s, m.hand)
     \/ \E a \in AnswersOf(s) : About(s, a.hand)

\* send, Client::run, on_read: a hand never waits for ever for a bot that has been
\* asked, unless a write of its session fails or the thread blocks in on_write.
AskedBotActs == \A s \in Bots : Asked(s) ~> ~Asked(s)

\* Two bots play hand after hand: of a hand that runs, somebody is asked to act,
\* or a bot has left, or the thread is blocked.
RunningHandAsks ==
  table.hand # NoHand ~>
    \/ table.hand = NoHand \/ blocked
    \/ \E s \in Bots : Asked(s) \/ bot[s].phase = "gone" \/ link[s] = "closed" \/ s \in broken

=============================================================================
