------------------------------- MODULE BotClient -------------------------------
(***************************************************************************)
(* The bots: client/client.cpp with client/random_strategy.cpp and         *)
(* client/stack_management.cpp.  A bot is one blocking thread: it reads a  *)
(* message, handles it, sometimes writes an answer, and reads the next.    *)
(* What it has not read waits in its inbox, what it wrote in its outbox,   *)
(* both in order.  A bot never rejoins: once gone it stays gone.           *)
(***************************************************************************)
EXTENDS Integers, Sequences

CONSTANTS
  Bots,            \* the sessions whose client is a bot
  Nobody,          \* player_id_ before the welcome
  TopUpThreshold   \* TOP_UP_THRESHOLD_BB * BIG_BLIND

VARIABLES
  bot,             \* where Client::run is, its player_id_, the answer it is about to send
  inbox,           \* what the server sent and the bot has not read
  outbox           \* what the bot wrote and the server has not handled

vars == <<bot, inbox, outbox>>

Phases == {"off", "welcoming", "joining", "playing", "thinking", "gone"}

NoAnswer == [type |-> "none"]
Join == [type |-> "join"]
TopUpRequest == [type |-> "top_up"]
Action(hand, action, amount) ==
  [type |-> "action", hand |-> hand, action |-> action, amount |-> amount]

Init ==
  /\ bot = [s \in Bots |-> [phase |-> "off", id |-> Nobody, answer |-> NoAnswer]]
  /\ inbox = [s \in Bots |-> <<>>]
  /\ outbox = [s \in Bots |-> <<>>]

Waiting(s, phase) == bot[s].phase = phase /\ inbox[s] # <<>>

\* ws.read: the message is consumed before it is looked at.
Read(s) == inbox' = [inbox EXCEPT ![s] = Tail(@)]
Write(s, message) == outbox' = [outbox EXCEPT ![s] = Append(@, message)]
GoesTo(s, phase) == bot' = [bot EXCEPT ![s].phase = phase]

-----------------------------------------------------------------------------
(* The handshake                                                           *)

Connect(s) == bot[s].phase = "off" /\ GoesTo(s, "welcoming")

ReadWelcome(s) ==
  /\ Waiting(s, "welcoming")
  /\ bot' = [bot EXCEPT ![s].phase = "joining", ![s].id = Head(inbox[s]).player]
  /\ Read(s)
  /\ Write(s, Join)

\* Whatever else comes first, an error or a broadcast, ends the bot.
ReadJoinAck(s) ==
  /\ Waiting(s, "joining")
  /\ \/ Head(inbox[s]).type = "join_ack" /\ GoesTo(s, "playing")
     \/ Head(inbox[s]).type # "join_ack" /\ GoesTo(s, "gone")
  /\ Read(s)
  /\ UNCHANGED outbox

-----------------------------------------------------------------------------
(* The message loop                                                        *)

\* Mutant: the raise is drawn from 1 up.
ChoicesLow(m) ==
  {Action(m.hand, "fold", 0), Action(m.hand, "call", m.call)}
    \cup {Action(m.hand, "raise", n) : n \in 1..m.max_raise}

\* RandomStrategy::chooseAction over the three possible_actions: none when it
\* throws, because the least raise exceeds the stack.
Choices(m) ==
  {Action(m.hand, "fold", 0), Action(m.hand, "call", m.call)}
    \cup {Action(m.hand, "raise", n) : n \in m.min_raise..m.max_raise}

\* The choice is made before randomDelay, with the request's numbers.
ReadRequest(s) ==
  /\ Waiting(s, "playing")
  /\ Head(inbox[s]).type = "action_request"
  /\ \/ \E a \in Choices(Head(inbox[s])) :
          bot' = [bot EXCEPT ![s].phase = "thinking", ![s].answer = a]
     \/ /\ Head(inbox[s]).min_raise > Head(inbox[s]).max_raise
        /\ GoesTo(s, "gone")
  /\ Read(s)
  /\ UNCHANGED outbox

\* Mutant: the answer is written only if the bot has nothing else to read.
AnswerIfIdle(s) ==
  /\ bot[s].phase = "thinking" /\ inbox[s] = <<>>
  /\ Write(s, bot[s].answer)
  /\ bot' = [bot EXCEPT ![s].phase = "playing", ![s].answer = NoAnswer]
  /\ UNCHANGED inbox

\* The delay is over; nothing was read in between.
Answer(s) ==
  /\ bot[s].phase = "thinking"
  /\ Write(s, bot[s].answer)
  /\ bot' = [bot EXCEPT ![s].phase = "playing", ![s].answer = NoAnswer]
  /\ UNCHANGED inbox

\* stack_management::shouldTopUp on the stack the message reports
ShouldTopUp(s, m) == bot[s].id \in m.listed /\ m.stacks[bot[s].id] < TopUpThreshold

ReadHandCompleted(s) ==
  /\ Waiting(s, "playing")
  /\ Head(inbox[s]).type = "hand_completed"
  /\ Read(s)
  /\ \/ ShouldTopUp(s, Head(inbox[s])) /\ Write(s, TopUpRequest)
     \/ ~ShouldTopUp(s, Head(inbox[s])) /\ UNCHANGED outbox
  /\ UNCHANGED bot

ReadError(s) ==
  /\ Waiting(s, "playing")
  /\ Head(inbox[s]).type = "error"
  /\ Read(s)
  /\ GoesTo(s, "gone")
  /\ UNCHANGED outbox

\* Logged, or of an unknown type
ReadNotice(s) ==
  /\ Waiting(s, "playing")
  /\ Head(inbox[s]).type \notin {"action_request", "hand_completed", "error"}
  /\ Read(s)
  /\ UNCHANGED <<bot, outbox>>

Step(s) ==
  \/ ReadWelcome(s) \/ ReadJoinAck(s)
  \/ ReadRequest(s) \/ Answer(s)
  \/ ReadHandCompleted(s) \/ ReadError(s) \/ ReadNotice(s)

=============================================================================
