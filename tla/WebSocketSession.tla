--------------------------- MODULE WebSocketSession ---------------------------
(***************************************************************************)
(* One client's socket: server/websocket_session.cpp.  Its handlers run on *)
(* the one thread of the io_context, in the order they were queued, and    *)
(* share three pieces of state: the write queue with is_writing_, the ping *)
(* and pong timers with pong_pending_, and the session's registration in   *)
(* GameSession, which onDisconnect ends.                                   *)
(***************************************************************************)
EXTENDS Integers, Sequences

CONSTANTS
  MaxSends,      \* bound: messages sent on the session
  Relock,        \* what locking a std::mutex again in its own thread may do
  StaleBuffer    \* what reading the freed buffer of a write may yield

ASSUME SendsAssumption == MaxSends \in Nat
ASSUME RelockAssumption == Relock \subseteq {"blocks", "proceeds"}
ASSUME BufferAssumption == StaleBuffer \subseteq {"intact", "garbled"}

VARIABLES
  reading,       \* the read loop runs
  lost,          \* onDisconnect was called and the client did not rejoin
  sent,          \* messages given to send so far; message n is the n-th
  posted,        \* send handlers posted to the executor and not run yet
  queue,         \* write_queue_
  writing,       \* is_writing_
  flight,        \* the message of the async_write in progress, 0 for none
  wire,          \* messages the client received
  garbled,       \* those of them whose bytes were wrong
  broken,        \* a write failed
  blocked,       \* the thread waits for a mutex it holds
  ping,          \* the ping: its timer, its handler or its write
  pong_wait,     \* pong_timeout_timer_
  pong_pending,  \* pong_pending_
  answered       \* history: a pong frame was read since the last ping timer

writes == <<sent, posted, queue, writing, flight, wire, garbled, broken, blocked>>
pings == <<ping, pong_wait, pong_pending, answered>>
vars == <<reading, lost, writes, pings>>

Init ==
  /\ reading = FALSE /\ lost = FALSE
  /\ sent = 0 /\ posted = <<>> /\ queue = <<>>
  /\ writing = FALSE /\ flight = 0
  /\ wire = <<>> /\ garbled = {} /\ broken = FALSE /\ blocked = FALSE
  /\ ping = "off" /\ pong_wait = "off" /\ pong_pending = FALSE /\ answered = FALSE

-----------------------------------------------------------------------------
(* Accepting and reading                                                   *)

\* on_accept: the welcome is sent, the ping timer and the read loop started.
Accept ==
  /\ sent = 0 /\ MaxSends > 0
  /\ reading' = TRUE
  /\ sent' = 1 /\ posted' = <<1>>
  /\ ping' = "waiting"
  /\ UNCHANGED <<lost, queue, writing, flight, wire, garbled, broken, blocked,
                 pong_wait, pong_pending, answered>>

\* on_read: a handled message may be the join with which a lost client rejoins.
Read ==
  /\ reading /\ ~blocked
  /\ lost
  /\ lost' = FALSE
  /\ UNCHANGED <<reading, writes, pings>>

ReadFailed ==
  /\ reading /\ ~blocked
  /\ reading' = FALSE
  /\ lost' = TRUE
  /\ UNCHANGED <<writes, pings>>

-----------------------------------------------------------------------------
(* Writing                                                                 *)

\* GameSession sends to the sessions that read.
Send ==
  /\ reading /\ ~blocked
  /\ 0 < sent /\ sent < MaxSends
  /\ sent' = sent + 1
  /\ posted' = Append(posted, sent + 1)
  /\ UNCHANGED <<reading, lost, queue, writing, flight, wire, garbled, broken, blocked, pings>>

\* Mutant: back() instead of front().
WriteBack(pending) ==
  /\ writing' = TRUE
  /\ flight' = pending[Len(pending)]

\* do_write: the message is copied to a local string that async_write is given
\* as its buffer and that is gone when do_write returns.
Write(pending) ==
  /\ writing' = TRUE
  /\ flight' = Head(pending)

\* Mutant: the handler only queues.
RunPostedUnserved ==
  /\ ~blocked
  /\ posted # <<>>
  /\ posted' = Tail(posted)
  /\ queue' = Append(queue, Head(posted))
  /\ UNCHANGED <<reading, lost, sent, writing, flight, wire, garbled, broken, blocked, pings>>

\* send's posted handler
RunPosted ==
  /\ ~blocked
  /\ posted # <<>>
  /\ posted' = Tail(posted)
  /\ queue' = Append(queue, Head(posted))
  /\ \/ writing /\ UNCHANGED <<writing, flight>>
     \/ ~writing /\ Write(queue')
  /\ UNCHANGED <<reading, lost, sent, wire, garbled, broken, blocked, pings>>

\* async_write sends what the socket takes at once and reads the rest from the
\* buffer later.
Received(n) ==
  /\ wire' = Append(wire, n)
  /\ \/ garbled' = garbled
     \/ "garbled" \in StaleBuffer /\ garbled' = garbled \cup {n}

\* Mutant: pop() is missing.
Unpopped(messages) == messages

Popped(messages) == Tail(messages)

\* Mutant: is_writing_ is not reset after the last message.
LastWrittenBusy == writing' = TRUE /\ flight' = 0

LastWritten == writing' = FALSE /\ flight' = 0

\* on_write: with more messages queued, do_write locks write_queue_mutex_ while
\* on_write holds it.
WriteDone ==
  /\ ~blocked /\ ~broken
  /\ flight # 0
  /\ Received(flight)
  /\ queue' = Popped(queue)
  /\ \/ /\ queue' = <<>>
        /\ LastWritten
        /\ UNCHANGED blocked
     \/ /\ queue' # <<>> /\ "proceeds" \in Relock
        /\ Write(queue')
        /\ UNCHANGED blocked
     \/ /\ queue' # <<>> /\ "blocks" \in Relock
        /\ blocked' = TRUE
        /\ writing' = TRUE /\ flight' = 0
  /\ UNCHANGED <<reading, lost, sent, posted, broken, pings>>

\* Mutant: the message that failed is popped.
WriteFailedPops ==
  /\ ~blocked
  /\ flight # 0
  /\ broken' = TRUE
  /\ writing' = FALSE /\ flight' = 0
  /\ queue' = Tail(queue)
  /\ UNCHANGED <<reading, lost, sent, posted, wire, garbled, blocked, pings>>

\* on_write with an error leaves the message at the head of the queue.
WriteFailed ==
  /\ ~blocked
  /\ flight # 0
  /\ broken' = TRUE
  /\ writing' = FALSE /\ flight' = 0
  /\ UNCHANGED <<reading, lost, sent, posted, queue, wire, garbled, blocked, pings>>

-----------------------------------------------------------------------------
(* Pings                                                                   *)

\* Mutant: the pong timer is not started.
PongTimerIdle == pong_wait' = pong_wait

PongTimerStarted == pong_wait' = "armed"

\* PONG_TIMEOUT_MS < PING_INTERVAL_MS and handlers run in order: a ping timer
\* fires after the previous pong timer is done with.
PingTimerExpired ==
  /\ ~blocked
  /\ ping = "waiting" /\ pong_wait = "off"
  /\ ping' = "writing"
  /\ pong_pending' = TRUE /\ answered' = FALSE
  /\ PongTimerStarted
  /\ UNCHANGED <<reading, lost, writes>>

\* on_pong, the completion of async_ping
PingWritten ==
  /\ ~blocked
  /\ ping = "writing"
  /\ ping' = "waiting"
  /\ UNCHANGED <<reading, lost, writes, pong_wait, pong_pending, answered>>

PingWriteFailed ==
  /\ ~blocked
  /\ ping = "writing"
  /\ ping' = "off"
  /\ lost' = TRUE
  /\ UNCHANGED <<reading, writes, pong_wait, pong_pending, answered>>

\* Cancelling a timer does not stop its handler when that is queued.
PongTimerCancelled == pong_wait' = IF pong_wait = "armed" THEN "off" ELSE pong_wait

\* Mutant: the callback only cancels the timer.
PongReceivedCancels ==
  /\ reading /\ ~blocked
  /\ PongTimerCancelled
  /\ answered' = TRUE
  /\ UNCHANGED <<reading, lost, writes, ping, pong_pending>>

\* The control callback, which runs inside a read.  A client may send a pong that
\* no ping asked for.
PongReceived ==
  /\ reading /\ ~blocked
  /\ PongTimerCancelled
  /\ pong_pending' = FALSE /\ answered' = TRUE
  /\ UNCHANGED <<reading, lost, writes, ping>>

PongTimerExpired ==
  /\ pong_wait = "armed"
  /\ pong_wait' = "queued"
  /\ UNCHANGED <<reading, lost, writes, ping, pong_pending, answered>>

\* on_pong_timeout
PongTimeout ==
  /\ ~blocked
  /\ pong_wait = "queued"
  /\ pong_wait' = "off"
  /\ lost' = (lost \/ pong_pending)
  /\ UNCHANGED <<reading, writes, ping, pong_pending, answered>>

-----------------------------------------------------------------------------
Next ==
  \/ Accept \/ Read \/ ReadFailed
  \/ Send \/ RunPosted \/ WriteDone \/ WriteFailed
  \/ PingTimerExpired \/ PingWritten \/ PingWriteFailed
  \/ PongReceived \/ PongTimerExpired \/ PongTimeout

Spec == Init /\ [][Next]_vars

\* The io_context runs what is queued and fires the timers; the kernel completes
\* every write one way or the other.  Clients owe nothing.
FairSpec ==
  /\ Spec
  /\ WF_vars(RunPosted)
  /\ WF_vars(WriteDone \/ WriteFailed)
  /\ WF_vars(PingTimerExpired) /\ WF_vars(PingWritten \/ PingWriteFailed)
  /\ WF_vars(PongTimerExpired) /\ WF_vars(PongTimeout)

-----------------------------------------------------------------------------
(* Properties                                                              *)

TypeOK ==
  /\ {reading, lost, writing, broken, blocked, pong_pending, answered} \subseteq BOOLEAN
  /\ sent \in 0..MaxSends
  /\ {posted, queue, wire} \subseteq Seq(1..MaxSends)
  /\ Len(posted) + Len(queue) + Len(wire) <= MaxSends
  /\ flight \in 0..MaxSends
  /\ garbled \subseteq 1..MaxSends
  /\ ping \in {"off", "waiting", "writing"}
  /\ pong_wait \in {"off", "armed", "queued"}

\* send, do_write, on_write: at every moment, through failed writes too, what the
\* client received, what is queued and what is posted are the messages sent, each
\* once and in their order.
NothingLostOrDoubled == wire \o queue \o posted = [n \in 1..sent |-> n]

\* is_writing_ is what the one write in progress says it is: the write is that of
\* the queue's head, and on a working connection no message waits without one.
WriteServesQueue ==
  /\ flight # 0 => writing /\ queue # <<>> /\ flight = Head(queue)
  /\ writing => flight # 0 \/ blocked
  /\ ~writing /\ ~broken => queue = <<>>

\* The session implements the channel that send promises.
Channel == INSTANCE WriteChannel
ChannelSpec == Channel!Spec

\* on_ping_timer, the control callback, on_pong_timeout: a client whose pong frame
\* was read since the last ping timer is not lost to the timeout, not even to a
\* handler of it that was queued when the pong came.
PongBeatsTimeout ==
  [][~lost /\ lost' => reading' # reading \/ ping' # ping \/ ~answered]_vars

\* A client that leaves a ping unanswered is lost in the end.
SilentClientIsLost ==
  pong_pending /\ ping # "off" ~> ~pong_pending \/ lost \/ ping = "off" \/ blocked

\* Every message sent is received in the end, unless the connection breaks or
\* the thread is gone.
EveryMessageArrives ==
  \A n \in 1..MaxSends : sent >= n ~> Len(wire) >= n \/ broken \/ blocked

\* on_write: "If there are more messages, send next one".
NeverBlocked == ~blocked

=============================================================================
