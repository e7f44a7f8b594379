------------------------- MODULE WebSocketSessionProofs -------------------------
(* Theorems about WebSocketSession, for every number of messages and every    *)
(* outcome of the relock and of the stale buffer.                             *)
EXTENDS WebSocketSession, SequenceTheorems, TLAPS

-----------------------------------------------------------------------------
(* Moving a message from the head of one sequence to the end of another       *)

LEMMA Shift ==
  ASSUME NEW S, NEW a \in Seq(S), NEW b \in Seq(S), b # <<>>
  PROVE  Append(a, Head(b)) \o Tail(b) = a \o b
<1> DEFINE left == Append(a, Head(b)) \o Tail(b)
           right == a \o b
<1>1. /\ Head(b) \in S /\ Head(b) = b[1] /\ Tail(b) \in Seq(S)
      /\ Len(Tail(b)) = Len(b) - 1
      /\ \A i \in 1 .. Len(Tail(b)) : Tail(b)[i] = b[i + 1]
  BY HeadTailProperties
<1>2. /\ Append(a, Head(b)) \in Seq(S)
      /\ Len(Append(a, Head(b))) = Len(a) + 1
      /\ \A i \in 1 .. Len(a) + 1 :
           Append(a, Head(b))[i] = IF i <= Len(a) THEN a[i] ELSE Head(b)
  BY <1>1
<1>3. /\ left \in Seq(S) /\ Len(left) = Len(a) + 1 + (Len(b) - 1)
      /\ \A i \in 1 .. Len(a) + 1 + (Len(b) - 1) :
           left[i] = IF i <= Len(a) + 1 THEN Append(a, Head(b))[i] ELSE Tail(b)[i - (Len(a) + 1)]
  BY <1>1, <1>2, ConcatProperties
<1>4. /\ right \in Seq(S) /\ Len(right) = Len(a) + Len(b)
      /\ \A i \in 1 .. Len(a) + Len(b) : right[i] = IF i <= Len(a) THEN a[i] ELSE b[i - Len(a)]
  BY ConcatProperties
<1>5. Len(a) \in Nat /\ Len(b) \in Nat \ {0}
  BY EmptySeq, LenProperties
<1>6. ASSUME NEW i \in 1 .. Len(left) PROVE left[i] = right[i]
  <2>1. i \in Int /\ 1 <= i /\ i <= Len(a) + Len(b)
    BY <1>3, <1>5
  <2>2. CASE i <= Len(a)
    BY <1>2, <1>3, <1>4, <1>5, <2>1, <2>2
  <2>3. CASE i = Len(a) + 1
    BY <1>1, <1>2, <1>3, <1>4, <1>5, <2>1, <2>3
  <2>4. CASE i > Len(a) + 1
    <3>1. i - (Len(a) + 1) \in 1 .. Len(Tail(b)) /\ (i - (Len(a) + 1)) + 1 = i - Len(a)
      BY <1>1, <1>5, <2>1, <2>4
    <3>2. left[i] = Tail(b)[i - (Len(a) + 1)]
      BY <1>3, <1>5, <2>1, <2>4
    <3>3. right[i] = b[i - Len(a)]
      BY <1>4, <1>5, <2>1, <2>4
    <3> QED
      BY <1>1, <3>1, <3>2, <3>3
  <2> QED
    BY <1>5, <2>1, <2>2, <2>3, <2>4
<1>7. Len(left) = Len(right)
  BY <1>3, <1>4, <1>5
<1> HIDE DEF left, right
<1>8. left = right
  BY <1>3, <1>4, <1>6, <1>7, SeqEqual
<1> QED
  BY <1>8 DEF left, right

-----------------------------------------------------------------------------
(* The inductive invariant                                                    *)

Messages == 1..MaxSends

\* TypeOK without its bound on the lengths, which NothingLostOrDoubled gives.
Typed ==
  /\ reading \in BOOLEAN /\ lost \in BOOLEAN /\ writing \in BOOLEAN
  /\ broken \in BOOLEAN /\ blocked \in BOOLEAN
  /\ pong_pending \in BOOLEAN /\ answered \in BOOLEAN
  /\ sent \in 0..MaxSends
  /\ posted \in Seq(Messages) /\ queue \in Seq(Messages) /\ wire \in Seq(Messages)
  /\ flight \in 0..MaxSends
  /\ garbled \subseteq Messages
  /\ ping \in {"off", "waiting", "writing"}
  /\ pong_wait \in {"off", "armed", "queued"}

\* What lets on_pong_timeout tell by pong_pending_ whether the client answered
AnsweredIsNotPending == answered => ~pong_pending

Inv == Typed /\ NothingLostOrDoubled /\ WriteServesQueue /\ AnsweredIsNotPending

LEMMA ZeroMessages == 0 \in 0..MaxSends
BY SendsAssumption

LEMMA InvInit == Init => Inv
<1> SUFFICES ASSUME Init PROVE Inv
  OBVIOUS
<1>1. Typed
  <2>1. reading \in BOOLEAN /\ lost \in BOOLEAN /\ writing \in BOOLEAN
        /\ broken \in BOOLEAN /\ blocked \in BOOLEAN
        /\ pong_pending \in BOOLEAN /\ answered \in BOOLEAN
    BY Zenon DEF Init
  <2>2. posted \in Seq(Messages) /\ queue \in Seq(Messages) /\ wire \in Seq(Messages)
    BY EmptySeq DEF Init
  <2>3. sent \in 0..MaxSends /\ flight \in 0..MaxSends
    BY ZeroMessages DEF Init
  <2> QED
    BY <2>1, <2>2, <2>3 DEF Init, Typed
<1>2. NothingLostOrDoubled
  BY DEF Init, NothingLostOrDoubled
<1>3. WriteServesQueue
  BY DEF Init, WriteServesQueue
<1>4. AnsweredIsNotPending
  BY DEF Init, AnsweredIsNotPending
<1> QED
  BY <1>1, <1>2, <1>3, <1>4 DEF Inv

LEMMA HeadOfQueue ==
  ASSUME NEW q \in Seq(Messages), q # <<>>
  PROVE  Head(q) \in Messages /\ Head(q) # 0 /\ Head(q) \in 0..MaxSends
<1>1. Head(q) \in Messages
  BY HeadTailProperties
<1> QED
  BY <1>1, SendsAssumption DEF Messages

LEMMA Reassociate == \A a, b, c \in Seq(Messages) : (a \o b) \o c = a \o (b \o c)
BY ConcatAssociative

LEMMA TypedStep == Typed /\ WriteServesQueue /\ [Next]_vars => Typed'
<1> SUFFICES ASSUME Typed, WriteServesQueue, [Next]_vars PROVE Typed'
  OBVIOUS
<1>1. CASE Accept
  <2>1. 1 \in Messages /\ <<1>> \in Seq(Messages) /\ 1 \in 0..MaxSends
    BY <1>1, SendsAssumption DEF Accept, Messages
  <2> QED
    BY <1>1, <2>1 DEF Accept, Typed
<1>2. CASE Send
  <2>1. sent + 1 \in Messages /\ sent + 1 \in 0..MaxSends
    BY <1>2, SendsAssumption DEF Send, Messages, Typed
  <2>2. Append(posted, sent + 1) \in Seq(Messages)
    BY <2>1 DEF Typed
  <2> QED
    BY <1>2, <2>1, <2>2 DEF Send, Typed, pings
<1>3. CASE RunPosted
  <2>1. posted \in Seq(Messages) /\ queue \in Seq(Messages) /\ posted # <<>>
    BY <1>3 DEF RunPosted, Typed
  <2>2. Head(posted) \in Messages /\ Tail(posted) \in Seq(Messages)
    BY <2>1, HeadTailProperties
  <2>3. queue' \in Seq(Messages) /\ queue' # <<>>
    BY <1>3, <2>1, <2>2 DEF RunPosted
  <2>4. Head(queue') \in 0..MaxSends
    BY <2>3, HeadOfQueue
  <2>5. writing' \in BOOLEAN /\ flight' \in 0..MaxSends
    BY <1>3, <2>4 DEF RunPosted, Write, Typed
  <2> QED
    BY <1>3, <2>2, <2>3, <2>5 DEF RunPosted, Typed, pings
<1>4. CASE WriteDone
  <2>1. flight \in Messages /\ queue \in Seq(Messages) /\ queue # <<>>
    BY <1>4, SendsAssumption DEF WriteDone, Typed, Messages, WriteServesQueue
  <2>2. wire' \in Seq(Messages) /\ garbled' \subseteq Messages
    <3>1. wire' = Append(wire, flight) /\ wire \in Seq(Messages) /\ garbled \subseteq Messages
      BY <1>4 DEF WriteDone, Received, Typed
    <3>2. garbled' \in {garbled, garbled \cup {flight}}
      BY <1>4 DEF WriteDone, Received
    <3> QED
      BY <2>1, <3>1, <3>2
  <2>3. queue' \in Seq(Messages)
    BY <1>4, <2>1, HeadTailProperties DEF WriteDone, Popped
  <2>4. queue' # <<>> => Head(queue') \in 0..MaxSends
    BY <2>3, HeadOfQueue
  <2>5. writing' \in BOOLEAN /\ flight' \in 0..MaxSends /\ blocked' \in BOOLEAN
    <3>1. CASE queue' = <<>> /\ LastWritten /\ UNCHANGED blocked
      BY <3>1, ZeroMessages, Zenon DEF LastWritten, Typed
    <3>2. CASE queue' # <<>> /\ Write(queue') /\ UNCHANGED blocked
      BY <3>2, <2>4 DEF Write, Typed
    <3>3. CASE blocked' = TRUE /\ writing' = TRUE /\ flight' = 0
      BY <3>3, SendsAssumption
    <3> QED
      BY <1>4, <3>1, <3>2, <3>3 DEF WriteDone
  <2>6. UNCHANGED <<reading, lost, sent, posted, broken, ping, pong_wait, pong_pending, answered>>
    BY <1>4 DEF WriteDone, pings
  <2> QED
    BY <2>2, <2>3, <2>5, <2>6 DEF Typed
<1>5. CASE WriteFailed
  BY <1>5, ZeroMessages, Zenon DEF WriteFailed, Typed, pings
<1>6. CASE Read \/ ReadFailed
  BY <1>6 DEF Read, ReadFailed, Typed, writes, pings
<1>7. CASE PingTimerExpired \/ PingWritten \/ PingWriteFailed
  BY <1>7 DEF PingTimerExpired, PingWritten, PingWriteFailed, PongTimerStarted, Typed, writes
<1>8. CASE PongReceived \/ PongTimerExpired \/ PongTimeout
  BY <1>8 DEF PongReceived, PongTimerCancelled, PongTimerExpired, PongTimeout, Typed, writes
<1>9. CASE UNCHANGED vars
  BY <1>9 DEF vars, writes, pings, Typed
<1> QED
  BY <1>1, <1>2, <1>3, <1>4, <1>5, <1>6, <1>7, <1>8, <1>9 DEF Next

\* The actions that leave the writing side alone
LEMMA OffTheQueue ==
  ASSUME \/ Read \/ ReadFailed \/ PingTimerExpired \/ PingWritten \/ PingWriteFailed
         \/ PongReceived \/ PongTimerExpired \/ PongTimeout \/ UNCHANGED vars
  PROVE  UNCHANGED <<sent, posted, queue, writing, flight, wire, broken, blocked>>
BY DEF Read, ReadFailed, PingTimerExpired, PingWritten, PingWriteFailed, PongReceived,
       PongTimerExpired, PongTimeout, vars, writes

LEMMA NothingLostStep ==
  Typed /\ WriteServesQueue /\ NothingLostOrDoubled /\ [Next]_vars => NothingLostOrDoubled'
<1> SUFFICES ASSUME Typed, WriteServesQueue, NothingLostOrDoubled, [Next]_vars
             PROVE  NothingLostOrDoubled'
  OBVIOUS
<1>0. /\ posted \in Seq(Messages) /\ queue \in Seq(Messages) /\ wire \in Seq(Messages)
      /\ sent \in Nat /\ flight \in 0..MaxSends
      /\ wire \o queue \o posted = [n \in 1..sent |-> n]
  BY SendsAssumption DEF Typed, NothingLostOrDoubled
<1>1. CASE Accept \/ Send
  <2>1. posted' = Append(posted, sent + 1) /\ sent' = sent + 1 /\ wire' = wire /\ queue' = queue
    <3>1. CASE Send
      BY <3>1 DEF Send
    <3>2. CASE Accept
      <4>1. sent = 0 /\ posted' = <<1>> /\ sent' = 1 /\ wire' = wire /\ queue' = queue
        BY <3>2 DEF Accept
      <4>2. wire \o queue \o posted = <<>>
        BY <1>0, <4>1
      <4>3. wire \o queue \in Seq(Messages)
        BY <1>0, ConcatProperties
      <4>4. posted = <<>>
        BY <1>0, <4>2, <4>3, ConcatSimplifications
      <4> QED
        BY <4>1, <4>4
    <3> QED
      BY <1>1, <3>1, <3>2
  <2> DEFINE done == wire \o queue
  <2>2. done \in Seq(Int) /\ posted \in Seq(Int)
    <3>1. done \in Seq(Messages) /\ Messages \subseteq Int
      BY <1>0, ConcatProperties DEF Messages
    <3> QED
      BY <1>0, <3>1, SeqMonotonic
  <2> HIDE DEF done
  <2>3. done \o Append(posted, sent + 1) = Append(done \o posted, sent + 1)
    BY <1>0, <2>2
  <2>4. done \o posted = [n \in 1..sent |-> n]
    BY <1>0 DEF done
  <2>5. Append([n \in 1..sent |-> n], sent + 1) = [n \in 1..(sent + 1) |-> n]
    BY <1>0
  <2> QED
    BY <2>1, <2>3, <2>4, <2>5 DEF NothingLostOrDoubled, done
<1>2. CASE RunPosted
  <2>1. /\ posted # <<>> /\ posted' = Tail(posted) /\ queue' = Append(queue, Head(posted))
        /\ wire' = wire /\ sent' = sent
    BY <1>2 DEF RunPosted
  <2>2. queue' \o posted' = queue \o posted
    BY <1>0, <2>1, Shift
  <2>3. queue' \in Seq(Messages) /\ posted' \in Seq(Messages)
    BY <1>0, <2>1, HeadTailProperties
  <2>4. wire \o (queue' \o posted') = (wire \o queue') \o posted'
    BY <1>0, <2>3, Reassociate, Zenon
  <2>5. wire \o (queue \o posted) = (wire \o queue) \o posted
    BY <1>0, Reassociate, Zenon
  <2> QED
    BY <1>0, <2>1, <2>2, <2>4, <2>5 DEF NothingLostOrDoubled
<1>3. CASE WriteDone
  <2>1. /\ queue # <<>> /\ queue' = Tail(queue) /\ wire' = Append(wire, Head(queue))
        /\ posted' = posted /\ sent' = sent
    BY <1>3 DEF WriteDone, Received, Popped, WriteServesQueue
  <2>2. wire' \o queue' = wire \o queue
    BY <1>0, <2>1, Shift
  <2> QED
    BY <1>0, <2>1, <2>2 DEF NothingLostOrDoubled
<1>4. CASE WriteFailed
  BY <1>4 DEF WriteFailed, NothingLostOrDoubled
<1>5. CASE UNCHANGED <<sent, posted, queue, writing, flight, wire, broken, blocked>>
  BY <1>5 DEF NothingLostOrDoubled
<1> QED
  BY <1>1, <1>2, <1>3, <1>4, <1>5, OffTheQueue DEF Next

LEMMA ServesStep == Typed /\ WriteServesQueue /\ [Next]_vars => WriteServesQueue'
<1> SUFFICES ASSUME Typed, WriteServesQueue, [Next]_vars PROVE WriteServesQueue'
  OBVIOUS
<1>0. /\ posted \in Seq(Messages) /\ queue \in Seq(Messages) /\ flight \in 0..MaxSends
      /\ writing \in BOOLEAN /\ broken \in BOOLEAN /\ blocked \in BOOLEAN
  BY DEF Typed
<1>1. CASE Accept \/ Send
  BY <1>1 DEF Accept, Send, WriteServesQueue
<1>2. CASE RunPosted
  <2>1. /\ posted # <<>> /\ queue' = Append(queue, Head(posted))
        /\ broken' = broken /\ blocked' = blocked
    BY <1>2 DEF RunPosted
  <2>2. Head(posted) \in Messages
    BY <1>0, <2>1, HeadTailProperties
  <2>3. queue' \in Seq(Messages) /\ queue' # <<>>
    BY <1>0, <2>1, <2>2
  <2>4. CASE writing /\ UNCHANGED <<writing, flight>>
    <3>1. queue # <<>> => Head(queue') = Head(queue)
      BY <1>0, <2>1, <2>2
    <3> QED
      BY <2>1, <2>3, <2>4, <3>1 DEF WriteServesQueue
  <2>5. CASE ~writing /\ Write(queue')
    BY <2>1, <2>3, <2>5, HeadOfQueue DEF Write, WriteServesQueue
  <2> QED
    BY <1>2, <2>4, <2>5 DEF RunPosted
<1>3. CASE WriteDone
  <2>1. /\ queue # <<>> /\ queue' = Tail(queue) /\ ~broken /\ broken' = broken
    BY <1>3 DEF WriteDone, Popped, WriteServesQueue
  <2>2. queue' \in Seq(Messages)
    BY <1>0, <2>1, HeadTailProperties
  <2>3. CASE queue' = <<>> /\ LastWritten
    BY <2>3 DEF LastWritten, WriteServesQueue
  <2>4. CASE queue' # <<>> /\ Write(queue')
    BY <2>2, <2>4, HeadOfQueue DEF Write, WriteServesQueue
  <2>5. CASE blocked' = TRUE /\ writing' = TRUE /\ flight' = 0
    BY <2>5 DEF WriteServesQueue
  <2> QED
    BY <1>3, <2>3, <2>4, <2>5 DEF WriteDone
<1>4. CASE WriteFailed
  BY <1>4 DEF WriteFailed, WriteServesQueue
<1>5. CASE UNCHANGED <<sent, posted, queue, writing, flight, wire, broken, blocked>>
  BY <1>5 DEF WriteServesQueue
<1> QED
  BY <1>1, <1>2, <1>3, <1>4, <1>5, OffTheQueue DEF Next

\* The ping timer starts a ping that nobody has answered, and only it makes a
\* pong pending; a pong frame settles both, asked for or not.
LEMMA AnsweredStep == AnsweredIsNotPending /\ [Next]_vars => AnsweredIsNotPending'
<1> SUFFICES ASSUME AnsweredIsNotPending, [Next]_vars PROVE AnsweredIsNotPending'
  OBVIOUS
<1>1. CASE PingTimerExpired
  BY <1>1 DEF PingTimerExpired, AnsweredIsNotPending
<1>2. CASE PongReceived
  BY <1>2 DEF PongReceived, AnsweredIsNotPending
<1>3. CASE \/ Accept \/ Read \/ ReadFailed \/ Send \/ RunPosted \/ WriteDone \/ WriteFailed
           \/ PingWritten \/ PingWriteFailed \/ PongTimerExpired \/ PongTimeout
           \/ UNCHANGED vars
  <2>1. UNCHANGED <<pong_pending, answered>>
    BY <1>3 DEF Accept, Read, ReadFailed, Send, RunPosted, WriteDone, WriteFailed,
       PingWritten, PingWriteFailed, PongTimerExpired, PongTimeout, vars, pings
  <2> QED
    BY <2>1 DEF AnsweredIsNotPending
<1> QED
  BY <1>1, <1>2, <1>3 DEF Next

LEMMA InvStep == Inv /\ [Next]_vars => Inv'
BY TypedStep, NothingLostStep, ServesStep, AnsweredStep DEF Inv

\* The write queue, is_writing_ and the write in progress stay in step, and no
\* message is lost or doubled on its way through them.
THEOREM SocketSound == Spec => []Inv
BY InvInit, InvStep, PTL DEF Spec

LEMMA InvIsTyped == Inv => TypeOK
<1> SUFFICES ASSUME Inv PROVE TypeOK
  OBVIOUS
<1>0. /\ posted \in Seq(Messages) /\ queue \in Seq(Messages) /\ wire \in Seq(Messages)
      /\ sent \in 0..MaxSends
      /\ wire \o queue \o posted = [n \in 1..sent |-> n]
  BY DEF Inv, Typed, NothingLostOrDoubled
<1>1. wire \o queue \in Seq(Messages) /\ Len(wire \o queue) = Len(wire) + Len(queue)
  BY <1>0, ConcatProperties
<1>2. Len(wire \o queue \o posted) = Len(wire \o queue) + Len(posted)
  BY <1>0, <1>1, ConcatProperties
<1>3. Len(wire \o queue \o posted) = sent
  BY <1>0
<1>4. Len(wire) \in Nat /\ Len(queue) \in Nat /\ Len(posted) \in Nat
  BY <1>0, LenProperties
<1>5. Len(posted) + Len(queue) + Len(wire) <= MaxSends
  BY <1>0, <1>1, <1>2, <1>3, <1>4, SendsAssumption
<1>6. {reading, lost, writing, broken, blocked, pong_pending, answered} \subseteq BOOLEAN
  BY Zenon DEF Inv, Typed
<1> QED
  BY <1>0, <1>5, <1>6 DEF Inv, Typed, TypeOK, Messages

\* The socket's state keeps its types.
THEOREM SocketTypes == Spec => []TypeOK
BY InvIsTyped, SocketSound, PTL

\* send, do_write, on_write: what the client received, what is queued and what is
\* posted are the messages sent, each once and in order, for any number of them.
THEOREM NothingLostTheorem == Spec => []NothingLostOrDoubled
<1>1. Inv => NothingLostOrDoubled
  BY DEF Inv
<1> QED
  BY <1>1, SocketSound, PTL

\* is_writing_ and the write in progress agree with the queue.
THEOREM WriteServesTheorem == Spec => []WriteServesQueue
<1>1. Inv => WriteServesQueue
  BY DEF Inv
<1> QED
  BY <1>1, SocketSound, PTL

-----------------------------------------------------------------------------
(* The channel                                                                *)

LEMMA ChannelInit == Init => Channel!Init
BY DEF Init, Channel!Init

LEMMA NextOnWire ==
  ASSUME Inv, flight # 0, ~broken
  PROVE  flight = Len(wire) + 1 /\ Len(wire) < sent
<1>0. /\ posted \in Seq(Messages) /\ queue \in Seq(Messages) /\ wire \in Seq(Messages)
      /\ sent \in Nat /\ queue # <<>> /\ flight = Head(queue)
      /\ wire \o queue \o posted = [n \in 1..sent |-> n]
  BY SendsAssumption DEF Inv, Typed, NothingLostOrDoubled, WriteServesQueue
<1> DEFINE done == wire \o queue
           w == Len(wire)
<1>1. /\ done \in Seq(Messages) /\ Len(done) = w + Len(queue)
      /\ \A i \in 1 .. w + Len(queue) : done[i] = IF i <= w THEN wire[i] ELSE queue[i - w]
  BY <1>0, ConcatProperties
<1>2. w \in Nat /\ Len(queue) \in Nat \ {0} /\ Len(posted) \in Nat
  BY <1>0, EmptySeq, LenProperties
<1>3. w + 1 \in 1 .. w + Len(queue) /\ ~(w + 1 <= w) /\ (w + 1) - w = 1
  BY <1>2
<1>4. done[w + 1] = queue[1]
  BY <1>1, <1>3
<1> HIDE DEF done, w
<1>5. /\ Len(done \o posted) = Len(done) + Len(posted)
      /\ \A i \in 1 .. Len(done) + Len(posted) :
           (done \o posted)[i] = IF i <= Len(done) THEN done[i] ELSE posted[i - Len(done)]
  BY <1>0, <1>1, ConcatProperties
<1>6. done \o posted = [n \in 1..sent |-> n]
  BY <1>0 DEF done
<1>7. Len(done \o posted) = sent
  BY <1>0, <1>6
<1>8. w + 1 <= sent /\ (done \o posted)[w + 1] = done[w + 1]
  BY <1>0, <1>1, <1>2, <1>5, <1>7
<1>9. (done \o posted)[w + 1] = w + 1
  BY <1>0, <1>2, <1>6, <1>8
<1>10. Head(queue) = queue[1]
  BY <1>0
<1>11. flight = w + 1 /\ w < sent
  BY <1>0, <1>2, <1>4, <1>8, <1>9, <1>10
<1> QED
  BY <1>11 DEF w

LEMMA ChannelStep ==
  Inv /\ [Next]_vars => [Channel!Next]_<<sent, wire, broken>>
<1> SUFFICES ASSUME Inv, [Next]_vars PROVE [Channel!Next]_<<sent, wire, broken>>
  OBVIOUS
<1>1. CASE Accept \/ Send
  BY <1>1 DEF Accept, Send, Channel!Next, Channel!Send
<1>2. CASE RunPosted
  BY <1>2 DEF RunPosted
<1>3. CASE WriteDone
  <2>1. flight # 0 /\ ~broken /\ wire' = Append(wire, flight) /\ UNCHANGED <<sent, broken>>
    BY <1>3 DEF WriteDone, Received
  <2>2. flight = Len(wire) + 1 /\ Len(wire) < sent
    BY <2>1, NextOnWire
  <2> QED
    BY <2>1, <2>2 DEF Channel!Next, Channel!Deliver
<1>4. CASE WriteFailed
  BY <1>4 DEF WriteFailed, Channel!Next, Channel!Break
<1>5. CASE UNCHANGED <<sent, posted, queue, writing, flight, wire, broken, blocked>>
  BY <1>5
<1> QED
  BY <1>1, <1>2, <1>3, <1>4, <1>5, OffTheQueue DEF Next

\* WebSocketSession implements the channel: the client receives the messages in
\* the order they were sent, each at most once, and none after a write failed.
THEOREM ChannelTheorem == Spec => ChannelSpec
BY ChannelInit, ChannelStep, SocketSound, PTL DEF Spec, ChannelSpec, Channel!Spec

\* on_pong_timeout: a step that loses the client ends the read loop, fails the
\* ping's write, or finds a ping that no pong frame has answered.  The handler
\* looks at pong_pending_ alone; that this tells who has answered is the part
\* AnsweredIsNotPending of the invariant.
THEOREM PongTheorem == Spec => PongBeatsTimeout
<1> DEFINE Beats == ~lost /\ lost' => reading' # reading \/ ping' # ping \/ ~answered
<1>1. Typed /\ AnsweredIsNotPending /\ [Next]_vars => [Beats]_vars
  <2> SUFFICES ASSUME Typed, AnsweredIsNotPending, Next PROVE Beats
    OBVIOUS
  <2>1. CASE ReadFailed
    BY <2>1 DEF ReadFailed, Typed
  <2>2. CASE PingWriteFailed
    BY <2>2 DEF PingWriteFailed
  <2>3. CASE PongTimeout
    BY <2>3 DEF PongTimeout, AnsweredIsNotPending
  <2>4. CASE lost' = lost \/ lost' = FALSE
    BY <2>4
  <2>5. CASE Accept \/ Read \/ Send \/ RunPosted \/ WriteDone \/ WriteFailed
             \/ PingTimerExpired \/ PingWritten \/ PongReceived \/ PongTimerExpired
    BY <2>5, <2>4 DEF Accept, Read, Send, RunPosted, WriteDone, WriteFailed,
       PingTimerExpired, PingWritten, PongReceived, PongTimerExpired
  <2> QED
    BY <2>1, <2>2, <2>3, <2>5 DEF Next
<1>2. Inv => Typed /\ AnsweredIsNotPending
  BY DEF Inv
<1> QED
  BY <1>1, <1>2, SocketSound, PTL DEF Spec, PongBeatsTimeout

=============================================================================
