------------------------------ MODULE GameSession ------------------------------
(***************************************************************************)
(* The server: server/game_session.cpp, the handler of every message,      *)
(* socket loss and timer, composed from the table (TableManager) and the   *)
(* disconnection timers (PlayerConnection).                                *)
(*                                                                         *)
(* main.cpp runs the io_context on one thread, so a handler is one step;   *)
(* what a handler leaves behind and the next one finds is what interleaves:*)
(* messages of several sessions, lost sockets, pings that fail while the   *)
(* socket still reads, and timer handlers already queued.                  *)
(***************************************************************************)
EXTENDS Integers, FiniteSets, Sequences

CONSTANTS
  Players, NoPlayer, Freed, NoHand, Amounts,
  StartingStack, TargetStack, TopUpThreshold, BigBlind, MaxHands, MaxBank,
  Sessions,      \* WebSocketSession objects; a closed one stands for the next
  NoSession      \* no entry in player_sessions_

ASSUME SessionsAssumption == NoSession \notin Sessions

VARIABLES
  table,         \* table_manager_ (TableManager)
  timers,        \* connection_manager_ and its queued handlers (PlayerConnection)
  toPlayer,      \* session_to_player_
  toSession,     \* player_sessions_
  link,          \* whether a session's read loop runs
  crashed,       \* the process died in a handler
  last           \* the session whose message was handled last, and what was sent

vars == <<table, timers, toPlayer, toSession, link, crashed, last>>

TM == INSTANCE TableManager
PC == INSTANCE PlayerConnection WITH
  status <- table.status, sitting_out <- table.sitting_out

Seats == TM!Seats

\* What TableManager asks of the constants
ASSUME ServerAssumption ==
  /\ NoPlayer \notin Players /\ Freed \notin Players
  /\ Amounts \subseteq Int
  /\ StartingStack \in Nat /\ TargetStack \in Nat /\ TopUpThreshold \in Nat
  /\ TopUpThreshold <= TargetStack
  /\ BigBlind \in Nat \ {0}
  /\ NoHand \notin TM!Hands

-----------------------------------------------------------------------------
(* Messages                                                                *)

Types == {"welcome", "join_ack", "hand_started", "action_request", "action_applied",
          "hand_completed", "player_disconnected", "player_reconnected",
          "player_removed", "top_up_ack", "pong", "error"}

Messages ==
  [type: Types \ {"welcome", "action_request", "hand_completed"}, to: SUBSET Sessions]
  \cup [type: {"welcome"}, to: SUBSET Sessions, player: Players]
  \cup [type: {"action_request"}, to: SUBSET Sessions, hand: Nat, call: Nat,
        min_raise: Nat, max_raise: Nat]
  \cup [type: {"hand_completed"}, to: SUBSET Sessions,
        listed: SUBSET Players, stacks: [Players -> Nat]]

Message(type, receivers) == [type |-> type, to |-> receivers]

\* broadcastJson: every session in player_sessions_
Broadcast(type, players) == Message(type, {players[p] : p \in Players} \ {NoSession})

\* What the broadcasts of the handlers come to; a payload is kept where the bot
\* client reads it.
BroadcastHandStarted == Broadcast("hand_started", toSession)
BroadcastActionApplied == Broadcast("action_applied", toSession)
BroadcastPlayerRemoved == Broadcast("player_removed", toSession)

\* updated_stacks lists the hand's players, with the stacks before the pot is paid
BroadcastHandCompleted(t) ==
  [type |-> "hand_completed", to |-> Broadcast("hand_completed", toSession).to,
   listed |-> {t.hand.players[i] : i \in Seats} \cap Players, stacks |-> t.stack]

\* Mutant: the difference may be negative.
CallAmountSigned(h) == h.bets[TM!Other(h.turn)] - h.bets[h.turn]

\* The highest bet less that of the player to act
CallAmount(h) ==
  IF h.bets[TM!Other(h.turn)] > h.bets[h.turn]
  THEN h.bets[TM!Other(h.turn)] - h.bets[h.turn] ELSE 0

\* sendActionRequest to the player to act: nothing is sent without a session
ActionRequest(t) ==
  LET p == t.hand.players[t.hand.turn]
  IN IF p \notin t.roster \/ toSession[p] = NoSession THEN <<>>
     ELSE <<[type |-> "action_request", to |-> {toSession[p]}, hand |-> t.hand.number,
             call |-> CallAmount(t.hand), min_raise |-> t.hand.min_raise,
             max_raise |-> t.stack[p]]>>

Handled(s, messages) == last' = [from |-> s, sent |-> messages]

-----------------------------------------------------------------------------
Init ==
  /\ table = TM!EmptyTable
  /\ timers = PC!NoTimers
  /\ toPlayer = [s \in Sessions |-> NoPlayer]
  /\ toSession = [p \in Players |-> NoSession]
  /\ link = [s \in Sessions |-> "closed"]
  /\ crashed = FALSE
  /\ last = [from |-> NoSession, sent |-> <<>>]

Running(s) == ~crashed /\ link[s] = "open"

-----------------------------------------------------------------------------
(* Sessions                                                                *)

\* sendWelcome after an accept: an id in no map and at no seat is as good as new
Welcome(s, p) ==
  /\ ~crashed
  /\ link[s] = "closed"
  /\ toSession[p] = NoSession /\ p \notin table.roster
  /\ link' = [link EXCEPT ![s] = "open"]
  /\ toSession' = [toSession EXCEPT ![p] = s]
  /\ toPlayer' = [toPlayer EXCEPT ![s] = p]
  /\ Handled(s, <<[type |-> "welcome", to |-> {s}, player |-> p]>>)
  /\ UNCHANGED <<table, timers, crashed>>

\* Mutants: only player_sessions_ loses its entry; removeSession is not called.
SessionHalfRemoved(p) ==
  /\ toSession' = [toSession EXCEPT ![p] = NoSession]
  /\ UNCHANGED toPlayer

SessionKept(p) == UNCHANGED <<toPlayer, toSession>>

\* removeSession erases the entry of the session that the id maps to.
SessionRemoved(p) ==
  /\ toPlayer' = [toPlayer EXCEPT ![toSession[p]] = NoPlayer]
  /\ toSession' = [toSession EXCEPT ![p] = NoSession]

\* onDisconnect
Lost(s) ==
  LET p == toPlayer[s]
  IN \/ /\ p = NoPlayer
        /\ Handled(NoSession, <<>>)
        /\ UNCHANGED <<table, timers, toPlayer, toSession>>
     \/ /\ p # NoPlayer /\ p \notin table.roster
        /\ SessionRemoved(p)
        /\ Handled(NoSession, <<>>)
        /\ UNCHANGED <<table, timers>>
     \/ /\ p \in table.roster
        /\ SessionRemoved(p)
        /\ table' = TM!PlayerDisconnected(table, p)
        /\ timers' = PC!TimersAtDisconnect(timers, p)
        /\ Handled(NoSession, <<Broadcast("player_disconnected", toSession')>>)

\* on_read with an error: the read loop ends
ReadFailed(s) ==
  /\ Running(s)
  /\ link' = [link EXCEPT ![s] = "closed"]
  /\ Lost(s)
  /\ UNCHANGED crashed

\* on_pong_timeout, on_pong with an error: the read loop goes on
PingFailed(s) ==
  /\ Running(s)
  /\ toPlayer[s] # NoPlayer
  /\ Lost(s)
  /\ UNCHANGED <<link, crashed>>

-----------------------------------------------------------------------------
(* handleJoin                                                              *)

\* given is the payload's player_id; a message without one, or with one that
\* cannot rejoin, is a plain join.
CanRejoin(given) == given \in table.roster /\ table.status[given] = "DISCONNECTED"

\* The player_already_connected reply needs a disconnected player with a
\* session, which AwayHasNoSession excludes.
Rejoin(s, p) ==
  /\ Running(s)
  /\ CanRejoin(p)
  /\ toSession' = [q \in Players |->
       IF q = p THEN s ELSE IF q = toPlayer[s] THEN NoSession ELSE toSession[q]]
  /\ toPlayer' = [toPlayer EXCEPT ![s] = p]
  /\ timers' = PC!TimersAtReconnect(timers, p)
  /\ table' = TM!PlayerReconnected(table, p)
  /\ Handled(s, <<Broadcast("player_reconnected", toSession'), Message("join_ack", {s})>>)
  /\ UNCHANGED <<link, crashed>>

FreeSeat == IF table.seat[0] = NoPlayer THEN 0 ELSE 1

\* What assignSeat needs holds of the seat handleJoin picks for an unseated id,
\* and startHand succeeds on every table that is ready.
TakeSeat(s) ==
  LET p == toPlayer[s]
      seated == TM!Seated(table, p, FreeSeat)
  IN /\ Running(s)
     /\ p # NoPlayer
     /\ TM!CanAssignSeat(table, p, FreeSeat)
     /\ \/ /\ ~TM!ReadyForHand(seated)
           /\ table' = seated
           /\ Handled(s, <<Message("join_ack", {s})>>)
        \/ /\ TM!ReadyForHand(seated)
           /\ table' = TM!HandStarted(seated)
           /\ Handled(s, <<Message("join_ack", {s}), BroadcastHandStarted>>)
     /\ UNCHANGED <<timers, toPlayer, toSession, link, crashed>>

\* Already seated; no id, or no seat left.
JoinAnswered(s) ==
  /\ Running(s)
  /\ \/ /\ toPlayer[s] \in table.roster
        /\ Handled(s, <<Message("join_ack", {s})>>)
     \/ /\ toPlayer[s] \notin table.roster
        /\ toPlayer[s] = NoPlayer \/ \A i \in Seats : table.seat[i] # NoPlayer
        /\ Handled(s, <<Message("error", {s})>>)
  /\ UNCHANGED <<table, timers, toPlayer, toSession, link, crashed>>

-----------------------------------------------------------------------------
(* handleAction                                                            *)

\* isHandComplete reads folded[i] for both players whatever the vector's size.
\* Beyond it the read is undefined: it faults (an empty vector<bool> has no
\* storage), or yields any bit.
Missing(h) == {s \in Seats : s >= h.sized}
ReadAsFolded(h) == {h.folded \cup X : X \in SUBSET Missing(h)}

\* Mutant: < instead of <=.
HandCompleteStrict(folded) == Cardinality(Seats \ folded) < 1

HandComplete(folded) == Cardinality(Seats \ folded) <= 1

\* Mutant: an early return without a reply.
ActionRefusedSilently(s) ==
  /\ Running(s)
  /\ Handled(s, <<>>)
  /\ UNCHANGED <<table, timers, toPlayer, toSession, link, crashed>>

\* A malformed message of any type, an action without a registration or against
\* another hand, or one that validateAction refuses.
ActionRefused(s) ==
  /\ Running(s)
  /\ Handled(s, <<Message("error", {s})>>)
  /\ UNCHANGED <<table, timers, toPlayer, toSession, link, crashed>>

\* Mutant: processPlayerAction applies without validating.
AcceptsUnchecked(p, action, amount) ==
  /\ p \in table.roster
  /\ table.hand # NoHand
  /\ TM!CanAct(table, p)

\* TableManager::processPlayerAction finds the player and validates the action.
Accepts(p, action, amount) ==
  /\ p \in table.roster
  /\ table.hand # NoHand
  /\ TM!ValidAction(table, p, action, amount)

\* An applied action is broadcast and the next player is asked before the hand
\* is found complete; endHand throws on a showdown, which leaves the action in
\* force and answers with an error.
ActionApplied(s, action, amount) ==
  LET p == toPlayer[s]
      after == TM!Acted(table, p, action, amount)
      sent == <<BroadcastActionApplied>> \o ActionRequest(after)
      verdicts == {HandComplete(folded) : folded \in ReadAsFolded(after.hand)}
  IN /\ Running(s)
     /\ Accepts(p, action, amount)
     /\ \/ /\ Missing(after.hand) # {}
           /\ crashed' = TRUE
           /\ Handled(s, <<>>)
           /\ UNCHANGED table
        \/ /\ FALSE \in verdicts
           /\ table' = after
           /\ Handled(s, sent)
           /\ UNCHANGED crashed
        \/ /\ TRUE \in verdicts
           /\ ~TM!ShowdownThrows(after.hand)
           /\ table' = TM!HandEnded(after)
           /\ Handled(s, Append(sent, BroadcastHandCompleted(after)))
           /\ UNCHANGED crashed
        \/ /\ TRUE \in verdicts
           /\ TM!ShowdownThrows(after.hand)
           /\ table' = after
           /\ Handled(s, Append(sent, Message("error", {s})))
           /\ UNCHANGED crashed
     /\ UNCHANGED <<timers, toPlayer, toSession, link>>

-----------------------------------------------------------------------------
(* handleTopUp and handlePing                                              *)

TopUp(s) ==
  LET p == toPlayer[s]
  IN /\ Running(s)
     /\ \/ /\ p \in table.roster
           /\ TM!PlayerToppedUp(table, p).bank <= MaxBank
           /\ table' = TM!PlayerToppedUp(table, p)
           /\ Handled(s, <<Message("top_up_ack", {s})>>)
        \/ /\ p \notin table.roster
           /\ Handled(s, <<Message("error", {s})>>)
           /\ UNCHANGED table
     /\ UNCHANGED <<timers, toPlayer, toSession, link, crashed>>

Ping(s) ==
  /\ Running(s)
  /\ Handled(s, <<Message("pong", {s})>>)
  /\ UNCHANGED <<table, timers, toPlayer, toSession, link, crashed>>

-----------------------------------------------------------------------------
(* Timers                                                                  *)

Expire(kind, p) ==
  /\ ~crashed
  /\ PC!CanExpire(timers, kind, p)
  /\ timers' = PC!Expired(timers, kind, p)
  /\ UNCHANGED <<table, toPlayer, toSession, link, crashed, last>>

\* The timers are those of seated players, whom nothing removes.
GraceTimerExpired(p) ==
  /\ ~crashed
  /\ p \in timers.queued["grace"]
  /\ table' = TM!PlayerSatOut(table, p)
  /\ timers' = PC!TimersAtGraceExpiry(timers, p)
  /\ Handled(NoSession, <<>>)
  /\ UNCHANGED <<toPlayer, toSession, link, crashed>>

\* broadcastPlayerRemoved; the player keeps his seat
RemovalTimerExpired(p) ==
  /\ ~crashed
  /\ p \in timers.queued["removal"]
  /\ timers' = PC!TimersAtRemovalExpiry(timers, p)
  /\ Handled(NoSession, <<BroadcastPlayerRemoved>>)
  /\ UNCHANGED <<table, toPlayer, toSession, link, crashed>>

-----------------------------------------------------------------------------
Next ==
  \/ \E s \in Sessions, p \in Players : Welcome(s, p)
  \/ \E s \in Sessions : ReadFailed(s) \/ PingFailed(s)
  \/ \E s \in Sessions, given \in Players : Rejoin(s, given)
  \/ \E s \in Sessions : TakeSeat(s) \/ JoinAnswered(s)
  \/ \E s \in Sessions : ActionRefused(s)
  \/ \E s \in Sessions, a \in {"fold", "call", "raise"}, n \in Amounts : ActionApplied(s, a, n)
  \/ \E s \in Sessions : TopUp(s) \/ Ping(s)
  \/ \E p \in Players, k \in PC!Kinds : Expire(k, p)
  \/ \E p \in Players : GraceTimerExpired(p) \/ RemovalTimerExpired(p)

Spec == Init /\ [][Next]_vars

\* io_context::run serves the timers; clients owe the server nothing.
FairSpec ==
  /\ Spec
  /\ \A p \in Players :
       /\ \A k \in PC!Kinds : WF_vars(Expire(k, p))
       /\ WF_vars(GraceTimerExpired(p))
       /\ WF_vars(RemovalTimerExpired(p))

-----------------------------------------------------------------------------
(* Properties                                                              *)

TypeOK ==
  /\ table \in TM!Tables
  /\ timers \in PC!Timers
  /\ toPlayer \in [Sessions -> Players \cup {NoPlayer}]
  /\ toSession \in [Players -> Sessions \cup {NoSession}]
  /\ link \in [Sessions -> {"open", "closed"}]
  /\ crashed \in BOOLEAN
  /\ last \in [from: Sessions \cup {NoSession}, sent: Seq(Messages)]

\* registerSession, removeSession, handleJoin: the two session maps are inverse
\* to each other, so no handler acts for a player through a session that left.
MapsInverse ==
  \A s \in Sessions, p \in Players : toPlayer[s] = p <=> toSession[p] = s

\* Only an open session is mapped, and a disconnected player has none: the
\* player_already_connected reply of handleJoin cannot happen.
AwayHasNoSession ==
  /\ \A s \in Sessions : toPlayer[s] # NoPlayer => link[s] = "open"
  /\ \A p \in table.roster : table.status[p] = "DISCONNECTED" => toSession[p] = NoSession

\* The handlers use the table as it wants to be used: chips, seats, pots and
\* pointers stay in step through every composition of its operations.
TableSound == TM!Sound(table)

\* In the server both pointers of a running hand are the seated players, nobody
\* has folded between two handlers, and no pot was ever burned: what the table
\* alone cannot promise (TableManager), its only caller does.
HandIsOpen ==
  /\ table.hand # NoHand => table.hand.players = table.seat /\ table.hand.folded = {}
  /\ table.burned = 0

\* Every message is answered: unless the process dies, whatever a session sent
\* comes back to it as a reply, an error or a broadcast.
EveryMessageAnswered ==
  [][~crashed' /\ last'.from # NoSession =>
       \E i \in DOMAIN last'.sent : last'.from \in last'.sent[i].to]_vars

\* The disconnection machinery inside the server is the one PlayerConnection
\* describes: onDisconnect and onReconnect are called for the players they may
\* be called for, and nothing else touches the status or the timers.
Connections == PC!Spec

\* The server keeps the chip ledger through whole handlers.
Ledger == TM!LedgerSpec

\* A client's message never brings the server down.
NeverCrashes == ~crashed

\* A player who stays away frees his seat in the end.
AwayFreesSeat ==
  \A p \in Players :
    p \in table.roster /\ table.status[p] = "DISCONNECTED"
      ~> (p \notin table.roster \/ table.status[p] = "CONNECTED")

=============================================================================
