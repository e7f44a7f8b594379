--------------------------- MODULE PlayerConnection ---------------------------
(***************************************************************************)
(* Disconnections: server/player_state.cpp over the timers of              *)
(* server/connection_manager.cpp.                                          *)
(*                                                                         *)
(* A steady_timer that expires does not run its handler, it queues it on   *)
(* the io_context with a success code; cancel() and the destructor reach   *)
(* only a wait that is still pending.  Any handler that runs in between    *)
(* (a join, a socket error) therefore runs with the timer handler already  *)
(* on its way.  Durations are abstracted: a pending wait may expire at any *)
(* time, which covers every grace and removal time main.cpp accepts.       *)
(***************************************************************************)
CONSTANT Players

VARIABLES
  timers,        \* ConnectionManager::timers_ and the handlers the io_context holds
  status,        \* Player::connection_status
  sitting_out    \* Player::is_sitting_out

vars == <<timers, status, sitting_out>>

Kinds == {"grace", "removal"}

\* held: the entry of timers_ owns a timer; armed: its wait is pending; queued:
\* an expired wait's handler has not run yet.
Timers == [held: [Kinds -> SUBSET Players], armed: [Kinds -> SUBSET Players],
           queued: [Kinds -> SUBSET Players]]

NoTimers ==
  [held |-> [k \in Kinds |-> {}], armed |-> [k \in Kinds |-> {}],
   queued |-> [k \in Kinds |-> {}]]

-----------------------------------------------------------------------------
(* ConnectionManager                                                       *)

\* Mutant: the wait is started only when the timer object is new.
StartedOnce(t, kind, p) ==
  [t EXCEPT !.held[kind] = @ \cup {p},
            !.armed[kind] = IF p \in t.held[kind] THEN @ ELSE @ \cup {p}]

\* startGraceTimer, startRemovalTimer: a pending wait is cancelled and started anew.
Started(t, kind, p) == [t EXCEPT !.held[kind] = @ \cup {p}, !.armed[kind] = @ \cup {p}]

\* Mutant: only the grace timer is cancelled.
CancelledGrace(t, p) ==
  [t EXCEPT !.held = [k \in Kinds |-> t.held[k] \ {p}],
            !.armed["grace"] = @ \ {p}]

\* Mutant: only the removal timer is cancelled.
CancelledRemoval(t, p) ==
  [t EXCEPT !.held = [k \in Kinds |-> t.held[k] \ {p}],
            !.armed["removal"] = @ \ {p}]

\* cancelTimers erases the entry; a queued handler still runs.
Cancelled(t, p) ==
  [t EXCEPT !.held = [k \in Kinds |-> t.held[k] \ {p}],
            !.armed = [k \in Kinds |-> t.armed[k] \ {p}]]

\* Mutant: && instead of ||.
HasBothTimers(t, p) == \A k \in Kinds : p \in t.held[k]

HasActiveTimers(t, p) == \E k \in Kinds : p \in t.held[k]

\* boost::asio: a pending wait expires and its handler is queued.  io_context
\* runs what is queued before it looks for the next expiry, so a kind has at most
\* one handler on its way.
CanExpire(t, kind, p) == p \in t.armed[kind] /\ p \notin t.queued[kind]

Expired(t, kind, p) ==
  [t EXCEPT !.armed[kind] = @ \ {p}, !.queued[kind] = @ \cup {p}]

HandlerTaken(t, kind, p) == [t EXCEPT !.queued[kind] = @ \ {p}]

-----------------------------------------------------------------------------
(* PlayerStateManager: what its operations do to the timers                *)

\* Mutant: the timers are cancelled after the grace timer was started.
TimersAtDisconnectCancelled(t, p) == Cancelled(Started(t, "grace", p), p)

TimersAtDisconnect(t, p) == Started(t, "grace", p)

TimersAtReconnect(t, p) == Cancelled(t, p)

\* Mutant: a grace period that ends starts no removal timer.
TimersAtGraceExpiryOnly(t, p) == HandlerTaken(t, "grace", p)

TimersAtGraceExpiry(t, p) == Started(HandlerTaken(t, "grace", p), "removal", p)

\* The removal timer's callback only broadcasts; onRemovalTimerExpired, which
\* would call removePlayer, has no caller.
TimersAtRemovalExpiry(t, p) == HandlerTaken(t, "removal", p)

-----------------------------------------------------------------------------
Init ==
  /\ timers = NoTimers
  /\ status = [p \in Players |-> "CONNECTED"]
  /\ sitting_out = [p \in Players |-> FALSE]

\* GameSession::onDisconnect calls it for the player of a mapped session only.
Disconnect(p) ==
  /\ status[p] = "CONNECTED"
  /\ status' = [status EXCEPT ![p] = "DISCONNECTED"]
  /\ sitting_out' = [sitting_out EXCEPT ![p] = FALSE]
  /\ timers' = TimersAtDisconnect(timers, p)

\* Mutant: the status stops at RECONNECTING, the intermediate of data-model.md.
ReconnectHalfway(p) ==
  /\ status[p] = "DISCONNECTED"
  /\ status' = [status EXCEPT ![p] = "RECONNECTING"]
  /\ sitting_out' = [sitting_out EXCEPT ![p] = FALSE]
  /\ timers' = TimersAtReconnect(timers, p)

\* handleJoin calls it for a disconnected player, after a cancelTimers of its own.
Reconnect(p) ==
  /\ status[p] = "DISCONNECTED"
  /\ status' = [status EXCEPT ![p] = "CONNECTED"]
  /\ sitting_out' = [sitting_out EXCEPT ![p] = FALSE]
  /\ timers' = TimersAtReconnect(timers, p)

Expire(kind, p) ==
  /\ CanExpire(timers, kind, p)
  /\ timers' = Expired(timers, kind, p)
  /\ UNCHANGED <<status, sitting_out>>

\* onGraceTimerExpired does not look at connection_status.
GraceTimerExpired(p) ==
  /\ p \in timers.queued["grace"]
  /\ timers' = TimersAtGraceExpiry(timers, p)
  /\ sitting_out' = [sitting_out EXCEPT ![p] = TRUE]
  /\ UNCHANGED status

RemovalTimerExpired(p) ==
  /\ p \in timers.queued["removal"]
  /\ timers' = TimersAtRemovalExpiry(timers, p)
  /\ UNCHANGED <<status, sitting_out>>

Next ==
  \E p \in Players :
    \/ Disconnect(p)
    \/ Reconnect(p)
    \/ \E k \in Kinds : Expire(k, p)
    \/ GraceTimerExpired(p)
    \/ RemovalTimerExpired(p)

Spec == Init /\ [][Next]_vars

-----------------------------------------------------------------------------
(* Properties                                                              *)

TypeOK ==
  /\ timers \in Timers
  /\ status \in [Players -> {"CONNECTED", "DISCONNECTED"}]
  /\ sitting_out \in [Players -> BOOLEAN]

Pending(kind) == timers.armed[kind] \cup timers.queued[kind]

\* onDisconnect, onGraceTimerExpired: a player on his way out always has the
\* timer that takes him further: the grace timer until he sits out.
AwayIsTimed ==
  \A p \in Players : status[p] = "DISCONNECTED" /\ ~sitting_out[p] => p \in Pending("grace")

\* startGraceTimer, startRemovalTimer, cancelTimers: hasActiveTimers never denies
\* a wait that is still pending, so cancelTimers can reach every one.
NoTimerNoWait ==
  \A p \in Players :
    ~HasActiveTimers(timers, p) => \A k \in Kinds : p \notin timers.armed[k]

\* A player's stage, and the stages that may follow it by data-model.md, which
\* takes a return in two steps; that handleJoin also admits who sits out is added.
Stage(p) == IF sitting_out[p] THEN "SITTING_OUT" ELSE status[p]

NextStages(stage) ==
  CASE stage = "CONNECTED" -> {"DISCONNECTED"}
    [] stage = "DISCONNECTED" -> {"CONNECTED", "SITTING_OUT"}
    [] stage = "SITTING_OUT" -> {"CONNECTED"}

\* onGraceTimerExpired, onReconnect, onDisconnect: every change of stage is a step
\* of that state machine; nobody sits out without having been disconnected.
FollowsLifecycle ==
  [][\A p \in Players : Stage(p)' # Stage(p) => Stage(p)' \in NextStages(Stage(p))]_vars

=============================================================================
