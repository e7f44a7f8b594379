--------------------------- MODULE ConnectionHistory ---------------------------
(* PlayerConnection with the history its deeper properties speak of.          *)
EXTENDS PlayerConnection

VARIABLES
  notified,      \* players whose removal was broadcast since they last came or went
  raced          \* players whose last reconnection ran over a queued timer handler

hvars == <<vars, notified, raced>>

\* Players with a timer handler that cancelTimers can no longer stop.
Overtaken == {p \in Players : \E k \in Kinds : p \in timers.queued[k]}

HInit == Init /\ notified = {} /\ raced = {}

HDisconnect(p) ==
  /\ Disconnect(p)
  /\ notified' = notified \ {p}
  /\ UNCHANGED raced

HReconnect(p) ==
  /\ Reconnect(p)
  /\ notified' = notified \ {p}
  /\ raced' = (raced \ {p}) \cup ({p} \cap Overtaken)

HExpire(kind, p) == Expire(kind, p) /\ UNCHANGED <<notified, raced>>

HGraceTimerExpired(p) ==
  /\ GraceTimerExpired(p)
  /\ notified' = notified \ {p}
  /\ UNCHANGED raced

\* on_player_removed_callback_, GameSession::broadcastPlayerRemoved
HRemovalTimerExpired(p) ==
  /\ RemovalTimerExpired(p)
  /\ notified' = notified \cup {p}
  /\ UNCHANGED raced

HNext ==
  \E p \in Players :
    \/ HDisconnect(p)
    \/ HReconnect(p)
    \/ \E k \in Kinds : HExpire(k, p)
    \/ HGraceTimerExpired(p)
    \/ HRemovalTimerExpired(p)

HSpec == HInit /\ [][HNext]_hvars

\* io_context::run serves every timer and every handler; clients owe nothing.
FairHSpec ==
  /\ HSpec
  /\ \A p \in Players :
       /\ \A k \in Kinds : WF_hvars(HExpire(k, p))
       /\ WF_hvars(HGraceTimerExpired(p))
       /\ WF_hvars(HRemovalTimerExpired(p))

-----------------------------------------------------------------------------
(* Properties                                                              *)

HTypeOK == TypeOK /\ notified \subseteq Players /\ raced \subseteq Players

\* onGraceTimerExpired: who sits out has the removal timer on his heels until
\* his removal was announced.
SitOutIsTimed ==
  \A p \in Players : sitting_out[p] => p \in Pending("removal") \cup notified

\* cancelTimers: a connected player who did not come back over a queued handler
\* of his own does not sit out and has no timer that could touch him.
CleanReturn ==
  \A p \in Players :
    status[p] = "CONNECTED" /\ p \notin raced =>
      /\ ~sitting_out[p]
      /\ \A k \in Kinds : p \notin Pending(k)

\* player_state.cpp keeps to the state machine of data-model.md for everyone who
\* did not come back over a queued handler: the race is the only way off it.
LifecycleUnlessRaced ==
  [][\A p \in Players \ raced :
       Stage(p)' # Stage(p) => Stage(p)' \in NextStages(Stage(p))]_hvars

\* A player who stays away is announced as removed in the end.
AwayIsAnnounced ==
  \A p \in Players :
    status[p] = "DISCONNECTED" ~> (p \in notified \/ status[p] = "CONNECTED")

=============================================================================
