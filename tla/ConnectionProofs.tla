--------------------------- MODULE ConnectionProofs ---------------------------
(* Theorems about PlayerConnection and ConnectionHistory, for every set of    *)
(* players.                                                                   *)
EXTENDS ConnectionHistory, TLAPS

-----------------------------------------------------------------------------
(* What the operations do to the timers of each player                        *)

LEMMA NoTimersType == NoTimers \in Timers
BY DEF NoTimers, Timers

LEMMA StartedType ==
  ASSUME NEW t \in Timers, NEW kind \in Kinds, NEW p \in Players
  PROVE  Started(t, kind, p) \in Timers
BY DEF Started, Timers

LEMMA StartedEffect ==
  ASSUME NEW t \in Timers, NEW kind \in Kinds, NEW p \in Players, NEW k \in Kinds
  PROVE  /\ Started(t, kind, p).queued = t.queued
         /\ k = kind => Started(t, kind, p).armed[k] = t.armed[k] \cup {p}
         /\ k = kind => Started(t, kind, p).held[k] = t.held[k] \cup {p}
         /\ k # kind => Started(t, kind, p).armed[k] = t.armed[k]
         /\ k # kind => Started(t, kind, p).held[k] = t.held[k]
BY DEF Started, Timers

LEMMA CancelledType ==
  ASSUME NEW t \in Timers, NEW p \in Players
  PROVE  Cancelled(t, p) \in Timers
BY DEF Cancelled, Timers

LEMMA CancelledEffect ==
  ASSUME NEW t \in Timers, NEW p \in Players, NEW k \in Kinds
  PROVE  /\ Cancelled(t, p).queued = t.queued
         /\ Cancelled(t, p).armed[k] = t.armed[k] \ {p}
         /\ Cancelled(t, p).held[k] = t.held[k] \ {p}
BY DEF Cancelled, Timers

LEMMA ExpiredType ==
  ASSUME NEW t \in Timers, NEW kind \in Kinds, NEW p \in Players
  PROVE  Expired(t, kind, p) \in Timers
BY DEF Expired, Timers

LEMMA ExpiredEffect ==
  ASSUME NEW t \in Timers, NEW kind \in Kinds, NEW p \in Players, NEW k \in Kinds
  PROVE  /\ Expired(t, kind, p).held = t.held
         /\ k = kind => Expired(t, kind, p).armed[k] = t.armed[k] \ {p}
         /\ k = kind => Expired(t, kind, p).queued[k] = t.queued[k] \cup {p}
         /\ k # kind => Expired(t, kind, p).armed[k] = t.armed[k]
         /\ k # kind => Expired(t, kind, p).queued[k] = t.queued[k]
BY DEF Expired, Timers

LEMMA HandlerTakenType ==
  ASSUME NEW t \in Timers, NEW kind \in Kinds, NEW p \in Players
  PROVE  HandlerTaken(t, kind, p) \in Timers
BY DEF HandlerTaken, Timers

LEMMA HandlerTakenEffect ==
  ASSUME NEW t \in Timers, NEW kind \in Kinds, NEW p \in Players, NEW k \in Kinds
  PROVE  /\ HandlerTaken(t, kind, p).held = t.held
         /\ HandlerTaken(t, kind, p).armed = t.armed
         /\ k = kind => HandlerTaken(t, kind, p).queued[k] = t.queued[k] \ {p}
         /\ k # kind => HandlerTaken(t, kind, p).queued[k] = t.queued[k]
BY DEF HandlerTaken, Timers

LEMMA KindsFact == Kinds = {"grace", "removal"} /\ "grace" # "removal"
BY DEF Kinds

-----------------------------------------------------------------------------
(* The invariant of the component                                             *)

LEMMA TypeStep == TypeOK /\ [Next]_vars => TypeOK'
<1> SUFFICES ASSUME TypeOK, [Next]_vars PROVE TypeOK'
  OBVIOUS
<1> USE KindsFact DEF TypeOK
<1>1. ASSUME NEW p \in Players, Disconnect(p) PROVE TypeOK'
  BY <1>1, StartedType DEF Disconnect, TimersAtDisconnect
<1>2. ASSUME NEW p \in Players, Reconnect(p) PROVE TypeOK'
  BY <1>2, CancelledType DEF Reconnect, TimersAtReconnect
<1>3. ASSUME NEW p \in Players, NEW k \in Kinds, Expire(k, p) PROVE TypeOK'
  BY <1>3, ExpiredType DEF Expire
<1>4. ASSUME NEW p \in Players, GraceTimerExpired(p) PROVE TypeOK'
  <2>1. HandlerTaken(timers, "grace", p) \in Timers
    BY HandlerTakenType
  <2> QED
    BY <1>4, <2>1, StartedType DEF GraceTimerExpired, TimersAtGraceExpiry
<1>5. ASSUME NEW p \in Players, RemovalTimerExpired(p) PROVE TypeOK'
  BY <1>5, HandlerTakenType DEF RemovalTimerExpired, TimersAtRemovalExpiry
<1>6. CASE UNCHANGED vars
  BY <1>6 DEF vars
<1> QED
  BY <1>1, <1>2, <1>3, <1>4, <1>5, <1>6 DEF Next

\* What a grace expiry leaves: the removal timer runs.
LEMMA GraceExpiryTimers ==
  ASSUME NEW t \in Timers, NEW p \in Players
  PROVE  LET after == TimersAtGraceExpiry(t, p)
         IN /\ after.armed["grace"] = t.armed["grace"]
            /\ after.armed["removal"] = t.armed["removal"] \cup {p}
            /\ after.queued["grace"] = t.queued["grace"] \ {p}
            /\ after.queued["removal"] = t.queued["removal"]
            /\ after.held["grace"] = t.held["grace"]
            /\ after.held["removal"] = t.held["removal"] \cup {p}
<1>1. HandlerTaken(t, "grace", p) \in Timers
  BY HandlerTakenType, KindsFact
<1>2. /\ "grace" \in Kinds /\ "removal" \in Kinds /\ "grace" # "removal"
  BY KindsFact
<1>3. /\ HandlerTaken(t, "grace", p).held = t.held
      /\ HandlerTaken(t, "grace", p).armed = t.armed
      /\ HandlerTaken(t, "grace", p).queued["grace"] = t.queued["grace"] \ {p}
      /\ HandlerTaken(t, "grace", p).queued["removal"] = t.queued["removal"]
  BY <1>2, HandlerTakenEffect
<1> QED
  BY <1>1, <1>2, <1>3, StartedEffect DEF TimersAtGraceExpiry

LEMMA AwayStep == TypeOK /\ AwayIsTimed /\ [Next]_vars => AwayIsTimed'
<1> SUFFICES ASSUME TypeOK, AwayIsTimed, [Next]_vars,
                    NEW q \in Players, status'[q] = "DISCONNECTED", ~sitting_out'[q]
             PROVE  q \in timers'.armed["grace"] \cup timers'.queued["grace"]
  BY DEF AwayIsTimed, Pending
<1> DEFINE Timed == q \in timers'.armed["grace"] \cup timers'.queued["grace"]
<1>0. /\ timers \in Timers /\ status \in [Players -> {"CONNECTED", "DISCONNECTED"}]
      /\ sitting_out \in [Players -> BOOLEAN] /\ "grace" \in Kinds /\ "removal" \in Kinds
      /\ "grace" # "removal"
  BY KindsFact DEF TypeOK
<1>a. status[q] = "DISCONNECTED" /\ ~sitting_out[q] => q \in timers.armed["grace"] \cup timers.queued["grace"]
  BY DEF AwayIsTimed, Pending
<1>1. ASSUME NEW p \in Players, Disconnect(p) PROVE Timed
  <2>1. /\ timers'.armed["grace"] = timers.armed["grace"] \cup {p}
        /\ timers'.queued = timers.queued
    BY <1>0, <1>1, StartedEffect DEF Disconnect, TimersAtDisconnect
  <2> QED
    BY <1>0, <1>1, <1>a, <2>1 DEF Disconnect
<1>2. ASSUME NEW p \in Players, Reconnect(p) PROVE Timed
  <2>1. /\ timers'.armed["grace"] = timers.armed["grace"] \ {p}
        /\ timers'.queued = timers.queued
    BY <1>0, <1>2, CancelledEffect DEF Reconnect, TimersAtReconnect
  <2> QED
    BY <1>0, <1>2, <1>a, <2>1 DEF Reconnect
<1>3. ASSUME NEW p \in Players, NEW k \in Kinds, Expire(k, p) PROVE Timed
  <2>1. timers' = Expired(timers, k, p)
    BY <1>3 DEF Expire
  <2>2. CASE k = "grace"
    <3>1. /\ timers'.armed["grace"] = timers.armed["grace"] \ {p}
          /\ timers'.queued["grace"] = timers.queued["grace"] \cup {p}
      BY <1>0, <2>1, <2>2, ExpiredEffect
    <3> QED
      BY <1>3, <1>a, <3>1 DEF Expire
  <2>3. CASE k # "grace"
    <3>1. /\ timers'.armed["grace"] = timers.armed["grace"]
          /\ timers'.queued["grace"] = timers.queued["grace"]
      BY <1>0, <2>1, <2>3, ExpiredEffect
    <3> QED
      BY <1>3, <1>a, <3>1 DEF Expire
  <2> QED
    BY <2>2, <2>3
<1>4. ASSUME NEW p \in Players, GraceTimerExpired(p) PROVE Timed
  <2>1. /\ timers'.armed["grace"] = timers.armed["grace"]
        /\ timers'.queued["grace"] = timers.queued["grace"] \ {p}
    BY <1>0, <1>4, GraceExpiryTimers DEF GraceTimerExpired
  <2> QED
    BY <1>0, <1>4, <1>a, <2>1 DEF GraceTimerExpired
<1>5. ASSUME NEW p \in Players, RemovalTimerExpired(p) PROVE Timed
  <2>1. /\ timers'.armed = timers.armed
        /\ timers'.queued["grace"] = timers.queued["grace"]
    BY <1>0, <1>5, HandlerTakenEffect DEF RemovalTimerExpired, TimersAtRemovalExpiry
  <2> QED
    BY <1>0, <1>5, <1>a, <2>1 DEF RemovalTimerExpired
<1>6. CASE UNCHANGED vars
  BY <1>6, <1>a DEF vars
<1> QED
  BY <1>1, <1>2, <1>3, <1>4, <1>5, <1>6 DEF Next

\* A wait is pending only for a timer that timers_ holds: stronger than
\* NoTimerNoWait, and preserved by every step.
ArmedIsHeld == \A k \in Kinds : timers.armed[k] \subseteq timers.held[k]

LEMMA ArmedIsHeldMeaning == ArmedIsHeld => NoTimerNoWait
BY DEF ArmedIsHeld, NoTimerNoWait, HasActiveTimers

LEMMA ArmedIsHeldStep == TypeOK /\ ArmedIsHeld /\ [Next]_vars => ArmedIsHeld'
<1> SUFFICES ASSUME TypeOK, ArmedIsHeld, [Next]_vars, NEW c \in Kinds
             PROVE  timers'.armed[c] \subseteq timers'.held[c]
  BY DEF ArmedIsHeld
<1> DEFINE Held == timers'.armed[c] \subseteq timers'.held[c]
<1>0. timers \in Timers
  BY DEF TypeOK
<1>a. timers.armed[c] \subseteq timers.held[c]
  BY DEF ArmedIsHeld
<1>1. ASSUME NEW p \in Players, Disconnect(p) PROVE Held
  <2>1. timers' = Started(timers, "grace", p)
    BY <1>1 DEF Disconnect, TimersAtDisconnect
  <2>2. CASE c = "grace"
    BY <1>0, <1>a, <2>1, <2>2, StartedEffect, KindsFact
  <2>3. CASE c # "grace"
    BY <1>0, <1>a, <2>1, <2>3, StartedEffect, KindsFact
  <2> QED
    BY <2>2, <2>3
<1>2. ASSUME NEW p \in Players, Reconnect(p) PROVE Held
  <2>1. /\ timers'.armed[c] = timers.armed[c] \ {p}
        /\ timers'.held[c] = timers.held[c] \ {p}
    BY <1>0, <1>2, CancelledEffect DEF Reconnect, TimersAtReconnect
  <2> QED
    BY <1>a, <2>1
<1>3. ASSUME NEW p \in Players, NEW k \in Kinds, Expire(k, p) PROVE Held
  <2>1. /\ timers'.armed[c] \subseteq timers.armed[c]
        /\ timers'.held = timers.held
    BY <1>0, <1>3, ExpiredEffect DEF Expire
  <2> QED
    BY <1>a, <2>1
<1>4. ASSUME NEW p \in Players, GraceTimerExpired(p) PROVE Held
  BY <1>0, <1>4, <1>a, GraceExpiryTimers, KindsFact DEF GraceTimerExpired
<1>5. ASSUME NEW p \in Players, RemovalTimerExpired(p) PROVE Held
  <2>1. timers'.armed = timers.armed /\ timers'.held = timers.held
    BY <1>0, <1>5, HandlerTakenEffect, KindsFact DEF RemovalTimerExpired, TimersAtRemovalExpiry
  <2> QED
    BY <1>a, <2>1
<1>6. CASE UNCHANGED vars
  BY <1>6, <1>a DEF vars
<1> QED
  BY <1>1, <1>2, <1>3, <1>4, <1>5, <1>6 DEF Next

ConnectionInv == TypeOK /\ AwayIsTimed /\ ArmedIsHeld

LEMMA ConnectionInit == Init => ConnectionInv
<1> SUFFICES ASSUME Init PROVE ConnectionInv
  OBVIOUS
<1>1. TypeOK
  BY NoTimersType DEF Init, TypeOK
<1>2. AwayIsTimed /\ ArmedIsHeld
  BY DEF Init, AwayIsTimed, ArmedIsHeld, NoTimers
<1> QED
  BY <1>1, <1>2 DEF ConnectionInv

LEMMA ConnectionStep == ConnectionInv /\ [Next]_vars => ConnectionInv'
BY TypeStep, AwayStep, ArmedIsHeldStep DEF ConnectionInv

\* PlayerStateManager and ConnectionManager keep their types, never lose the
\* timer that a player on his way out waits for, and hold every pending wait.
THEOREM ConnectionSound == Spec => []ConnectionInv
BY ConnectionInit, ConnectionStep, PTL DEF Spec

\* onDisconnect, onGraceTimerExpired: who is away and not sitting out has the
\* grace timer pending, however disconnections, returns and expiries interleave.
THEOREM AwayTimedTheorem == Spec => []AwayIsTimed
<1>1. ConnectionInv => AwayIsTimed
  BY DEF ConnectionInv
<1> QED
  BY <1>1, ConnectionSound, PTL

\* hasActiveTimers never denies a pending wait.
THEOREM NoTimerNoWaitTheorem == Spec => []NoTimerNoWait
<1>1. ConnectionInv => NoTimerNoWait
  BY ArmedIsHeldMeaning DEF ConnectionInv
<1> QED
  BY <1>1, ConnectionSound, PTL

-----------------------------------------------------------------------------
(* The history                                                                *)

LEMMA HistoryStep == [HNext]_hvars => [Next]_vars
BY DEF HNext, hvars, HDisconnect, HReconnect, HExpire, HGraceTimerExpired,
       HRemovalTimerExpired, Next

HistoryInv == HTypeOK /\ SitOutIsTimed /\ CleanReturn

LEMMA HistoryInit == HInit => HistoryInv
<1> SUFFICES ASSUME HInit PROVE HistoryInv
  OBVIOUS
<1>1. TypeOK
  BY ConnectionInit DEF HInit, ConnectionInv
<1>2. HTypeOK
  BY <1>1 DEF HInit, HTypeOK
<1>3. SitOutIsTimed
  BY DEF HInit, Init, SitOutIsTimed
<1>4. CleanReturn
  BY DEF HInit, Init, CleanReturn, Pending, NoTimers
<1> QED
  BY <1>2, <1>3, <1>4 DEF HistoryInv

LEMMA HTypeStep == HTypeOK /\ [HNext]_hvars => HTypeOK'
<1> SUFFICES ASSUME HTypeOK, [HNext]_hvars PROVE HTypeOK'
  OBVIOUS
<1>1. TypeOK'
  BY HistoryStep, TypeStep DEF HTypeOK
<1>2. notified' \subseteq Players /\ raced' \subseteq Players
  BY DEF HTypeOK, HNext, hvars, HDisconnect, HReconnect, HExpire, HGraceTimerExpired,
         HRemovalTimerExpired
<1> QED
  BY <1>1, <1>2 DEF HTypeOK

LEMMA SitOutStep == HTypeOK /\ SitOutIsTimed /\ [HNext]_hvars => SitOutIsTimed'
<1> SUFFICES ASSUME HTypeOK, SitOutIsTimed, [HNext]_hvars, NEW q \in Players, sitting_out'[q]
             PROVE  q \in timers'.armed["removal"] \cup timers'.queued["removal"] \cup notified'
  BY DEF SitOutIsTimed, Pending
<1> DEFINE Timed == q \in timers'.armed["removal"] \cup timers'.queued["removal"] \cup notified'
<1>0. /\ timers \in Timers /\ sitting_out \in [Players -> BOOLEAN]
      /\ "grace" \in Kinds /\ "removal" \in Kinds /\ "grace" # "removal"
  BY KindsFact DEF HTypeOK, TypeOK
<1>a. sitting_out[q] => q \in timers.armed["removal"] \cup timers.queued["removal"] \cup notified
  BY DEF SitOutIsTimed, Pending
<1>1. ASSUME NEW p \in Players, HDisconnect(p) PROVE Timed
  <2>1. timers' = Started(timers, "grace", p)
    BY <1>1 DEF HDisconnect, Disconnect, TimersAtDisconnect
  <2>2. /\ timers'.armed["removal"] = timers.armed["removal"]
        /\ timers'.queued["removal"] = timers.queued["removal"]
    BY <1>0, <2>1, StartedEffect
  <2> QED
    BY <1>0, <1>1, <1>a, <2>2 DEF HDisconnect, Disconnect
<1>2. ASSUME NEW p \in Players, HReconnect(p) PROVE Timed
  <2>1. timers' = Cancelled(timers, p)
    BY <1>2 DEF HReconnect, Reconnect, TimersAtReconnect
  <2>2. /\ timers'.armed["removal"] = timers.armed["removal"] \ {p}
        /\ timers'.queued["removal"] = timers.queued["removal"]
    BY <1>0, <2>1, CancelledEffect
  <2> QED
    BY <1>0, <1>2, <1>a, <2>2 DEF HReconnect, Reconnect
<1>3. ASSUME NEW p \in Players, NEW k \in Kinds, HExpire(k, p) PROVE Timed
  <2>1. timers' = Expired(timers, k, p)
    BY <1>3 DEF HExpire, Expire
  <2>2. CASE k = "removal"
    <3>1. /\ timers'.armed["removal"] = timers.armed["removal"] \ {p}
          /\ timers'.queued["removal"] = timers.queued["removal"] \cup {p}
      BY <1>0, <2>1, <2>2, ExpiredEffect
    <3> QED
      BY <1>3, <1>a, <3>1 DEF HExpire, Expire
  <2>3. CASE k # "removal"
    <3>1. /\ timers'.armed["removal"] = timers.armed["removal"]
          /\ timers'.queued["removal"] = timers.queued["removal"]
      BY <1>0, <2>1, <2>3, ExpiredEffect
    <3> QED
      BY <1>3, <1>a, <3>1 DEF HExpire, Expire
  <2> QED
    BY <2>2, <2>3
<1>4. ASSUME NEW p \in Players, HGraceTimerExpired(p) PROVE Timed
  <2>1. timers' = TimersAtGraceExpiry(timers, p)
    BY <1>4 DEF HGraceTimerExpired, GraceTimerExpired
  <2>2. /\ timers'.armed["removal"] = timers.armed["removal"] \cup {p}
        /\ timers'.queued["removal"] = timers.queued["removal"]
    BY <1>0, <2>1, GraceExpiryTimers
  <2> QED
    BY <1>0, <1>4, <1>a, <2>2 DEF HGraceTimerExpired, GraceTimerExpired
<1>5. ASSUME NEW p \in Players, HRemovalTimerExpired(p) PROVE Timed
  <2>1. timers' = HandlerTaken(timers, "removal", p)
    BY <1>5 DEF HRemovalTimerExpired, RemovalTimerExpired, TimersAtRemovalExpiry
  <2>2. /\ timers'.armed = timers.armed
        /\ timers'.queued["removal"] = timers.queued["removal"] \ {p}
    BY <1>0, <2>1, HandlerTakenEffect
  <2> QED
    BY <1>0, <1>5, <1>a, <2>2 DEF HRemovalTimerExpired, RemovalTimerExpired
<1>6. CASE UNCHANGED hvars
  BY <1>6, <1>a DEF hvars, vars
<1> QED
  BY <1>1, <1>2, <1>3, <1>4, <1>5, <1>6 DEF HNext

LEMMA CleanStep == HTypeOK /\ CleanReturn /\ [HNext]_hvars => CleanReturn'
<1> SUFFICES ASSUME HTypeOK, CleanReturn, [HNext]_hvars,
                    NEW q \in Players, status'[q] = "CONNECTED", q \notin raced'
             PROVE  /\ ~sitting_out'[q]
                    /\ \A c \in Kinds : q \notin timers'.armed[c] \cup timers'.queued[c]
  BY DEF CleanReturn, Pending
<1> DEFINE Clean == /\ ~sitting_out'[q]
                    /\ \A c \in Kinds : q \notin timers'.armed[c] \cup timers'.queued[c]
<1>0. /\ timers \in Timers /\ status \in [Players -> {"CONNECTED", "DISCONNECTED"}]
      /\ sitting_out \in [Players -> BOOLEAN] /\ raced \subseteq Players
      /\ "grace" \in Kinds /\ "removal" \in Kinds /\ "grace" # "removal"
  BY KindsFact DEF HTypeOK, TypeOK
<1>a. ASSUME status[q] = "CONNECTED", q \notin raced
      PROVE  ~sitting_out[q] /\ \A c \in Kinds : q \notin timers.armed[c] \cup timers.queued[c]
  BY <1>a DEF CleanReturn, Pending
<1>1. ASSUME NEW p \in Players, HDisconnect(p) PROVE Clean
  <2>1. q # p /\ status[q] = "CONNECTED" /\ q \notin raced /\ sitting_out'[q] = sitting_out[q]
    BY <1>0, <1>1 DEF HDisconnect, Disconnect
  <2>2. timers' = Started(timers, "grace", p)
    BY <1>1 DEF HDisconnect, Disconnect, TimersAtDisconnect
  <2>3. ASSUME NEW c \in Kinds PROVE q \notin timers'.armed[c] \cup timers'.queued[c]
    <3>1. timers'.armed[c] \subseteq timers.armed[c] \cup {p} /\ timers'.queued[c] = timers.queued[c]
      BY <1>0, <2>2, StartedEffect
    <3> QED
      BY <1>a, <2>1, <3>1
  <2> QED
    BY <1>a, <2>1, <2>3
<1>2. ASSUME NEW p \in Players, HReconnect(p) PROVE Clean
  <2>1. timers' = Cancelled(timers, p)
    BY <1>2 DEF HReconnect, Reconnect, TimersAtReconnect
  <2>2. ASSUME NEW c \in Kinds
        PROVE  timers'.armed[c] = timers.armed[c] \ {p} /\ timers'.queued[c] = timers.queued[c]
    BY <1>0, <2>1, CancelledEffect
  <2>3. CASE q = p
    <3>1. ~sitting_out'[q]
      BY <1>0, <1>2, <2>3 DEF HReconnect, Reconnect
    <3>2. q \notin Overtaken
      BY <1>2, <2>3 DEF HReconnect
    <3>3. \A c \in Kinds : q \notin timers.queued[c]
      BY <3>2 DEF Overtaken
    <3> QED
      BY <2>2, <2>3, <3>1, <3>3
  <2>4. CASE q # p
    <3>1. status[q] = "CONNECTED" /\ q \notin raced /\ sitting_out'[q] = sitting_out[q]
      BY <1>0, <1>2, <2>4 DEF HReconnect, Reconnect
    <3> QED
      BY <1>a, <2>2, <3>1
  <2> QED
    BY <2>3, <2>4
<1>3. ASSUME NEW p \in Players, NEW k \in Kinds, HExpire(k, p) PROVE Clean
  <2>1. /\ timers' = Expired(timers, k, p) /\ p \in timers.armed[k]
        /\ status' = status /\ sitting_out' = sitting_out /\ raced' = raced
    BY <1>3 DEF HExpire, Expire, CanExpire
  <2>2. q # p
    BY <1>a, <2>1
  <2>3. ASSUME NEW c \in Kinds PROVE q \notin timers'.armed[c] \cup timers'.queued[c]
    <3>1. timers'.armed[c] \subseteq timers.armed[c] /\ timers'.queued[c] \subseteq timers.queued[c] \cup {p}
      BY <1>0, <2>1, ExpiredEffect
    <3> QED
      BY <1>a, <2>1, <2>2, <3>1
  <2> QED
    BY <1>a, <2>1, <2>3
<1>4. ASSUME NEW p \in Players, HGraceTimerExpired(p) PROVE Clean
  <2>1. /\ timers' = TimersAtGraceExpiry(timers, p) /\ p \in timers.queued["grace"]
        /\ status' = status /\ raced' = raced
        /\ sitting_out' = [sitting_out EXCEPT ![p] = TRUE]
    BY <1>4 DEF HGraceTimerExpired, GraceTimerExpired
  <2>2. q # p
    BY <1>0, <1>a, <2>1
  <2>3. ASSUME NEW c \in Kinds PROVE q \notin timers'.armed[c] \cup timers'.queued[c]
    <3>1. timers'.armed[c] \subseteq timers.armed[c] \cup {p} /\ timers'.queued[c] \subseteq timers.queued[c]
      BY <1>0, <2>1, GraceExpiryTimers, KindsFact
    <3> QED
      BY <1>a, <2>1, <2>2, <3>1
  <2> QED
    BY <1>0, <1>a, <2>1, <2>2, <2>3
<1>5. ASSUME NEW p \in Players, HRemovalTimerExpired(p) PROVE Clean
  <2>1. /\ timers' = HandlerTaken(timers, "removal", p)
        /\ status' = status /\ raced' = raced /\ sitting_out' = sitting_out
    BY <1>5 DEF HRemovalTimerExpired, RemovalTimerExpired, TimersAtRemovalExpiry
  <2>2. ASSUME NEW c \in Kinds PROVE q \notin timers'.armed[c] \cup timers'.queued[c]
    <3>1. timers'.armed[c] = timers.armed[c] /\ timers'.queued[c] \subseteq timers.queued[c]
      BY <1>0, <2>1, HandlerTakenEffect
    <3> QED
      BY <1>a, <2>1, <3>1
  <2> QED
    BY <1>a, <2>1, <2>2
<1>6. CASE UNCHANGED hvars
  BY <1>6, <1>a DEF hvars, vars
<1> QED
  BY <1>1, <1>2, <1>3, <1>4, <1>5, <1>6 DEF HNext

LEMMA HistoryInvStep == HistoryInv /\ [HNext]_hvars => HistoryInv'
BY HTypeStep, SitOutStep, CleanStep DEF HistoryInv

\* The history keeps its types, its removal timers and its clean returns.
THEOREM HistorySound == HSpec => []HistoryInv
BY HistoryInit, HistoryInvStep, PTL DEF HSpec

\* The types of the timers, the statuses and the history.
THEOREM HTypeTheorem == HSpec => []HTypeOK
<1>1. HistoryInv => HTypeOK
  BY DEF HistoryInv
<1> QED
  BY <1>1, HistorySound, PTL

\* onGraceTimerExpired: who sits out has the removal timer pending until his
\* removal was announced.
THEOREM SitOutTimedTheorem == HSpec => []SitOutIsTimed
<1>1. HistoryInv => SitOutIsTimed
  BY DEF HistoryInv
<1> QED
  BY <1>1, HistorySound, PTL

\* cancelTimers: who returned, and not over a queued handler of his own, plays on
\* with no timer that could touch him.
THEOREM CleanReturnTheorem == HSpec => []CleanReturn
<1>1. HistoryInv => CleanReturn
  BY DEF HistoryInv
<1> QED
  BY <1>1, HistorySound, PTL

LEMMA LifecycleStep ==
  HistoryInv /\ [HNext]_hvars =>
    \A q \in Players \ raced : Stage(q)' # Stage(q) => Stage(q)' \in NextStages(Stage(q))
<1> SUFFICES ASSUME HistoryInv, [HNext]_hvars, NEW q \in Players \ raced, Stage(q)' # Stage(q)
             PROVE  Stage(q)' \in NextStages(Stage(q))
  OBVIOUS
<1>0. /\ status \in [Players -> {"CONNECTED", "DISCONNECTED"}]
      /\ sitting_out \in [Players -> BOOLEAN]
  BY DEF HistoryInv, HTypeOK, TypeOK
<1>a. ASSUME status[q] = "CONNECTED"
      PROVE  ~sitting_out[q] /\ \A c \in Kinds : q \notin timers.queued[c]
  BY <1>a DEF HistoryInv, CleanReturn, Pending
<1> DEFINE Follows == Stage(q)' \in NextStages(Stage(q))
<1>1. ASSUME NEW p \in Players, HDisconnect(p) PROVE Follows
  <2>1. q = p
    BY <1>0, <1>1 DEF HDisconnect, Disconnect, Stage
  <2>2. Stage(q) = "CONNECTED" /\ Stage(q)' = "DISCONNECTED"
    BY <1>0, <1>1, <1>a, <2>1 DEF HDisconnect, Disconnect, Stage
  <2> QED
    BY <2>2 DEF NextStages
<1>2. ASSUME NEW p \in Players, HReconnect(p) PROVE Follows
  <2>1. q = p
    BY <1>0, <1>2 DEF HReconnect, Reconnect, Stage
  <2>2. Stage(q) \in {"DISCONNECTED", "SITTING_OUT"} /\ Stage(q)' = "CONNECTED"
    BY <1>0, <1>2, <2>1 DEF HReconnect, Reconnect, Stage
  <2> QED
    BY <2>2 DEF NextStages
<1>3. ASSUME NEW p \in Players, HGraceTimerExpired(p) PROVE Follows
  <2>1. q = p
    BY <1>0, <1>3 DEF HGraceTimerExpired, GraceTimerExpired, Stage
  <2>2. status[q] = "DISCONNECTED"
    BY <1>0, <1>3, <1>a, <2>1, KindsFact DEF HGraceTimerExpired, GraceTimerExpired
  <2>3. Stage(q) = "DISCONNECTED" /\ Stage(q)' = "SITTING_OUT"
    BY <1>0, <1>3, <2>1, <2>2 DEF HGraceTimerExpired, GraceTimerExpired, Stage
  <2> QED
    BY <2>3 DEF NextStages
<1>4. ASSUME UNCHANGED <<status, sitting_out>> PROVE FALSE
  BY <1>4 DEF Stage
<1> QED
  BY <1>1, <1>2, <1>3, <1>4
     DEF HNext, HExpire, Expire, HRemovalTimerExpired, RemovalTimerExpired, hvars, vars

\* player_state.cpp follows the state machine of data-model.md for every player
\* who did not come back over a queued timer handler.
THEOREM LifecycleTheorem == HSpec => LifecycleUnlessRaced
<1>1. HistoryInv /\ [HNext]_hvars =>
        [\A p \in Players \ raced :
           Stage(p)' # Stage(p) => Stage(p)' \in NextStages(Stage(p))]_hvars
  BY LifecycleStep
<1> QED
  BY <1>1, HistorySound, PTL DEF HSpec, LifecycleUnlessRaced

=============================================================================
