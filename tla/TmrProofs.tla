----------------------------- MODULE TmrProofs -----------------------------
(***************************************************************************)
(* For any timers, intervals and callbacks and any sequence of calls,      *)
(* start() and stop() on unregistered timers included: the objects of    *)
(* tmr.c keep the inductive invariant Inv, so that no os_timer armed for a *)
(* registered timer is ever left in collected memory, and they implement   *)
(* the timer contract.                                                     *)
(* The last part is about the clock and the watchdog of module TmrClock.   *)
(***************************************************************************)
EXTENDS Tmr, TmrClock, Integers, TLAPS

USE DEF AlarmModes, Is, Running

\* What each method of tmr.c makes of the records of one timer.
LEMMA RecordTypes ==
  ASSUME NEW r \in Tmr, NEW o \in OsTimer, NEW i \in Intervals,
         NEW m \in AlarmModes, NEW f \in Callbacks, NEW restart \in BOOLEAN
  PROVE  /\ Configured(r, i, m, f) \in Tmr
         /\ OsAfterRegister(r, o) \in OsTimer
         /\ TmrAfterStart(r, restart) \in Tmr
         /\ OsAfterStart(r, o, restart) \in OsTimer
         /\ Dropped(r) \in Tmr
         /\ OsAfterUnregister(r, o) \in OsTimer
         /\ Expired(r) \in Tmr
<1>1. Configured(r, i, m, f) \in Tmr
  BY DEF Tmr, Configured
<1>2. OsAfterRegister(r, o) \in OsTimer
  BY DEF OsTimer, OsAfterRegister, Disarmed, NewOs
<1>3. TmrAfterStart(r, restart) \in Tmr
  BY DEF Tmr, TmrAfterStart, Starts
<1>4. OsAfterStart(r, o, restart) \in OsTimer
  BY DEF Tmr, OsTimer, OsAfterStart, Starts, Armed
<1>5. Dropped(r) \in Tmr
  BY DEF Tmr, Dropped
<1>6. OsAfterUnregister(r, o) \in OsTimer
  BY DEF OsTimer, OsAfterUnregister, Disarmed, NewOs
<1>7. Expired(r) \in Tmr
  BY DEF Tmr, Expired
<1>8. QED
  BY <1>1, <1>2, <1>3, <1>4, <1>5, <1>6, <1>7

\* No timer exists at start-up.
LEMMA InitInv == Init => Inv
BY TmrAssumption DEF Init, Inv, TypeOK, ArmedIsPinned, ModeMatchesOs,
   Stray, NewTmr, NewOs, NoCall, Tmr, OsTimer

\* The step of one method, in terms of the records of the timer it is called
\* on: if the new records satisfy the invariant then so does the new state.
TimerInv(r, o, h) ==
  /\ r \in Tmr
  /\ o \in OsTimer
  /\ o.armed /\ ~Stray(o) => h = "live" /\ r.self_ref /\ o.fn
  /\ o.armed /\ ~Stray(o) <=> Running(r)
  /\ Running(r) => o.period = r.interval /\ o.by = r.mode
  /\ r.mode = "off" <=> r.lua_ref = NoRef
  /\ r.mode # "off" => h = "live" /\ o.fn

CallType == [timer : Timers \cup {NoRef}, func : Callbacks \cup {NoRef},
             arg : BOOLEAN, used : BOOLEAN]

\* The invariant speaks of the timers one by one.
LEMMA InvIsPerTimer ==
  Inv <=> /\ tmr \in [Timers -> Tmr] /\ os \in [Timers -> OsTimer]
          /\ heap \in [Timers -> {"live", "free"}]
          /\ held \subseteq Timers
          /\ call \in CallType
          /\ \A t \in Timers : TimerInv(tmr[t], os[t], heap[t])
BY DEF Inv, TypeOK, ArmedIsPinned, ModeMatchesOs, TimerInv, CallType

\* The fields that register() and start() leave in the two records.
LEMMA RegisteredOsFields ==
  ASSUME NEW r \in Tmr, NEW o \in OsTimer
  PROVE  LET n == OsAfterRegister(r, o)
         IN /\ n \in OsTimer /\ n.fn = TRUE
            /\ Running(r) => n.armed = FALSE
            /\ ~Running(r) => n.armed = o.armed /\ n.by = o.by
BY DEF OsAfterRegister, Disarmed, NewOs, OsTimer, Tmr

\* What tmr_start() leaves in the object,
LEMMA StartedFields ==
  ASSUME NEW r \in Tmr, NEW restart \in BOOLEAN
  PROVE  LET n == TmrAfterStart(r, restart)
         IN n.mode = r.mode /\ n.lua_ref = r.lua_ref /\ n.self_ref = TRUE
            /\ n.interval = r.interval /\ n.idle = FALSE
BY DEF TmrAfterStart, Starts, Tmr

\* and in the SDK timer.
LEMMA StartedOsFields ==
  ASSUME NEW r \in Tmr, NEW o \in OsTimer, NEW restart \in BOOLEAN
  PROVE  LET n == OsAfterStart(r, o, restart)
         IN /\ Starts(r, restart) =>
                 n.armed = TRUE /\ n.period = r.interval
                 /\ n.by = r.mode /\ n.fn = o.fn
            /\ ~Starts(r, restart) => n = o
BY DEF OsAfterStart, Armed, Starts, OsTimer, Tmr

\* register() and start() keep the invariant of the records of a live timer.
\* alarm() is their composition.
LEMMA RegisterKeepsTimerInv ==
  ASSUME NEW r \in Tmr, NEW o \in OsTimer, NEW i \in Intervals,
         NEW m \in AlarmModes, NEW f \in Callbacks, TimerInv(r, o, "live")
  PROVE  TimerInv(Configured(r, i, m, f), OsAfterRegister(r, o), "live")
<1> DEFINE n == Configured(r, i, m, f)
           p == OsAfterRegister(r, o)
<1>1. n.mode = m /\ n.idle = TRUE /\ n.lua_ref = f
      /\ n.self_ref = r.self_ref /\ n.interval = i
  BY DEF Configured, Tmr
<1>2. /\ p.fn = TRUE /\ (Running(r) => p.armed = FALSE)
      /\ ~Running(r) => p.armed = o.armed /\ p.by = o.by
  BY RegisteredOsFields
<1>3. ~(p.armed /\ ~Stray(p))
  BY <1>2 DEF TimerInv, OsTimer, Stray
<1>4. n \in Tmr /\ p \in OsTimer
  <2>1. TRUE \in BOOLEAN
    OBVIOUS
  <2>2. QED
    BY <2>1, RecordTypes
<1>5. NoRef # f /\ m # "off"
  BY TmrAssumption
<1> HIDE DEF n, p
<1>6. TimerInv(n, p, "live")
  BY <1>1, <1>2, <1>3, <1>4, <1>5 DEF TimerInv
<1>7. QED
  BY <1>6 DEF n, p

\* tmr_start(), on an unregistered timer it leaves a stray or only pins it.
LEMMA StartKeepsTimerInv ==
  ASSUME NEW r \in Tmr, NEW o \in OsTimer, NEW restart \in BOOLEAN,
         TimerInv(r, o, "live")
  PROVE  TimerInv(TmrAfterStart(r, restart), OsAfterStart(r, o, restart), "live")
<1> DEFINE n == TmrAfterStart(r, restart)
           p == OsAfterStart(r, o, restart)
<1>1. n.mode = r.mode /\ n.lua_ref = r.lua_ref /\ n.self_ref = TRUE
      /\ n.interval = r.interval /\ n.idle = FALSE
  BY StartedFields
<1>3. n \in Tmr
  BY DEF TmrAfterStart, Starts, Tmr
<1>4. p \in OsTimer
  BY DEF OsAfterStart, Armed, Starts, OsTimer, Tmr
<1>5. CASE Starts(r, restart)
  <2>1. p.armed = TRUE /\ p.period = r.interval /\ p.by = r.mode /\ p.fn = o.fn
    BY <1>5, StartedOsFields
  <2> HIDE DEF n, p
  <2>2. TimerInv(n, p, "live")
    BY <1>1, <1>3, <1>4, <2>1 DEF TimerInv, Stray
  <2> QED
    BY <2>2 DEF n, p
<1>6. CASE ~Starts(r, restart)
  <2>1. p = o
    BY <1>6, StartedOsFields
  <2>0. r.idle = FALSE
    BY <1>6 DEF Starts, Tmr
  <2> HIDE DEF n, p
  <2>2. TimerInv(n, p, "live")
    BY <1>1, <1>3, <1>4, <2>0, <2>1 DEF TimerInv
  <2> QED
    BY <2>2 DEF n, p
<1>7. QED
  BY <1>5, <1>6

\* Inv is inductive.
LEMMA NextInv == Inv /\ [Next]_vars => Inv'
<1> SUFFICES ASSUME Inv, [Next]_vars PROVE Inv'
  OBVIOUS
<1> DEFINE Types ==
      /\ tmr \in [Timers -> Tmr] /\ os \in [Timers -> OsTimer]
      /\ heap \in [Timers -> {"live", "free"}]
      /\ held \subseteq Timers
      /\ call \in CallType
<1>1. Types /\ (\A t \in Timers : TimerInv(tmr[t], os[t], heap[t]))
  BY InvIsPerTimer
<1>2. SUFFICES Types' /\ (\A t \in Timers : TimerInv(tmr[t], os[t], heap[t])')
  BY InvIsPerTimer DEF Inv, TypeOK, ArmedIsPinned, ModeMatchesOs,
     TimerInv, CallType
\* It is enough to look at the timer the step is about.
<1>3. ASSUME NEW t \in Timers, NEW r \in Tmr, NEW o \in OsTimer,
             NEW h \in {"live", "free"}, TimerInv(r, o, h),
             tmr' = [tmr EXCEPT ![t] = r], os' = [os EXCEPT ![t] = o],
             heap' = [heap EXCEPT ![t] = h],
             held' \subseteq Timers,
             call' \in CallType
      PROVE  Types' /\ (\A s \in Timers : TimerInv(tmr[s], os[s], heap[s])')
  <2>1. Types'
    BY <1>1, <1>3
  <2>2. ASSUME NEW s \in Timers PROVE TimerInv(tmr[s], os[s], heap[s])'
    <3>1. CASE s = t
      BY <1>1, <1>3, <3>1 DEF TimerInv
    <3>2. CASE s # t
      BY <1>1, <1>3, <3>2 DEF TimerInv
    <3>3. QED
      BY <3>1, <3>2
  <2>3. QED
    BY <1>3, <2>1, <2>2
<1>4. ASSUME NEW t \in Timers, UNCHANGED <<heap, held>>, heap[t] = "live",
             call' \in CallType,
             NEW r \in Tmr, NEW o \in OsTimer, TimerInv(r, o, "live"),
             tmr' = [tmr EXCEPT ![t] = r], os' = [os EXCEPT ![t] = o]
      PROVE  Types' /\ (\A s \in Timers : TimerInv(tmr[s], os[s], heap[s])')
  <2>1. heap' = [heap EXCEPT ![t] = "live"]
    BY <1>1, <1>4
  <2>2. QED
    BY <1>1, <1>3, <1>4, <2>1
<1>5. ASSUME NEW t \in Timers, tmr_create(t)
      PROVE  Types' /\ (\A s \in Timers : TimerInv(tmr[s], os[s], heap[s])')
  <2>1. NewTmr \in Tmr /\ NewOs \in OsTimer /\ TimerInv(NewTmr, NewOs, "live")
    BY TmrAssumption DEF Stray, NewTmr, NewOs, Tmr, OsTimer, TimerInv
  <2>2. QED
    BY <1>1, <1>3, <1>5, <2>1 DEF tmr_create
<1>6. ASSUME NEW t \in Timers, Method(t)
      PROVE  Types' /\ (\A s \in Timers : TimerInv(tmr[s], os[s], heap[s])')
  <2>1. heap[t] = "live" /\ UNCHANGED <<heap, held>> /\ CalledOn(t)
    BY <1>6 DEF Method, tmr_register, tmr_alarm, tmr_start, tmr_stop,
       tmr_unregister, tmr_interval, Reachable
  <2>0. call' \in CallType
    BY <1>1, <2>1 DEF CalledOn, CallType
  <2>2. tmr[t] \in Tmr /\ os[t] \in OsTimer /\ TimerInv(tmr[t], os[t], "live")
    BY <1>1, <2>1
  <2>3. ASSUME NEW i \in Intervals, NEW m \in AlarmModes, NEW f \in Callbacks,
               tmr_register(t, i, m, f)
        PROVE  Types' /\ (\A s \in Timers : TimerInv(tmr[s], os[s], heap[s])')
    <3>1. TimerInv(Configured(tmr[t], i, m, f), OsAfterRegister(tmr[t], os[t]), "live")
      BY <2>2, RegisterKeepsTimerInv
    <3>2. QED
      BY <1>4, <2>0, <2>1, <2>2, <2>3, <3>1, RecordTypes DEF tmr_register
  <2>4. ASSUME NEW i \in Intervals, NEW m \in AlarmModes, NEW f \in Callbacks,
               tmr_alarm(t, i, m, f)
        PROVE  Types' /\ (\A s \in Timers : TimerInv(tmr[s], os[s], heap[s])')
    <3> DEFINE r == Configured(tmr[t], i, m, f)
               o == OsAfterRegister(tmr[t], os[t])
    <3>1. r \in Tmr /\ o \in OsTimer /\ TimerInv(r, o, "live")
      BY <2>2, RegisterKeepsTimerInv DEF TimerInv
    <3>2. TimerInv(TmrAfterStart(r, FALSE), OsAfterStart(r, o, FALSE), "live")
      <4>1. FALSE \in BOOLEAN
        OBVIOUS
      <4> HIDE DEF r, o
      <4>3. QED
        BY <3>1, <4>1, StartKeepsTimerInv
    <3>3. TmrAfterStart(r, FALSE) \in Tmr /\ OsAfterStart(r, o, FALSE) \in OsTimer
      BY <3>2 DEF TimerInv
    <3>4. tmr' = [tmr EXCEPT ![t] = TmrAfterStart(r, FALSE)]
          /\ os' = [os EXCEPT ![t] = OsAfterStart(r, o, FALSE)]
      BY <2>4 DEF tmr_alarm
    <3>5. QED
      BY <1>4, <2>0, <2>1, <3>2, <3>3, <3>4
  <2>5. ASSUME NEW restart \in BOOLEAN, tmr_start(t, restart)
        PROVE  Types' /\ (\A s \in Timers : TimerInv(tmr[s], os[s], heap[s])')
    <3>1. TimerInv(TmrAfterStart(tmr[t], restart),
                   OsAfterStart(tmr[t], os[t], restart), "live")
      BY <2>2, StartKeepsTimerInv
    <3>2. QED
      BY <1>4, <2>0, <2>1, <2>5, <3>1 DEF tmr_start, TimerInv
  <2>6. ASSUME tmr_stop(t)
        PROVE  Types' /\ (\A s \in Timers : TimerInv(tmr[s], os[s], heap[s])')
    <3> DEFINE r == [tmr[t] EXCEPT !.self_ref = FALSE, !.idle = TRUE]
               o == IF Running(tmr[t]) THEN Disarmed(os[t]) ELSE os[t]
    <3>1. TimerInv(r, o, "live")
      BY <2>2 DEF TimerInv, Tmr, OsTimer, Disarmed, NewOs, Stray
    <3>2. tmr' = [tmr EXCEPT ![t] = r] /\ os' = [os EXCEPT ![t] = o]
      BY <1>1, <2>6 DEF tmr_stop
    <3>3. r \in Tmr /\ o \in OsTimer
      BY <3>1 DEF TimerInv
    <3>4. QED
      BY <1>4, <2>0, <2>1, <3>1, <3>2, <3>3
  <2>7. ASSUME tmr_unregister(t)
        PROVE  Types' /\ (\A s \in Timers : TimerInv(tmr[s], os[s], heap[s])')
    <3>1. TimerInv(Dropped(tmr[t]), OsAfterUnregister(tmr[t], os[t]), "live")
      BY <2>2 DEF TimerInv, Tmr, OsTimer, Dropped, OsAfterUnregister, Disarmed,
         NewOs, Stray
    <3>2. QED
      BY <1>4, <2>0, <2>1, <2>7, <3>1 DEF tmr_unregister, TimerInv
  <2>8. ASSUME NEW i \in Intervals, tmr_interval(t, i)
        PROVE  Types' /\ (\A s \in Timers : TimerInv(tmr[s], os[s], heap[s])')
    <3> DEFINE r == [tmr[t] EXCEPT !.interval = i]
               o == IF tmr[t].idle THEN os[t]
                    ELSE Armed(os[t], i, tmr[t].mode)
    <3>1. TimerInv(r, o, "live")
      BY <2>2, <2>8 DEF tmr_interval, TimerInv, Tmr, OsTimer, Armed, Stray
    <3>2. tmr' = [tmr EXCEPT ![t] = r] /\ os' = [os EXCEPT ![t] = o]
      BY <1>1, <2>8 DEF tmr_interval
    <3>3. r \in Tmr /\ o \in OsTimer
      BY <3>1 DEF TimerInv
    <3>4. QED
      BY <1>4, <2>0, <2>1, <3>1, <3>2, <3>3
  <2>9. QED
    BY <1>6, <2>3, <2>4, <2>5, <2>6, <2>7, <2>8 DEF Method
<1>7. ASSUME NEW t \in Timers, Forget(t) \/ Keep(t)
      PROVE  Types' /\ (\A s \in Timers : TimerInv(tmr[s], os[s], heap[s])')
  BY <1>1, <1>7 DEF Forget, Keep
<1>8. ASSUME NEW t \in Timers, Collect(t)
      PROVE  Types' /\ (\A s \in Timers : TimerInv(tmr[s], os[s], heap[s])')
  <2>1. tmr[t] \in Tmr /\ os[t] \in OsTimer /\ TimerInv(tmr[t], os[t], "live")
        /\ ~tmr[t].self_ref
    BY <1>1, <1>8 DEF Collect
  <2> DEFINE o == [OsAfterUnregister(tmr[t], os[t]) EXCEPT !.fn = FALSE]
  <2>2. NewTmr \in Tmr /\ TimerInv(NewTmr, o, "free")
    BY <2>1, TmrAssumption DEF TimerInv, Tmr, OsTimer, NewTmr, OsAfterUnregister,
       Disarmed, NewOs, Stray
  <2>3. o \in OsTimer
    BY <2>2 DEF TimerInv
  <2>4. /\ tmr' = [tmr EXCEPT ![t] = NewTmr] /\ os' = [os EXCEPT ![t] = o]
        /\ heap' = [heap EXCEPT ![t] = "free"] /\ UNCHANGED <<held, call>>
    BY <1>8 DEF Collect
  <2> HIDE DEF o
  <2>5. QED
    BY <1>1, <1>3, <2>2, <2>3, <2>4
<1>9. ASSUME NEW t \in Timers, alarm_timer_common(t)
      PROVE  Types' /\ (\A s \in Timers : TimerInv(tmr[s], os[s], heap[s])')
  <2> DEFINE o == IF os[t].by = "auto" THEN os[t] ELSE Disarmed(os[t])
             r == IF tmr[t].lua_ref # NoRef THEN Expired(tmr[t]) ELSE tmr[t]
  <2>1. tmr[t] \in Tmr /\ os[t] \in OsTimer /\ TimerInv(tmr[t], os[t], "live")
        /\ heap[t] = "live" /\ os[t].armed
    BY <1>1, <1>9 DEF alarm_timer_common
  <2>2. /\ tmr' = [tmr EXCEPT ![t] = r]
        /\ os' = [os EXCEPT ![t] = o]
        /\ UNCHANGED <<heap, held>>
        /\ call' \in CallType
    <3>1. os' = [os EXCEPT ![t] = o] /\ UNCHANGED <<heap, held>>
      BY <1>9 DEF alarm_timer_common
    <3>2. CASE tmr[t].lua_ref = NoRef
      BY <1>1, <1>9, <3>1, <3>2 DEF alarm_timer_common
    <3>3. CASE tmr[t].lua_ref # NoRef
      <4>1. /\ tmr' = [tmr EXCEPT ![t] = r]
            /\ call' = [timer |-> t, func |-> tmr[t].lua_ref,
                        arg |-> tmr[t].self_ref, used |-> FALSE]
        BY <1>9, <3>3 DEF alarm_timer_common
      <4>2. tmr[t].lua_ref \in Callbacks /\ tmr[t].self_ref \in BOOLEAN
        BY <2>1, <3>3 DEF Tmr
      <4>3. call' \in CallType
        BY <4>1, <4>2 DEF CallType
      <4> QED
        BY <3>1, <4>1, <4>3
    <3> QED
      BY <3>2, <3>3
  <2>3. TimerInv(r, o, "live")
    <3>1. CASE Stray(os[t])
      <4>1. o = Disarmed(os[t]) /\ ~Running(tmr[t])
        BY <2>1, <3>1 DEF Stray, TimerInv
      <4>2. r = tmr[t]
        BY <2>1, <4>1 DEF Expired, TimerInv, Tmr
      <4> QED
        BY <2>1, <4>1, <4>2 DEF TimerInv, OsTimer, Disarmed, NewOs, Stray
    <3>2. CASE ~Stray(os[t])
      <4>1. Running(tmr[t]) /\ tmr[t].lua_ref # NoRef /\ os[t].by = tmr[t].mode
        BY <2>1, <3>2 DEF TimerInv, Tmr
      <4> QED
        BY <2>1, <3>2, <4>1, TmrAssumption DEF TimerInv, Tmr, OsTimer, Expired, Disarmed, NewOs, Stray
    <3> QED
      BY <3>1, <3>2
  <2>4. heap' = [heap EXCEPT ![t] = "live"]
    BY <1>1, <2>1, <2>2
  <2>5. r \in Tmr /\ o \in OsTimer
    BY <2>3 DEF TimerInv
  <2> HIDE DEF r, o
  <2>6. QED
    BY <1>1, <1>3, <2>2, <2>3, <2>4, <2>5
<1>13. ASSUME NEW t \in Timers, WildExpiry(t)
       PROVE  Types' /\ (\A s \in Timers : TimerInv(tmr[s], os[s], heap[s])')
  <2>1. CASE ChipRestarts
    <3>1. NewTmr \in Tmr /\ NewOs \in OsTimer /\ TimerInv(NewTmr, NewOs, "free")
      BY TmrAssumption DEF Stray, NewTmr, NewOs, Tmr, OsTimer, TimerInv
    <3>2. NoCall \in CallType
      BY DEF NoCall, CallType
    <3>3. Types'
      BY <2>1, <3>1, <3>2 DEF ChipRestarts
    <3>4. ASSUME NEW s \in Timers PROVE TimerInv(tmr[s], os[s], heap[s])'
      <4>1. tmr'[s] = NewTmr /\ os'[s] = NewOs /\ heap'[s] = "free"
        BY <2>1 DEF ChipRestarts
      <4> QED
        BY <3>1, <4>1 DEF TimerInv
    <3> QED
      BY <3>3, <3>4
  <2>2. CASE ~ChipRestarts
    <3>1. os' = [os EXCEPT ![t] = Disarmed(os[t])] /\ UNCHANGED <<tmr, heap, held, call>>
      BY <1>13, <2>2 DEF WildExpiry
    <3>2. tmr[t] \in Tmr /\ os[t] \in OsTimer /\ TimerInv(tmr[t], os[t], heap[t])
      BY <1>1
    <3>3. ~Running(tmr[t])
      BY <1>13, <3>2 DEF WildExpiry, TimerInv
    <3>4. TimerInv(tmr[t], Disarmed(os[t]), heap[t])
      BY <3>2, <3>3 DEF TimerInv, OsTimer, Disarmed, NewOs, Stray
    <3>5. Disarmed(os[t]) \in OsTimer
      BY <3>4 DEF TimerInv
    <3>6. tmr' = [tmr EXCEPT ![t] = tmr[t]] /\ heap' = [heap EXCEPT ![t] = heap[t]]
      BY <1>1, <3>1
    <3> QED
      BY <1>1, <1>3, <3>1, <3>2, <3>4, <3>5, <3>6
  <2> QED
    BY <2>1, <2>2
<1>10. CASE CallbackReturns
  BY <1>1, <1>10 DEF CallbackReturns, NoCall, CallType
<1>11. CASE UNCHANGED vars
  BY <1>1, <1>11 DEF vars
<1>12. QED
  BY <1>5, <1>6, <1>7, <1>8, <1>9, <1>10, <1>11, <1>13 DEF Next

\* The timers of tmr.c keep their invariant for ever.
THEOREM TmrInvariant == Spec => []Inv
<1>1. Inv /\ [Next]_vars => Inv'
  BY NextInv
<1>2. QED
  BY InitInv, <1>1, PTL DEF Spec

\* An os_timer armed for a registered timer always lies in a live, pinned userdata: the
\* collector does not free it while the SDK's timer list points into it.
THEOREM ArmedTimersArePinned == Spec => []ArmedIsPinned
<1>1. Inv => ArmedIsPinned
  BY DEF Inv
<1>2. QED
  BY TmrInvariant, <1>1, PTL

\* The mode byte of tmr.c never disagrees with the SDK timer: what state() and
\* the guards of start(), stop() and interval() read is what the timer does.
THEOREM ModesMatchTimers == Spec => []ModeMatchesOs
<1>1. Inv => ModeMatchesOs
  BY DEF Inv
<1>2. QED
  BY TmrInvariant, <1>1, PTL

-----------------------------------------------------------------------------
(* Refinement. *)

\* A timer as the contract sees it.
View(r) == [run |-> Running(r), mode |-> r.mode, func |-> r.lua_ref]

Timer == [t \in Timers |-> View(tmr[t])]
Strays == {t \in Timers : Stray(os[t])}
Call == [timer |-> call.timer, func |-> call.func]

\* A step that changes the record of one timer changes its view alone,
LEMMA ViewOfUpdate ==
  ASSUME NEW t \in Timers, NEW r, tmr \in [Timers -> Tmr],
         tmr' = [tmr EXCEPT ![t] = r]
  PROVE  Timer' = [Timer EXCEPT ![t] = View(r)]
BY DEF Timer, View

\* and whether it has a stray alarm.
LEMMA StraysOfUpdate ==
  ASSUME NEW t \in Timers, NEW o, os \in [Timers -> OsTimer],
         os' = [os EXCEPT ![t] = o]
  PROVE  /\ Stray(o) => Strays' = Strays \cup {t}
         /\ ~Stray(o) => Strays' = Strays \ {t}
         /\ (Stray(o) <=> Stray(os[t])) => Strays' = Strays
<1>1. \A s \in Timers : os'[s] = IF s = t THEN o ELSE os[s]
  OBVIOUS
<1> QED
  BY <1>1 DEF Strays, Stray

\* The callback that runs stays the same when it calls a method.
LEMMA CalledOnKeepsCall ==
  ASSUME NEW t \in Timers, CalledOn(t), call \in CallType
  PROVE  Call' = Call
BY DEF CalledOn, CallType, Call

\* Whether the methods leave a stray alarm.
LEMMA StrayFields ==
  ASSUME NEW r \in Tmr, NEW o \in OsTimer, TimerInv(r, o, "live")
  PROVE  /\ Stray(OsAfterRegister(r, o)) <=> Stray(o)
         /\ Stray(OsAfterUnregister(r, o)) <=> Stray(o)
         /\ Stray([OsAfterUnregister(r, o) EXCEPT !.fn = FALSE]) <=> Stray(o)
         /\ ~Stray(Disarmed(o))
<1>1. CASE Running(r)
  BY <1>1 DEF TimerInv, Stray, OsAfterRegister, OsAfterUnregister, Disarmed, NewOs, OsTimer
<1>2. CASE ~Running(r)
  BY <1>2 DEF TimerInv, Stray, OsAfterRegister, OsAfterUnregister, Disarmed, NewOs, OsTimer
<1> QED
  BY <1>1, <1>2

\* The steps of the contract, in terms of the views.
LEMMA ContractSteps ==
  /\ UNCHANGED <<Timer, Strays, Call>> => UNCHANGED Contract!cvars
  /\ \A t \in Timers, m \in AlarmModes, f \in Callbacks, run \in BOOLEAN :
       /\ Timer' = [Timer EXCEPT ![t] = [run |-> run, mode |-> m, func |-> f]]
       /\ Strays' = IF run THEN Strays \ {t} ELSE Strays
       /\ Call' = Call
       => Contract!CNext
  /\ \A t \in Timers, run \in BOOLEAN :
       /\ tmr[t].mode # "off"
       /\ Timer' = [Timer EXCEPT ![t] = [run |-> run, mode |-> tmr[t].mode,
                                         func |-> tmr[t].lua_ref]]
       /\ Strays' = IF run THEN Strays \ {t} ELSE Strays
       /\ Call' = Call
       => Contract!CNext
  /\ \A t \in Timers :
       /\ tmr[t].mode = "off"
       /\ Strays' = Strays \cup {t}
       /\ Timer' = Timer /\ Call' = Call
       => Contract!CNext
  /\ \A t \in Timers :
       /\ Timer' = [Timer EXCEPT ![t] = Contract!Unregistered]
       /\ Strays' = Strays /\ Call' = Call
       => Contract!CNext
<1>1. UNCHANGED <<Timer, Strays, Call>> => UNCHANGED Contract!cvars
  BY DEF Contract!cvars, Timer, Strays, Call, View
<1>2. ASSUME NEW t \in Timers, NEW m \in AlarmModes, NEW f \in Callbacks, NEW run \in BOOLEAN,
             Timer' = [Timer EXCEPT ![t] = [run |-> run, mode |-> m, func |-> f]],
             Strays' = IF run THEN Strays \ {t} ELSE Strays, Call' = Call
      PROVE  Contract!CNext
  <2>1. Contract!CRegister(t, m, f, run)
    BY <1>2 DEF Contract!CRegister, Timer, View, Strays, Call
  <2> QED
    BY <2>1 DEF Contract!CNext, Contract!AlarmModes
<1>3. ASSUME NEW t \in Timers, NEW run \in BOOLEAN, tmr[t].mode # "off",
             Timer' = [Timer EXCEPT ![t] = [run |-> run, mode |-> tmr[t].mode,
                                            func |-> tmr[t].lua_ref]],
             Strays' = IF run THEN Strays \ {t} ELSE Strays, Call' = Call
      PROVE  Contract!CNext
  <2>1. Contract!CSetRun(t, run)
    BY <1>3 DEF Contract!CSetRun, Contract!Registered, Timer, View, Strays, Call
  <2> QED
    BY <2>1 DEF Contract!CNext
<1>4. ASSUME NEW t \in Timers, tmr[t].mode = "off", Strays' = Strays \cup {t},
             Timer' = Timer, Call' = Call
      PROVE  Contract!CNext
  <2>1. Contract!CStartUnregistered(t)
    BY <1>4 DEF Contract!CStartUnregistered, Contract!Registered, Timer, View, Strays, Call
  <2> QED
    BY <2>1 DEF Contract!CNext
<1>5. ASSUME NEW t \in Timers, Timer' = [Timer EXCEPT ![t] = Contract!Unregistered],
             Strays' = Strays, Call' = Call
      PROVE  Contract!CNext
  <2>1. Contract!CUnregister(t)
    BY <1>5 DEF Contract!CUnregister, Timer, View, Strays, Call
  <2> QED
    BY <2>1 DEF Contract!CNext
<1> QED
  BY <1>1, <1>2, <1>3, <1>4, <1>5

\* Every step of a method is a step of the contract.
LEMMA MethodRefines ==
  ASSUME Inv, NEW t \in Timers, Method(t)
  PROVE  Contract!CNext \/ UNCHANGED Contract!cvars
<1>1. /\ tmr \in [Timers -> Tmr] /\ os \in [Timers -> OsTimer] /\ call \in CallType
      /\ TimerInv(tmr[t], os[t], heap[t])
  BY InvIsPerTimer
<1>2. heap[t] = "live" /\ CalledOn(t)
  BY DEF Method, tmr_register, tmr_alarm, tmr_start, tmr_stop, tmr_unregister,
     tmr_interval, Reachable
<1>3. tmr[t] \in Tmr /\ os[t] \in OsTimer /\ TimerInv(tmr[t], os[t], "live")
  BY <1>1, <1>2
<1>4. Call' = Call
  BY <1>1, <1>2, CalledOnKeepsCall
<1>5. ASSUME NEW i \in Intervals, NEW m \in AlarmModes, NEW f \in Callbacks,
             tmr_register(t, i, m, f)
      PROVE  Contract!CNext
  <2>1. View(Configured(tmr[t], i, m, f)) = [run |-> FALSE, mode |-> m, func |-> f]
    BY <1>3 DEF View, Configured, Tmr
  <2>2. /\ tmr' = [tmr EXCEPT ![t] = Configured(tmr[t], i, m, f)]
        /\ os' = [os EXCEPT ![t] = OsAfterRegister(tmr[t], os[t])]
    BY <1>5 DEF tmr_register
  <2>3. Timer' = [Timer EXCEPT ![t] = [run |-> FALSE, mode |-> m, func |-> f]]
    BY <1>1, <2>1, <2>2, ViewOfUpdate
  <2>4. Strays' = Strays
    BY <1>1, <1>3, <2>2, StraysOfUpdate, StrayFields
  <2> QED
    BY <1>4, <2>3, <2>4, ContractSteps
<1>6. ASSUME NEW i \in Intervals, NEW m \in AlarmModes, NEW f \in Callbacks,
             tmr_alarm(t, i, m, f)
      PROVE  Contract!CNext
  <2> DEFINE r == Configured(tmr[t], i, m, f)
             o == OsAfterRegister(tmr[t], os[t])
  <2>1. View(TmrAfterStart(r, FALSE)) = [run |-> TRUE, mode |-> m, func |-> f]
    BY <1>3 DEF View, Configured, TmrAfterStart, Starts, Tmr
  <2>2. /\ tmr' = [tmr EXCEPT ![t] = TmrAfterStart(r, FALSE)]
        /\ os' = [os EXCEPT ![t] = OsAfterStart(r, o, FALSE)]
    BY <1>6 DEF tmr_alarm
  <2>3. Timer' = [Timer EXCEPT ![t] = [run |-> TRUE, mode |-> m, func |-> f]]
    BY <1>1, <2>1, <2>2, ViewOfUpdate
  <2>4. ~Stray(OsAfterStart(r, o, FALSE))
    <3>1. r.idle /\ r.mode = m /\ r \in Tmr
      BY <1>3 DEF Configured, Tmr
    <3>2. o \in OsTimer
      BY <1>3, RegisteredOsFields
    <3> HIDE DEF r, o
    <3>3. OsAfterStart(r, o, FALSE).by = m
      BY <3>1, <3>2 DEF OsAfterStart, Starts, Armed, OsTimer
    <3> QED
      BY <3>3 DEF Stray
  <2>5. Strays' = Strays \ {t}
    BY <1>1, <2>2, <2>4, StraysOfUpdate
  <2> QED
    BY <1>4, <2>3, <2>5, ContractSteps
<1>7. ASSUME NEW restart \in BOOLEAN, tmr_start(t, restart)
      PROVE  Contract!CNext \/ UNCHANGED Contract!cvars
  <2> DEFINE r == TmrAfterStart(tmr[t], restart)
             o == OsAfterStart(tmr[t], os[t], restart)
  <2>1. tmr' = [tmr EXCEPT ![t] = r] /\ os' = [os EXCEPT ![t] = o]
    BY <1>7 DEF tmr_start
  <2>2. /\ r.mode = tmr[t].mode /\ r.lua_ref = tmr[t].lua_ref /\ r.idle = FALSE
        /\ TimerInv(r, o, "live")
    BY <1>3, StartedFields, StartKeepsTimerInv
  <2>3. CASE tmr[t].mode # "off"
    <3>1. View(r) = [run |-> TRUE, mode |-> tmr[t].mode, func |-> tmr[t].lua_ref]
      BY <2>2, <2>3 DEF View
    <3>2. Timer' = [Timer EXCEPT ![t] = View(r)]
      BY <1>1, <2>1, ViewOfUpdate
    <3>3. ~Stray(o)
      BY <2>2, <2>3 DEF TimerInv, Stray
    <3>4. Strays' = Strays \ {t}
      BY <1>1, <2>1, <3>3, StraysOfUpdate
    <3> HIDE DEF r, o
    <3> QED
      BY <1>4, <2>3, <3>1, <3>2, <3>4, ContractSteps
  <2>4. CASE tmr[t].mode = "off"
    <3>1. View(r) = View(tmr[t])
      BY <1>3, <2>2, <2>4 DEF View, Tmr
    <3>2. Timer' = [Timer EXCEPT ![t] = View(tmr[t])]
      BY <1>1, <2>1, <3>1, ViewOfUpdate
    <3>3. Timer' = Timer
      BY <3>2 DEF Timer
    <3>4. CASE Starts(tmr[t], restart)
      <4>1. Stray(o)
        BY <1>3, <2>4, <3>4, StartedOsFields DEF Stray
      <4>2. Strays' = Strays \cup {t}
        BY <1>1, <2>1, <4>1, StraysOfUpdate
      <4> QED
        BY <1>4, <2>4, <3>3, <4>2, ContractSteps
    <3>5. CASE ~Starts(tmr[t], restart)
      <4>1. o = os[t]
        BY <1>3, <3>5, StartedOsFields
      <4>2. Strays' = Strays
        BY <1>1, <2>1, <4>1, StraysOfUpdate
      <4> QED
        BY <1>4, <3>3, <4>2, ContractSteps
    <3> QED
      BY <3>4, <3>5
  <2> QED
    BY <2>3, <2>4
<1>8. ASSUME tmr_stop(t)
      PROVE  Contract!CNext \/ UNCHANGED Contract!cvars
  <2> DEFINE r == [tmr[t] EXCEPT !.self_ref = FALSE, !.idle = TRUE]
  <2>1. /\ tmr' = [tmr EXCEPT ![t] = r]
        /\ os' = [os EXCEPT ![t] = OsAfterUnregister(tmr[t], os[t])]
    BY <1>1, <1>8 DEF tmr_stop, OsAfterUnregister
  <2>2. Strays' = Strays
    BY <1>1, <1>3, <2>1, StraysOfUpdate, StrayFields
  <2>3. View(r) = [run |-> FALSE, mode |-> tmr[t].mode, func |-> tmr[t].lua_ref]
    BY <1>3 DEF View, Tmr
  <2>4. Timer' = [Timer EXCEPT ![t] = View(r)]
    BY <1>1, <2>1, ViewOfUpdate
  <2> HIDE DEF r
  <2>5. CASE tmr[t].mode # "off"
    BY <1>4, <2>2, <2>3, <2>4, <2>5, ContractSteps
  <2>6. CASE tmr[t].mode = "off"
    <3>1. View(r) = View(tmr[t])
      BY <1>3, <2>3, <2>6 DEF View
    <3>2. Timer' = Timer
      BY <2>4, <3>1 DEF Timer
    <3> QED
      BY <1>4, <2>2, <3>2, ContractSteps
  <2> QED
    BY <2>5, <2>6
<1>9. ASSUME tmr_unregister(t)
      PROVE  Contract!CNext
  <2>1. /\ tmr' = [tmr EXCEPT ![t] = Dropped(tmr[t])]
        /\ os' = [os EXCEPT ![t] = OsAfterUnregister(tmr[t], os[t])]
    BY <1>9 DEF tmr_unregister
  <2>2. View(Dropped(tmr[t])) = Contract!Unregistered
    BY <1>3 DEF View, Dropped, Tmr, Contract!Unregistered
  <2>3. Timer' = [Timer EXCEPT ![t] = Contract!Unregistered]
    BY <1>1, <2>1, <2>2, ViewOfUpdate
  <2>4. Strays' = Strays
    BY <1>1, <1>3, <2>1, StraysOfUpdate, StrayFields
  <2> QED
    BY <1>4, <2>3, <2>4, ContractSteps
\* Changing the interval is invisible.
<1>10. ASSUME NEW i \in Intervals, tmr_interval(t, i)
       PROVE  UNCHANGED Contract!cvars
  <2> DEFINE r == [tmr[t] EXCEPT !.interval = i]
             o == IF tmr[t].idle THEN os[t] ELSE Armed(os[t], i, tmr[t].mode)
  <2>1. tmr' = [tmr EXCEPT ![t] = r] /\ os' = [os EXCEPT ![t] = o]
    BY <1>1, <1>10 DEF tmr_interval
  <2>2. View(r) = View(tmr[t])
    BY <1>3 DEF View, Tmr
  <2>3. Timer' = [Timer EXCEPT ![t] = View(tmr[t])]
    BY <1>1, <2>1, <2>2, ViewOfUpdate
  <2>4. Timer' = Timer
    BY <2>3 DEF Timer
  <2>5. Stray(o) <=> Stray(os[t])
    BY <1>3, <1>10 DEF tmr_interval, TimerInv, Stray, Armed, OsTimer, Tmr
  <2>6. Strays' = Strays
    BY <1>1, <2>1, <2>5, StraysOfUpdate
  <2> QED
    BY <1>4, <2>4, <2>6, ContractSteps
<1> QED
  BY <1>5, <1>6, <1>7, <1>8, <1>9, <1>10 DEF Method

\* The expiry of a started timer, or of a stray.
LEMMA ExpiryRefines ==
  ASSUME Inv, NEW t \in Timers, alarm_timer_common(t)
  PROVE  Contract!CNext
<1>1. /\ tmr \in [Timers -> Tmr] /\ os \in [Timers -> OsTimer]
      /\ tmr[t] \in Tmr /\ os[t] \in OsTimer /\ TimerInv(tmr[t], os[t], "live")
      /\ call = NoCall /\ os[t].armed
  BY InvIsPerTimer DEF alarm_timer_common
<1>2. os' = [os EXCEPT ![t] = IF os[t].by = "auto" THEN os[t] ELSE Disarmed(os[t])]
  BY DEF alarm_timer_common
<1>3. Timer[t] = View(tmr[t])
  BY DEF Timer
<1>4. CASE Stray(os[t])
  <2>1. ~Running(tmr[t]) /\ os[t].by # "auto"
    BY <1>1, <1>4 DEF TimerInv, Stray
  <2>2. ~Stray(Disarmed(os[t]))
    BY <1>1, StrayFields
  <2>3. Strays' = Strays \ {t} /\ t \in Strays
    BY <1>1, <1>2, <1>4, <2>1, <2>2, StraysOfUpdate DEF Strays
  <2>4. CASE tmr[t].lua_ref = NoRef
    <3>1. UNCHANGED <<tmr, call>> /\ tmr[t].mode = "off"
      BY <1>1, <2>4 DEF alarm_timer_common, TimerInv
    <3>2. Contract!CStrayExpires(t)
      BY <1>1, <2>3, <3>1 DEF Contract!CStrayExpires, Contract!Registered,
         Contract!NoCall, NoCall, Strays
    <3> QED
      BY <3>2 DEF Contract!CNext
  <2>5. CASE tmr[t].lua_ref # NoRef
    <3>1. /\ tmr[t].mode # "off" /\ tmr' = [tmr EXCEPT ![t] = Expired(tmr[t])]
          /\ call'.timer = t /\ call'.func = tmr[t].lua_ref
      BY <1>1, <2>5 DEF alarm_timer_common, TimerInv
    <3>2. Expired(tmr[t]) = tmr[t]
      BY <1>1, <2>1, <3>1 DEF Expired, Tmr
    <3>3. tmr' = tmr
      BY <1>1, <3>1, <3>2
    <3>4. Contract!CStrayExpires(t)
      BY <1>1, <2>3, <3>1, <3>3 DEF Contract!CStrayExpires, Contract!Registered,
         Contract!NoCall, NoCall, Strays
    <3> QED
      BY <3>4 DEF Contract!CNext
  <2> QED
    BY <2>4, <2>5
<1>5. CASE ~Stray(os[t])
  <2>1. Running(tmr[t]) /\ tmr[t].lua_ref # NoRef
    BY <1>1, <1>5 DEF TimerInv, Tmr
  <2>2. /\ tmr' = [tmr EXCEPT ![t] = Expired(tmr[t])]
        /\ call'.timer = t /\ call'.func = tmr[t].lua_ref
    BY <2>1 DEF alarm_timer_common
  <2>3. View(Expired(tmr[t])) = Contract!AfterExpiry(View(tmr[t]))
    <3>1. CASE tmr[t].mode = "single"
      BY <1>1, <2>1, <3>1 DEF View, Expired, Contract!AfterExpiry,
         Contract!Unregistered, Tmr
    <3>2. CASE tmr[t].mode = "semi"
      BY <1>1, <2>1, <3>2 DEF View, Expired, Contract!AfterExpiry, Tmr
    <3>3. CASE tmr[t].mode \notin {"single", "semi"}
      BY <1>1, <2>1, <3>3 DEF View, Expired, Contract!AfterExpiry, Tmr
    <3>4. QED
      BY <3>1, <3>2, <3>3
  <2>4. Timer' = [Timer EXCEPT ![t] = View(Expired(tmr[t]))]
    BY <1>1, <2>2, ViewOfUpdate
  <2>5. View(tmr[t]).run /\ View(tmr[t]).func = tmr[t].lua_ref
    BY <2>1 DEF View
  <2>6. Strays' = Strays
    <3>1. ~Stray(Disarmed(os[t]))
      BY <1>1, StrayFields
    <3> QED
      BY <1>1, <1>2, <1>5, <3>1, StraysOfUpdate
  <2>7. Contract!CExpire(t)
    BY <1>1, <1>3, <2>2, <2>3, <2>4, <2>5, <2>6
       DEF Contract!CExpire, Contract!NoCall, NoCall, Timer, View, Strays
  <2> QED
    BY <2>7 DEF Contract!CNext
<1> QED
  BY <1>4, <1>5

\* A chip that starts, or restarts, shows the contract's first state.
LEMMA StartState ==
  /\ Init => Contract!CInit
  /\ ChipRestarts => Contract!CInit'
<1>1. View(NewTmr) = Contract!Unregistered
  BY DEF View, NewTmr, Contract!Unregistered
<1>2. ~Stray(NewOs)
  BY DEF Stray, NewOs
<1>3. ASSUME Init PROVE Contract!CInit
  <2>1. Timer = [t \in Timers |-> Contract!Unregistered]
    BY <1>1, <1>3 DEF Init, Timer
  <2>2. Strays = {} /\ Call = Contract!NoCall
    BY <1>2, <1>3 DEF Init, NoCall, Strays, Call, Contract!NoCall
  <2> QED
    BY <2>1, <2>2 DEF Contract!CInit, Timer, Strays, Call, View
<1>4. ASSUME ChipRestarts PROVE Contract!CInit'
  <2>1. Timer' = [t \in Timers |-> Contract!Unregistered]
    BY <1>1, <1>4 DEF ChipRestarts, Timer, View
  <2>2. Strays' = {} /\ Call' = Contract!NoCall
    BY <1>2, <1>4 DEF ChipRestarts, NoCall, Strays, Stray, Call, Contract!NoCall
  <2> QED
    BY <2>1, <2>2 DEF Contract!CInit, Timer, Strays, Call, View
<1> QED
  BY <1>3, <1>4

\* Every step of tmr.c is a step of the contract or invisible to it.
LEMMA NextRefines ==
  ASSUME Inv, [Next]_vars
  PROVE  [Contract!CNext]_(Contract!cvars)
<1>1. /\ tmr \in [Timers -> Tmr] /\ os \in [Timers -> OsTimer]
      /\ \A t \in Timers : TimerInv(tmr[t], os[t], heap[t])
  BY InvIsPerTimer
<1>2. ASSUME NEW t \in Timers, tmr_create(t) PROVE Contract!CNext
  <2>1. View(NewTmr) = Contract!Unregistered
    BY DEF View, NewTmr, Contract!Unregistered
  <2>2. Timer' = [Timer EXCEPT ![t] = Contract!Unregistered]
    BY <1>1, <1>2, <2>1, ViewOfUpdate DEF tmr_create
  <2>3. Stray(NewOs) <=> Stray(os[t])
    BY <1>2 DEF Stray, NewOs, tmr_create
  <2>4. Strays' = Strays
    BY <1>1, <1>2, <2>3, StraysOfUpdate DEF tmr_create
  <2>5. Call' = Call
    BY <1>2 DEF tmr_create, Call
  <2> QED
    BY <2>2, <2>4, <2>5, ContractSteps
<1>3. ASSUME NEW t \in Timers, Collect(t) PROVE Contract!CNext
  <2>1. View(NewTmr) = Contract!Unregistered
    BY DEF View, NewTmr, Contract!Unregistered
  <2>2. Timer' = [Timer EXCEPT ![t] = Contract!Unregistered]
    BY <1>1, <1>3, <2>1, ViewOfUpdate DEF Collect
  <2>3. TimerInv(tmr[t], os[t], "live") /\ tmr[t] \in Tmr /\ os[t] \in OsTimer
    BY <1>1, <1>3 DEF Collect
  <2>4. Strays' = Strays
    <3> DEFINE o == [OsAfterUnregister(tmr[t], os[t]) EXCEPT !.fn = FALSE]
    <3>1. os' = [os EXCEPT ![t] = o]
      BY <1>3 DEF Collect
    <3>2. Stray(o) <=> Stray(os[t])
      BY <2>3, StrayFields
    <3> HIDE DEF o
    <3> QED
      BY <1>1, <3>1, <3>2, StraysOfUpdate
  <2>5. Call' = Call
    BY <1>3 DEF Collect, Call
  <2> QED
    BY <2>2, <2>4, <2>5, ContractSteps
<1>4. ASSUME NEW t \in Timers, Method(t)
      PROVE  Contract!CNext \/ UNCHANGED Contract!cvars
  BY <1>4, MethodRefines
\* What the program refers to is invisible.
<1>5. ASSUME NEW t \in Timers, Forget(t) \/ Keep(t)
      PROVE  UNCHANGED Contract!cvars
  BY <1>5, ContractSteps DEF Forget, Keep, Timer, View, Strays, Call
<1>6. ASSUME NEW t \in Timers, alarm_timer_common(t) PROVE Contract!CNext
  BY <1>6, ExpiryRefines
<1>7. ASSUME NEW t \in Timers, WildExpiry(t)
      PROVE  Contract!CNext
  <2>1. ~Running(tmr[t]) /\ Stray(os[t]) /\ os[t] \in OsTimer /\ call = NoCall
    BY <1>1, <1>7 DEF WildExpiry, TimerInv
  <2>2. t \in Strays
    BY <2>1 DEF Strays
  <2>3. CASE ChipRestarts
    <3>1. Contract!CRestart
      BY <2>2, <2>3, StartState DEF Contract!CRestart, Strays
    <3> QED
      BY <3>1 DEF Contract!CNext
  <2>4. CASE ~ChipRestarts
    <3>1. os' = [os EXCEPT ![t] = Disarmed(os[t])] /\ UNCHANGED <<tmr, heap, held, call>>
      BY <1>7, <2>4 DEF WildExpiry
    <3>2. ~Stray(Disarmed(os[t]))
      BY <2>1 DEF Stray, Disarmed, NewOs, OsTimer
    <3>3. Strays' = Strays \ {t}
      BY <1>1, <3>1, <3>2, StraysOfUpdate
    <3>4. tmr[t].mode = "off"
      BY <1>1, <1>7 DEF WildExpiry, TimerInv, Tmr
    <3>5. Contract!CStrayExpires(t)
      BY <2>1, <2>2, <3>1, <3>3, <3>4 DEF Contract!CStrayExpires, Contract!Registered,
         Contract!NoCall, NoCall, Strays
    <3> QED
      BY <3>5 DEF Contract!CNext
  <2> QED
    BY <2>3, <2>4
<1>8. CASE CallbackReturns
  <2>1. Timer' = Timer /\ Strays' = Strays /\ Call' = Contract!NoCall
    BY <1>8 DEF CallbackReturns, Timer, View, Strays, Call, Contract!NoCall, NoCall
  <2>2. CASE Call = Contract!NoCall
    BY <2>1, <2>2, ContractSteps
  <2>3. CASE Call # Contract!NoCall
    <3>1. Contract!CReturn
      BY <2>1, <2>3 DEF Contract!CReturn, Timer, View, Strays, Call
    <3>2. QED
      BY <3>1 DEF Contract!CNext
  <2>4. QED
    BY <2>2, <2>3
<1>9. CASE UNCHANGED vars
  BY <1>9, ContractSteps DEF vars, Timer, View, Strays, Call
<1> QED
  BY <1>2, <1>3, <1>4, <1>5, <1>6, <1>7, <1>8, <1>9 DEF Next

\* tmr.c implements the timer contract, whatever sequence of calls is made.
THEOREM TmrImplementsContract == Spec => ImplementsContract
<1>1. Init => Contract!CInit
  BY StartState
<1>2. Inv /\ [Next]_vars => [Contract!CNext]_(Contract!cvars)
  BY NextRefines
<1>3. QED
  BY TmrInvariant, <1>1, <1>2, PTL DEF Spec, ImplementsContract, Contract!CSpec

-----------------------------------------------------------------------------
(* The clock and the watchdog of the same file, module TmrClock.            *)

ClockType ==
  /\ ticks \in Nat /\ boot \in 0 .. RtcMod - 1 /\ sinceCb \in 0 .. Period
  /\ rtc_time_cali \in Calibrations \cup {0}
  /\ last_rtc_time_us \in Nat /\ refTicks \in 0 .. ticks
  /\ soft_watchdog \in Int /\ armedAt \in 0 .. ticks /\ timeout \in Int
  /\ restarted \in BOOLEAN

\* The calls of rtc_callback() since the watchdog was armed.
Calls == timeout - soft_watchdog

\* The callback runs every Period ticks, the first time within one of them: so the
\* count that is left says how long ago softwd() was called.
Watched ==
  IF restarted
  THEN timeout >= 0 /\ ticks - armedAt >= timeout * Period
  ELSE IF timeout < 0 THEN soft_watchdog < 0
  ELSE /\ soft_watchdog \in 0 .. timeout
       /\ (Calls - 1) * Period <= ticks - armedAt - sinceCb
       /\ ticks - armedAt - sinceCb <= Calls * Period

\* The reference point was moved, or was not due, at the last callback.
Referenced ==
  /\ last_rtc_time = (boot + refTicks) % RtcMod
  /\ ticks - refTicks < sinceCb + Period

ClockInv == ClockType /\ Watched /\ Referenced

\* Both assumptions of TmrClock on its constants.
LEMMA ClockConstants ==
  /\ RtcMod \in Nat \ {0} /\ Frac \in Nat \ {0} /\ Threshold \in Nat \ {0}
  /\ Period \in Nat \ {0} /\ 2 * Period <= RtcMod
  /\ Calibrations \subseteq Nat \ {0} /\ Timeouts \subseteq Int
  /\ \A cali \in Calibrations : (Period * cali) \div Frac >= Threshold
BY ClockAssumption, SecondAssumption DEF rtc2usec

\* The difference of two readings of a counter that wraps.
LEMMA WrappedDifference ==
  \A m \in Nat \ {0}, b, r, t \in Nat :
    r <= t /\ t - r < m => (((b + t) % m) - ((b + r) % m)) % m = t - r
<1> SUFFICES ASSUME NEW m \in Nat \ {0}, NEW b \in Nat, NEW r \in Nat, NEW t \in Nat,
                    r <= t, t - r < m
             PROVE  (((b + t) % m) - ((b + r) % m)) % m = t - r
  OBVIOUS
<1>1. PICK x \in 0 .. m - 1, i \in Nat : b + t = m * i + x /\ x = (b + t) % m
  <2>1. (b + t) % m \in 0 .. m - 1 /\ b + t = m * ((b + t) \div m) + ((b + t) % m)
    OBVIOUS
  <2>2. (b + t) \div m \in Nat
    OBVIOUS
  <2> QED
    BY <2>1, <2>2
<1>2. PICK y \in 0 .. m - 1, j \in Nat : b + r = m * j + y /\ y = (b + r) % m
  <2>1. (b + r) % m \in 0 .. m - 1 /\ b + r = m * ((b + r) \div m) + ((b + r) % m)
    OBVIOUS
  <2>2. (b + r) \div m \in Nat
    OBVIOUS
  <2> QED
    BY <2>1, <2>2
<1>3. PICK k \in Int : k = i - j
  OBVIOUS
<1>4. x - y = (t - r) - m * k
  <2>1. m * k = m * i - m * j
    BY <1>3
  <2>2. PICK u \in Int, v \in Int : u = m * i /\ v = m * j
    OBVIOUS
  <2>3. b + t = u + x /\ b + r = v + y /\ m * k = u - v
    BY <1>1, <1>2, <2>1, <2>2
  <2>4. x - y = (t - r) - (u - v)
    BY <2>3
  <2> QED
    BY <2>3, <2>4
<1>5. k = 0 \/ k = 1
  <2>1. ~(k <= -1)
    <3> SUFFICES ASSUME k <= -1 PROVE FALSE
      OBVIOUS
    <3>1. m * k <= -m
      OBVIOUS
    <3> QED
      BY <1>4, <3>1
  <2>2. ~(k >= 2)
    <3> SUFFICES ASSUME k >= 2 PROVE FALSE
      OBVIOUS
    <3>1. m * k >= 2 * m
      OBVIOUS
    <3> QED
      BY <1>4, <3>1
  <2> QED
    BY <2>1, <2>2
<1>6. CASE k = 0
  <2>1. x - y = t - r /\ x - y \in 0 .. m - 1
    BY <1>4, <1>6
  <2>2. (x - y) % m = x - y
    BY <2>1
  <2> QED
    BY <1>1, <1>2, <2>1, <2>2
<1>7. CASE k = 1
  <2>1. (x - y) + m = t - r /\ (x - y) + m \in 0 .. m - 1
    BY <1>4, <1>7
  <2>2. (x - y) % m = (x - y) + m
    BY <2>1
  <2> QED
    BY <1>1, <1>2, <2>1, <2>2
<1> QED
  BY <1>5, <1>6, <1>7

\* A division does not change the order.
LEMMA DivOrder ==
  ASSUME NEW f \in Nat \ {0}, NEW c \in Nat \ {0}, NEW p \in Nat, NEW q \in Nat,
         (p * c) \div f < (q * c) \div f
  PROVE  p < q
  OBVIOUS

\* The unsigned difference that rtc_timer_update() computes is the ticks since the
\* reference point: the counter does not wrap unnoticed.
LEMMA DifferenceExact ==
  ASSUME ClockInv
  PROVE  SinceLast(system_get_rtc_time, last_rtc_time) = ticks - refTicks
<1>1. /\ RtcMod \in Nat \ {0} /\ Period \in Nat \ {0} /\ 2 * Period <= RtcMod
  BY ClockConstants
<1>2. /\ boot \in Nat /\ ticks \in Nat /\ refTicks \in Nat /\ refTicks <= ticks
      /\ ticks - refTicks < RtcMod
      /\ last_rtc_time = (boot + refTicks) % RtcMod
  BY <1>1 DEF ClockInv, ClockType, Referenced
<1>3. (((boot + ticks) % RtcMod) - ((boot + refTicks) % RtcMod)) % RtcMod = ticks - refTicks
  <2>1. RtcMod \in Nat \ {0} /\ boot \in Nat /\ refTicks \in Nat /\ ticks \in Nat
    BY <1>1, <1>2
  <2>2. refTicks <= ticks /\ ticks - refTicks < RtcMod
    BY <1>2
  <2> QED
    BY ONLY <2>1, <2>2, WrappedDifference, SMT
<1> QED
  BY <1>2, <1>3 DEF SinceLast, system_get_rtc_time

\* The first second begins.
LEMMA ClockInvInit ==
  ASSUME ClockInit PROVE ClockInv
<1>1. RtcMod \in Nat \ {0} /\ Period \in Nat \ {0}
  BY ClockConstants
<1>2. boot \in 0 .. RtcMod - 1
  BY DEF ClockInit
<1>3. boot % RtcMod = boot
  BY <1>1, <1>2
<1>4. ClockType
  <2>1. rtc_time_cali \in Calibrations \cup {0} /\ soft_watchdog \in Int /\ timeout \in Int
    BY DEF ClockInit
  <2>3. restarted \in BOOLEAN
    BY DEF ClockInit
  <2>2. /\ ticks \in Nat /\ sinceCb \in 0 .. Period /\ last_rtc_time_us \in Nat
        /\ refTicks \in 0 .. ticks /\ armedAt \in 0 .. ticks
    BY <1>1 DEF ClockInit
  <2> QED
    BY <1>2, <2>1, <2>2, <2>3 DEF ClockType
<1>5. Watched
  BY DEF ClockInit, Watched
<1>6. Referenced
  BY <1>1, <1>2, <1>3 DEF ClockInit, Referenced
<1> QED
  BY <1>4, <1>5, <1>6 DEF ClockInv

\* rtc_timer_update(): the reference point moves to the present, or the time since it is
\* less than that of a second.
LEMMA UpdateFacts ==
  ASSUME ClockInv,
         NEW cali \in Calibrations, rtc_timer_update(cali)
  PROVE  LET us == ((ticks - refTicks) * cali) \div Frac
         IN  /\ rtc_time_cali' \in Calibrations
             /\ \/ /\ us >= Threshold
                   /\ last_rtc_time' = (boot + ticks) % RtcMod
                   /\ refTicks' = ticks
                   /\ last_rtc_time_us' = last_rtc_time_us + us
                \/ /\ ticks - refTicks < Period
                   /\ UNCHANGED <<last_rtc_time, last_rtc_time_us, refTicks>>
<1> DEFINE us == ((ticks - refTicks) * cali) \div Frac
<1>1. UsSinceLast(cali) = us
  BY DifferenceExact DEF UsSinceLast, rtc2usec
<1>2. CASE us >= Threshold
  BY <1>1, <1>2 DEF rtc_timer_update, MovesReference, Now,
                    system_get_rtc_time
<1>3. CASE ~(us >= Threshold)
  <2>1. /\ ticks - refTicks \in Nat /\ Period \in Nat /\ Frac \in Nat \ {0}
        /\ cali \in Nat \ {0} /\ Threshold \in Nat
        /\ (Period * cali) \div Frac >= Threshold
    BY ClockConstants DEF ClockInv, ClockType
  <2>2. us \in Int /\ (Period * cali) \div Frac \in Int
    BY <2>1
  <2>3. us < (Period * cali) \div Frac
    BY <1>3, <2>1, <2>2
  <2>4. ticks - refTicks < Period
    BY <2>1, <2>3, DivOrder
  <2> QED
    BY <1>1, <1>3, <2>4 DEF rtc_timer_update, MovesReference
<1> QED
  BY <1>2, <1>3

\* The products of the watchdog: one more second is one more Period.
LEMMA OneMoreSecond ==
  ASSUME NEW n \in Int, NEW P \in Nat
  PROVE  n * P \in Int /\ (n - 1) * P = n * P - P /\ (n + 1) * P = n * P + P
  OBVIOUS

\* A tick of the counter.
LEMMA TickKeeps ==
  ASSUME ClockInv, Tick
  PROVE  ClockInv'
<1>1. /\ ~restarted /\ sinceCb < Period /\ ticks' = ticks + 1 /\ sinceCb' = sinceCb + 1
      /\ UNCHANGED <<boot, rtc_time_cali, last_rtc_time, last_rtc_time_us, refTicks, time,
                     soft_watchdog, armedAt, timeout, restarted>>
  BY DEF Tick, rtc, wd
<1>2. Period \in Nat \ {0} /\ ClockType
  BY ClockConstants DEF ClockInv
<1>3. ClockType'
  BY <1>1, <1>2 DEF ClockType
<1>4. ticks' - armedAt' - sinceCb' = ticks - armedAt - sinceCb
  BY <1>1, <1>2 DEF ClockType
<1>5. Watched'
  BY <1>1, <1>4 DEF ClockInv, Watched, Calls
<1>6. Referenced'
  BY <1>1, <1>2 DEF ClockInv, ClockType, Referenced
<1> QED
  BY <1>3, <1>5, <1>6 DEF ClockInv

\* The reference point after rtc_timer_update(), with the callback's second over or not.
LEMMA UpdateKeeps ==
  ASSUME ClockInv,
         NEW cali \in Calibrations, rtc_timer_update(cali),
         UNCHANGED <<ticks, boot>>, sinceCb' \in {0, sinceCb}
  PROVE  /\ Referenced'
         /\ last_rtc_time_us' \in Nat /\ refTicks' \in 0 .. ticks
         /\ rtc_time_cali' \in Calibrations \cup {0}
<1> DEFINE us == ((ticks - refTicks) * cali) \div Frac
<1>1. /\ rtc_time_cali' \in Calibrations
      /\ \/ /\ us >= Threshold
            /\ last_rtc_time' = (boot + ticks) % RtcMod
            /\ refTicks' = ticks
            /\ last_rtc_time_us' = last_rtc_time_us + us
         \/ /\ ticks - refTicks < Period
            /\ UNCHANGED <<last_rtc_time, last_rtc_time_us, refTicks>>
  BY UpdateFacts
<1>2. /\ Period \in Nat \ {0} /\ Frac \in Nat \ {0} /\ cali \in Nat \ {0} /\ ClockType
      /\ Threshold \in Nat
  BY ClockConstants DEF ClockInv
<1>3. us \in Int
  BY <1>2 DEF ClockType
<1> HIDE DEF us
<1>4. last_rtc_time_us' \in Nat /\ refTicks' \in 0 .. ticks
  BY <1>1, <1>2, <1>3 DEF ClockType
<1>5. Referenced'
  <2>1. last_rtc_time' = (boot' + refTicks') % RtcMod
    BY <1>1 DEF ClockInv, Referenced
  <2>2. ticks' - refTicks' < sinceCb' + Period
    BY <1>1, <1>2 DEF ClockInv, ClockType, Referenced
  <2> QED
    BY <2>1, <2>2 DEF Referenced
<1> QED
  BY <1>1, <1>4, <1>5

\* rtc_callback(): the watchdog is counted down, and restarts the chip or not.
LEMMA CallbackKeeps ==
  ASSUME ClockInv, rtc_callback
  PROVE  ClockInv'
<1>1. PICK cali \in Calibrations : rtc_timer_update(cali)
  BY DEF rtc_callback
<1>2. /\ ~restarted /\ sinceCb = Period /\ sinceCb' = 0
      /\ UNCHANGED <<ticks, boot, time, armedAt, timeout>>
      /\ soft_watchdog >= 0 => /\ soft_watchdog' = soft_watchdog - 1
                               /\ restarted' \in BOOLEAN
                               /\ restarted' <=> soft_watchdog - 1 < 0
      /\ ~(soft_watchdog >= 0) => UNCHANGED <<soft_watchdog, restarted>>
  <2>1. soft_watchdog >= 0 => /\ soft_watchdog' = soft_watchdog - 1
                              /\ restarted' = Bites(soft_watchdog - 1)
    BY DEF rtc_callback
  <2>2. Bites(soft_watchdog - 1) \in BOOLEAN
    BY DEF Bites
  <2>3. soft_watchdog >= 0 => restarted' \in BOOLEAN /\ (restarted' <=> soft_watchdog - 1 < 0)
    BY <2>1, <2>2, Zenon DEF Bites
  <2> QED
    BY <2>1, <2>3 DEF rtc_callback
<1>3. /\ Referenced' /\ last_rtc_time_us' \in Nat /\ refTicks' \in 0 .. ticks
      /\ rtc_time_cali' \in Calibrations \cup {0}
  BY <1>1, <1>2, UpdateKeeps
<1>4. /\ Period \in Nat \ {0} /\ ticks \in Nat /\ armedAt \in 0 .. ticks /\ timeout \in Int
      /\ soft_watchdog \in Int /\ restarted \in BOOLEAN
  BY ClockConstants DEF ClockInv, ClockType
<1>5. restarted' \in BOOLEAN /\ soft_watchdog' \in Int
  BY <1>2, <1>4
<1>6. ClockType'
  BY <1>2, <1>3, <1>4, <1>5 DEF ClockInv, ClockType
<1>7. CASE timeout < 0
  <2>1. soft_watchdog < 0
    BY <1>2, <1>7 DEF ClockInv, Watched
  <2>2. UNCHANGED <<soft_watchdog, restarted>>
    BY <1>2, <1>4, <2>1
  <2>3. Watched'
    BY <1>2, <1>7, <2>1, <2>2 DEF Watched
  <2> QED
    BY <1>3, <1>6, <2>3 DEF ClockInv
<1>8. CASE timeout >= 0
  <2>1. PICK age \in Int : age = ticks - armedAt
    BY <1>4
  <2>2. PICK n \in Int : n = timeout - soft_watchdog
    BY <1>4
  <2>3. /\ soft_watchdog \in 0 .. timeout
        /\ (n - 1) * Period <= age - sinceCb /\ age - sinceCb <= n * Period
    BY <1>2, <1>4, <1>8, <2>1, <2>2 DEF ClockInv, Watched, Calls
  <2>4. PICK s \in Int : s = n * Period /\ (n - 1) * Period = s - Period
                         /\ (n + 1) * Period = s + Period
    BY <1>4, <2>2, OneMoreSecond
  <2>5. s <= age /\ age <= s + Period
    BY <1>2, <1>4, <2>1, <2>3, <2>4
  <2>6. CASE soft_watchdog = 0
    <3>1. restarted' /\ n = timeout
      BY <1>2, <1>4, <2>2, <2>6
    <3>2. ticks' - armedAt' >= timeout' * Period
      BY <1>2, <2>1, <2>4, <2>5, <3>1
    <3>3. Watched'
      BY <1>2, <1>8, <3>1, <3>2 DEF Watched
    <3> QED
      BY <1>3, <1>6, <3>3 DEF ClockInv
  <2>7. CASE soft_watchdog # 0
    <3>1. ~restarted' /\ soft_watchdog' = soft_watchdog - 1 /\ soft_watchdog' \in 0 .. timeout
      BY <1>2, <1>4, <2>3, <2>7
    <3>2. Calls' = n + 1 /\ Calls' - 1 = n
      BY <1>2, <1>4, <2>2, <3>1 DEF Calls
    <3>3. ticks' - armedAt' - sinceCb' = age
      BY <1>2, <1>4, <2>1
    <3>4. /\ (Calls' - 1) * Period <= ticks' - armedAt' - sinceCb'
          /\ ticks' - armedAt' - sinceCb' <= Calls' * Period
      BY <2>4, <2>5, <3>2, <3>3
    <3>5. Watched'
      BY <1>2, <1>4, <1>8, <3>1, <3>4 DEF Watched
    <3> QED
      BY <1>3, <1>6, <3>5 DEF ClockInv
  <2> QED
    BY <2>6, <2>7
<1> QED
  BY <1>4, <1>7, <1>8

\* tmr.time() and tmr.softwd().
LEMMA CallsKeep ==
  ASSUME ClockInv,
         tmr_time \/ \E n \in Timeouts : tmr_softwd(n)
  PROVE  ClockInv'
<1>1. CASE tmr_time
  <2>1. PICK cali \in Calibrations : rtc_timer_update(cali)
    BY <1>1 DEF tmr_time, ClockInv, ClockType
  <2>2. UNCHANGED <<ticks, boot, sinceCb, soft_watchdog, armedAt, timeout, restarted>>
    BY <1>1 DEF tmr_time, wd
  <2>3. /\ Referenced' /\ last_rtc_time_us' \in Nat /\ refTicks' \in 0 .. ticks
        /\ rtc_time_cali' \in Calibrations \cup {0}
    BY <2>1, <2>2, UpdateKeeps
  <2>4. ClockType'
    BY <2>2, <2>3 DEF ClockInv, ClockType
  <2>5. Watched'
    BY <2>2 DEF ClockInv, Watched, Calls
  <2> QED
    BY <2>3, <2>4, <2>5 DEF ClockInv
<1>2. ASSUME NEW n \in Timeouts, tmr_softwd(n) PROVE ClockInv'
  <2>1. /\ ~restarted /\ soft_watchdog' = n /\ armedAt' = ticks /\ timeout' = n
        /\ UNCHANGED <<ticks, boot, sinceCb, rtc_time_cali, last_rtc_time, last_rtc_time_us,
                       refTicks, time, restarted>>
    BY <1>2 DEF tmr_softwd, rtc
  <2>2. Period \in Nat \ {0} /\ n \in Int /\ ticks \in Nat /\ sinceCb \in 0 .. Period
    BY ClockConstants DEF ClockInv, ClockType
  <2>3. ClockType'
    BY <2>1, <2>2 DEF ClockInv, ClockType
  <2>4. Referenced'
    BY <2>1 DEF ClockInv, Referenced
  <2>5. Calls' = 0 /\ ticks' - armedAt' - sinceCb' = -sinceCb
    BY <2>1, <2>2 DEF Calls
  <2>6. (0 - 1) * Period = -Period /\ 0 * Period = 0
    BY <2>2
  <2>7. Watched'
    BY <2>1, <2>2, <2>5, <2>6 DEF Watched
  <2> QED
    BY <2>3, <2>4, <2>7 DEF ClockInv
<1> QED
  BY <1>1, <1>2

\* Every step of the clock and the watchdog keeps the invariant.
LEMMA ClockInvNext ==
  ASSUME ClockInv, [ClockNext]_(clockVars)
  PROVE  ClockInv'
<1>1. CASE UNCHANGED clockVars
  BY <1>1 DEF clockVars, rtc, wd, ClockInv, ClockType, Watched, Calls, Referenced
<1>2. CASE Tick
  BY <1>2, TickKeeps
<1>3. CASE rtc_callback
  BY <1>3, CallbackKeeps
<1>4. CASE tmr_time \/ \E n \in Timeouts : tmr_softwd(n)
  BY <1>4, CallsKeep
<1> QED
  BY <1>1, <1>2, <1>3, <1>4 DEF ClockNext

\* The watchdog of tmr.softwd(n) bites after n seconds and before n + 1 seconds and a
\* callback have passed, and never when it is off, for every length of a second and any
\* calls in between.
THEOREM WatchdogAlwaysOnTime == ClockSpec => []WatchdogOnTime
<1>1. ClockInit => ClockInv
  BY ClockInvInit
<1>2. ClockInv /\ [ClockNext]_(clockVars) => ClockInv'
  BY ClockInvNext
<1>3. ClockInv => WatchdogOnTime
  <2> SUFFICES ASSUME ClockInv PROVE WatchdogOnTime
    OBVIOUS
  <2>1. restarted => timeout >= 0 /\ ticks - armedAt >= timeout * Period
    BY DEF ClockInv, Watched
  <2>2. ASSUME timeout >= 0, ~restarted PROVE ticks - armedAt <= (timeout + 1) * Period
    <3>1. /\ Period \in Nat \ {0} /\ ticks \in Nat /\ armedAt \in 0 .. ticks /\ timeout \in Int
          /\ soft_watchdog \in Int /\ sinceCb \in 0 .. Period
      BY ClockConstants DEF ClockInv, ClockType
    <3>2. /\ soft_watchdog \in 0 .. timeout
          /\ ticks - armedAt - sinceCb <= Calls * Period
      BY <2>2, <3>1 DEF ClockInv, Watched
    <3>3. Calls \in 0 .. timeout
      BY <3>1, <3>2 DEF Calls
    <3>4. Calls * Period <= timeout * Period
      BY <3>1, <3>3
    <3>5. (timeout + 1) * Period = timeout * Period + Period /\ timeout * Period \in Int
      BY <3>1, OneMoreSecond
    <3>6. Calls * Period \in Int
      BY <3>1, <3>3
    <3> QED
      BY <3>1, <3>2, <3>4, <3>5, <3>6
  <2> QED
    BY <2>1, <2>2 DEF WatchdogOnTime
<1> QED
  BY <1>1, <1>2, <1>3, PTL DEF ClockSpec

\* The difference of two readings is exact in every reachable state: rtc_timer_update()
\* is right that the unsigned subtraction deals with a counter that has wrapped.
THEOREM CounterWrapIsHarmless ==
  ClockSpec => [](SinceLast(system_get_rtc_time, last_rtc_time) = ticks - refTicks)
<1>1. ClockInit => ClockInv
  BY ClockInvInit
<1>2. ClockInv /\ [ClockNext]_(clockVars) => ClockInv'
  BY ClockInvNext
<1>3. ClockInv =>
        SinceLast(system_get_rtc_time, last_rtc_time) = ticks - refTicks
  BY DifferenceExact
<1> QED
  BY <1>1, <1>2, <1>3, PTL DEF ClockSpec

\* A move of the reference point, after t ticks that were worth u microseconds, loses
\* less than one of them and gains at least the threshold.
LEMMA RoundingStep ==
  ASSUME NEW r \in Nat, NEW t \in Nat, NEW c \in Nat, NEW F \in Nat \ {0}, NEW T \in Nat,
         NEW w \in Nat, NEW u \in Nat, u = (t * c) \div F, u >= T,
         0 <= r * c - w * F, (r * c - w * F) * T <= w * F
  PROVE  /\ 0 <= (r + t) * c - (w + u) * F
         /\ ((r + t) * c - (w + u) * F) * T <= (w + u) * F
<1>1. PICK rho \in 0 .. F - 1 : t * c = u * F + rho
  <2>1. t * c \in Nat
    OBVIOUS
  <2>2. (t * c) % F \in 0 .. F - 1 /\ t * c = F * ((t * c) \div F) + ((t * c) % F)
    BY <2>1
  <2> QED
    BY <2>2
<1>2. (r + t) * c = r * c + t * c /\ (w + u) * F = w * F + u * F
  OBVIOUS
<1>3. PICK a \in Nat, b \in Nat, e \in Nat, g \in Nat :
        a = r * c /\ b = w * F /\ e = u * F /\ g = t * c
  <2>1. r * c \in Nat /\ w * F \in Nat /\ u * F \in Nat /\ t * c \in Nat
    OBVIOUS
  <2> QED
    BY <2>1, Zenon
<1>4. PICK L \in Int : L = a - b /\ 0 <= L /\ L * T <= b
  BY <1>3
<1>5. (r + t) * c - (w + u) * F = L + rho
  <2>1. (r + t) * c = a + g /\ (w + u) * F = b + e /\ g = e + rho
    BY <1>1, <1>2, <1>3
  <2> QED
    BY <1>4, <2>1
<1>6. (L + rho) * T = L * T + rho * T
  OBVIOUS
<1>7. rho * T <= F * T
  OBVIOUS
<1>8. F * T <= F * u
  OBVIOUS
<1>9. rho * T <= e
  <2>1. rho * T \in Int /\ F * T \in Int /\ F * u \in Int /\ F * u = e
    BY <1>3
  <2> QED
    BY <1>7, <1>8, <2>1
<1>10. (L + rho) * T <= b + e
  <2>1. L * T \in Int /\ rho * T \in Int
    OBVIOUS
  <2> QED
    BY <1>4, <1>6, <1>9, <2>1
<1>11. L + rho >= 0
  BY <1>4
<1> QED
  BY <1>2, <1>3, <1>5, <1>10, <1>11

\* rtc_timer_update() keeps the bound, whether or not the reference point moves.
LEMMA UpdateRounds ==
  ASSUME ClockInv,
         RoundingDoesNotAccumulate,
         NEW now \in Calibrations, rtc_timer_update(now)
  PROVE  RoundingDoesNotAccumulate'
<1> DEFINE Bounded(cali) ==
      LET lost == refTicks * cali - last_rtc_time_us * Frac
      IN 0 <= lost /\ lost * Threshold <= last_rtc_time_us * Frac
<1>1. SUFFICES ASSUME NEW cali \in Calibrations, Calibrations = {cali} PROVE Bounded(cali)'
  BY DEF RoundingDoesNotAccumulate
<1>2. now = cali
  BY <1>1
<1>3. Bounded(cali)
  BY <1>1 DEF RoundingDoesNotAccumulate
<1> DEFINE us == ((ticks - refTicks) * cali) \div Frac
<1>4. \/ /\ us >= Threshold
         /\ refTicks' = ticks
         /\ last_rtc_time_us' = last_rtc_time_us + us
      \/ UNCHANGED <<last_rtc_time_us, refTicks>>
  BY <1>2, UpdateFacts
<1>5. CASE /\ us >= Threshold
           /\ refTicks' = ticks
           /\ last_rtc_time_us' = last_rtc_time_us + us
  <2>1. /\ refTicks \in Nat /\ cali \in Nat /\ Frac \in Nat \ {0} /\ Threshold \in Nat
        /\ last_rtc_time_us \in Nat /\ ticks \in Nat
    BY ClockConstants DEF ClockInv, ClockType
  <2>2. PICK t \in Nat : t = ticks - refTicks
    BY DEF ClockInv, ClockType
  <2>3. us = (t * cali) \div Frac /\ us \in Nat
    BY <1>5, <2>1, <2>2
  <2> HIDE DEF us
  <2>4. /\ 0 <= (refTicks + t) * cali - (last_rtc_time_us + us) * Frac
        /\ ((refTicks + t) * cali - (last_rtc_time_us + us) * Frac) * Threshold
             <= (last_rtc_time_us + us) * Frac
    BY <1>3, <1>5, <2>1, <2>3, RoundingStep
  <2>5. refTicks + t = ticks
    BY <2>1, <2>2
  <2> QED
    BY <1>5, <2>4, <2>5
<1>6. CASE UNCHANGED <<last_rtc_time_us, refTicks>>
  BY <1>3, <1>6
<1> QED
  BY <1>4, <1>5, <1>6

\* What the comment in rtc_timer_update() claims: moving the reference point only after
\* 100 ms keeps the rounding of rtc2usec() from accumulating to more than one part in
\* Threshold of the time shown, for every calibration and any calls of tmr.time().
THEOREM RoundingNeverAccumulates == ClockSpec => []RoundingDoesNotAccumulate
<1>1. ClockInit => ClockInv
  BY ClockInvInit
<1>2. ClockInv /\ [ClockNext]_(clockVars) => ClockInv'
  BY ClockInvNext
<1>3. ClockInit => RoundingDoesNotAccumulate
  <2> SUFFICES ASSUME ClockInit, NEW cali \in Calibrations
               PROVE  LET lost == refTicks * cali - last_rtc_time_us * Frac
                      IN 0 <= lost /\ lost * Threshold <= last_rtc_time_us * Frac
    BY DEF RoundingDoesNotAccumulate
  <2>1. refTicks = 0 /\ last_rtc_time_us = 0
    BY DEF ClockInit
  <2>2. cali \in Nat /\ Frac \in Nat /\ Threshold \in Nat
    BY ClockConstants
  <2> QED
    BY <2>1, <2>2
<1>4. ClockInv /\ RoundingDoesNotAccumulate /\ [ClockNext]_(clockVars)
        => RoundingDoesNotAccumulate'
  <2> SUFFICES ASSUME ClockInv, RoundingDoesNotAccumulate, [ClockNext]_(clockVars)
               PROVE  RoundingDoesNotAccumulate'
    OBVIOUS
  <2>1. CASE UNCHANGED <<last_rtc_time_us, refTicks>>
    BY <2>1 DEF RoundingDoesNotAccumulate
  <2>2. CASE rtc_callback \/ tmr_time
    <3>1. PICK cali \in Calibrations : rtc_timer_update(cali)
      BY <2>2 DEF rtc_callback, tmr_time, ClockInv, ClockType
    <3> QED
      BY <3>1, UpdateRounds
  <2> QED
    BY <2>1, <2>2 DEF ClockNext, Tick, tmr_softwd, clockVars, rtc
<1> QED
  BY <1>1, <1>2, <1>3, <1>4, PTL DEF ClockSpec
=============================================================================
