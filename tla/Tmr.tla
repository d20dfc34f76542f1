-------------------------------- MODULE Tmr --------------------------------
(***************************************************************************)
(* The Lua timer objects of app/modules/tmr.c: userdata holding an         *)
(* os_timer_t of the SDK, a registry reference to the Lua callback         *)
(* (lua_ref), a registry reference to the userdata itself (self_ref) that  *)
(* keeps a started timer from being collected, the interval and the mode   *)
(* byte (alarm mode, and the idle flag 1<<7).                              *)
(*                                                                         *)
(* The SDK runs everything from one event loop: a method call is atomic,   *)
(* an os_timer expires only when no Lua code runs, and the callback it     *)
(* calls may itself call any method.  The Lua program and its collector    *)
(* are the environment: it may keep or forget a timer, and forgotten       *)
(* timers that no registry reference pins may be collected at any time.    *)
(***************************************************************************)
EXTENDS Naturals

CONSTANTS Timers,      \* userdata slots (a collected one may be created again)
          Intervals,   \* intervals the program asks for
          Callbacks,   \* Lua callback functions
          NoRef        \* LUA_NOREF

ASSUME TmrAssumption ==
  /\ Intervals \subseteq Nat \ {0}
  /\ NoRef \notin Callbacks
  /\ NoRef \notin Timers

VARIABLES tmr,   \* tmr_t: [mode, idle, lua_ref, self_ref, interval]
          os,    \* os_timer_t: [armed, period, by, fn]
          heap,  \* "live" or "free"
          held,  \* timers the Lua program still refers to
          call   \* the Lua callback that runs: [timer, func, arg, used]

vars == <<tmr, os, heap, held, call>>

AlarmModes == {"single", "semi", "auto"}

Tmr == [mode : AlarmModes \cup {"off"}, idle : BOOLEAN,
        lua_ref : Callbacks \cup {NoRef}, self_ref : BOOLEAN,
        interval : Intervals \cup {0}]

\* by: the alarm mode the os_timer was armed for (the SDK is told whether it is
\* "auto"); "off" when start() was called on a timer that is not registered.
OsTimer == [armed : BOOLEAN, period : Intervals \cup {0},
            by : AlarmModes \cup {"off"}, fn : BOOLEAN]

NewTmr == [mode |-> "off", idle |-> FALSE, lua_ref |-> NoRef,
           self_ref |-> FALSE, interval |-> 0]

NewOs == [armed |-> FALSE, period |-> 0, by |-> "off", fn |-> FALSE]

\* arg: the callback is passed its timer (self_ref was still valid);
\* used: it has called a method of its timer (history, for the properties)
NoCall == [timer |-> NoRef, func |-> NoRef, arg |-> FALSE, used |-> FALSE]

Init ==
  /\ tmr = [t \in Timers |-> NewTmr]
  /\ os = [t \in Timers |-> NewOs]
  /\ heap = [t \in Timers |-> "free"]
  /\ held = {}
  /\ call = NoCall

-----------------------------------------------------------------------------
(* The SDK's software timers. *)

\* Its period and mode mean nothing any more.
Disarmed(o) == [NewOs EXCEPT !.fn = o.fn]

Armed(o, interval, m) ==
  [o EXCEPT !.armed = TRUE, !.period = interval, !.by = m]

\* An os_timer armed by start() on a timer that is not registered.
Stray(o) == o.armed /\ o.by = "off"

(* Tests of the mode byte.  TIMER_MODE_OFF|TIMER_IDLE_FLAG is a value of it *)
(* like any other, and equal to no mode.                                    *)

Is(r, m) == r.mode = m /\ ~r.idle

Running(r) == ~r.idle /\ ~Is(r, "off")

-----------------------------------------------------------------------------
(* The Lua program. *)

\* A method can be called on a timer the program refers to, or by the
\* callback that was passed it.
Reachable(t) ==
  heap[t] = "live" /\ (t \in held \/ (call.timer = t /\ call.arg))

\* Methods are called by the running callback, or while none runs.
CalledOn(t) ==
  call' = IF call.timer = t THEN [call EXCEPT !.used = TRUE] ELSE call

\* The new object does not overlay an os_timer that the SDK still has.
tmr_create(t) ==
  /\ heap[t] # "live" /\ ~os[t].armed
  /\ tmr' = [tmr EXCEPT ![t] = NewTmr]
  /\ os' = [os EXCEPT ![t] = NewOs]
  /\ heap' = [heap EXCEPT ![t] = "live"]
  /\ held' = held \cup {t}
  /\ UNCHANGED call

\* The callback reference is replaced (luaL_reref), the timer left idle.
Configured(r, interval, m, f) ==
  [r EXCEPT !.lua_ref = f, !.mode = m, !.idle = TRUE, !.interval = interval]

\* Fault model: register() does not disarm a started timer.
OsAfterRegisterStillArmed(r, o) == [o EXCEPT !.fn = TRUE]

OsAfterRegister(r, o) ==
  [IF Running(r) THEN Disarmed(o) ELSE o EXCEPT !.fn = TRUE]

tmr_register(t, interval, m, f) ==
  /\ Reachable(t)
  /\ tmr' = [tmr EXCEPT ![t] = Configured(@, interval, m, f)]
  /\ os' = [os EXCEPT ![t] = OsAfterRegister(tmr[t], @)]
  /\ CalledOn(t)
  /\ UNCHANGED <<heap, held>>

\* start() pins the userdata first, then refuses a timer that is not idle
\* unless it is to be restarted.
Starts(r, restart) == r.idle \/ restart

\* Fault model: start() does not pin the userdata.
TmrAfterStartUnpinned(r, restart) ==
  [r EXCEPT !.idle = @ /\ ~Starts(r, restart)]

TmrAfterStart(r, restart) ==
  [r EXCEPT !.self_ref = TRUE, !.idle = @ /\ ~Starts(r, restart)]

OsAfterStart(r, o, restart) ==
  IF Starts(r, restart) THEN Armed(o, r.interval, r.mode) ELSE o

tmr_start(t, restart) ==
  /\ Reachable(t)
  /\ tmr' = [tmr EXCEPT ![t] = TmrAfterStart(@, restart)]
  /\ os' = [os EXCEPT ![t] = OsAfterStart(tmr[t], @, restart)]
  /\ CalledOn(t)
  /\ UNCHANGED <<heap, held>>

\* alarm() is register() followed by start() in one call.
tmr_alarm(t, interval, m, f) ==
  /\ Reachable(t)
  /\ LET r == Configured(tmr[t], interval, m, f)
         o == OsAfterRegister(tmr[t], os[t])
     IN /\ tmr' = [tmr EXCEPT ![t] = TmrAfterStart(r, FALSE)]
        /\ os' = [os EXCEPT ![t] = OsAfterStart(r, o, FALSE)]
  /\ CalledOn(t)
  /\ UNCHANGED <<heap, held>>

tmr_stop(t) ==
  /\ Reachable(t)
  /\ tmr' = [tmr EXCEPT ![t].self_ref = FALSE, ![t].idle = TRUE]
  /\ os' = [os EXCEPT ![t] = IF Running(tmr[t]) THEN Disarmed(@) ELSE @]
  /\ CalledOn(t)
  /\ UNCHANGED <<heap, held>>

\* unregister(), which is also the __gc metamethod.
Dropped(r) ==
  [r EXCEPT !.self_ref = FALSE, !.lua_ref = NoRef, !.mode = "off", !.idle = FALSE]

OsAfterUnregister(r, o) == IF Running(r) THEN Disarmed(o) ELSE o

tmr_unregister(t) ==
  /\ Reachable(t)
  /\ tmr' = [tmr EXCEPT ![t] = Dropped(@)]
  /\ os' = [os EXCEPT ![t] = OsAfterUnregister(tmr[t], @)]
  /\ CalledOn(t)
  /\ UNCHANGED <<heap, held>>

\* A running timer is re-armed with the new interval.
tmr_interval(t, interval) ==
  /\ Reachable(t)
  /\ ~Is(tmr[t], "off")
  /\ tmr' = [tmr EXCEPT ![t].interval = interval]
  /\ os' = [os EXCEPT ![t] = IF tmr[t].idle THEN @
                             ELSE Armed(@, interval, tmr[t].mode)]
  /\ CalledOn(t)
  /\ UNCHANGED <<heap, held>>

\* The program drops its last reference to a timer.
Forget(t) ==
  /\ t \in held
  /\ held' = held \ {t}
  /\ UNCHANGED <<tmr, os, heap, call>>

\* The callback keeps the timer it was passed.
Keep(t) ==
  /\ call.timer = t /\ call.arg /\ heap[t] = "live"
  /\ t \notin held
  /\ held' = held \cup {t}
  /\ UNCHANGED <<tmr, os, heap, call>>

\* The collector finalises (__gc) and frees a timer nothing refers to; what the
\* SDK finds in the memory afterwards is WildExpiry's business.
Collect(t) ==
  /\ heap[t] = "live"
  /\ ~Reachable(t)
  /\ ~tmr[t].self_ref
  /\ tmr' = [tmr EXCEPT ![t] = NewTmr]
  /\ os' = [os EXCEPT ![t] = [OsAfterUnregister(tmr[t], @) EXCEPT !.fn = FALSE]]
  /\ heap' = [heap EXCEPT ![t] = "free"]
  /\ UNCHANGED <<held, call>>

-----------------------------------------------------------------------------
(* Expiry. *)

\* Fault model: the expiry of a one-shot timer keeps its self reference.
ExpiredStillPinned(r) ==
  CASE Is(r, "single") -> [r EXCEPT !.lua_ref = NoRef, !.mode = "off"]
    [] Is(r, "semi")   -> [r EXCEPT !.idle = TRUE, !.self_ref = FALSE]
    [] OTHER           -> r

\* Fault model: a one-shot timer is left registered, like a semi-automatic one.
ExpiredStillRegistered(r) ==
  CASE Is(r, "single") -> [r EXCEPT !.idle = TRUE, !.self_ref = FALSE]
    [] Is(r, "semi")   -> [r EXCEPT !.idle = TRUE, !.self_ref = FALSE]
    [] OTHER           -> r

\* What the callback of the os_timer leaves in tmr_t.
Expired(r) ==
  CASE Is(r, "single") -> [r EXCEPT !.lua_ref = NoRef, !.self_ref = FALSE,
                                    !.mode = "off"]
    [] Is(r, "semi")   -> [r EXCEPT !.idle = TRUE, !.self_ref = FALSE]
    [] OTHER           -> r

\* The SDK calls alarm_timer_common; a one-shot os_timer is no longer armed.
\* The references are read before they are dropped.  The os_timer may be a
\* stray: the callback is then called if one is registered by now, started or
\* not, and without its timer when nothing pins it.
alarm_timer_common(t) ==
  /\ call = NoCall
  /\ os[t].armed /\ os[t].fn /\ heap[t] = "live"
  /\ os' = [os EXCEPT ![t] = IF @.by = "auto" THEN @ ELSE Disarmed(@)]
  /\ IF tmr[t].lua_ref # NoRef
     THEN /\ tmr' = [tmr EXCEPT ![t] = Expired(@)]
          /\ call' = [timer |-> t, func |-> tmr[t].lua_ref,
                      arg |-> tmr[t].self_ref, used |-> FALSE]
     ELSE UNCHANGED <<tmr, call>>
  /\ UNCHANGED <<heap, held>>

ChipRestarts ==
  /\ tmr' = [t \in Timers |-> NewTmr]
  /\ os' = [t \in Timers |-> NewOs]
  /\ heap' = [t \in Timers |-> "free"]
  /\ held' = {}
  /\ call' = NoCall

\* A stray may expire before register() has given it a function, or after its
\* userdata was freed.  The SDK jumps to address 0 or into memory that may by
\* now be anything: nothing to be seen of it, or the chip restarts.
WildExpiry(t) ==
  /\ call = NoCall
  /\ os[t].armed /\ ~(os[t].fn /\ heap[t] = "live")
  /\ \/ /\ os' = [os EXCEPT ![t] = Disarmed(@)]
        /\ UNCHANGED <<tmr, heap, held, call>>
     \/ ChipRestarts

\* The Lua callback returns to the event loop.
CallbackReturns ==
  /\ call # NoCall
  /\ call' = NoCall
  /\ UNCHANGED <<tmr, os, heap, held>>

-----------------------------------------------------------------------------
Method(t) ==
  \/ \E i \in Intervals, m \in AlarmModes, f \in Callbacks :
       tmr_register(t, i, m, f) \/ tmr_alarm(t, i, m, f)
  \/ \E restart \in BOOLEAN : tmr_start(t, restart)
  \/ tmr_stop(t)
  \/ tmr_unregister(t)
  \/ \E i \in Intervals : tmr_interval(t, i)

Next ==
  \/ \E t \in Timers :
       \/ tmr_create(t) \/ Method(t)
       \/ Forget(t) \/ Keep(t) \/ Collect(t)
       \/ alarm_timer_common(t) \/ WildExpiry(t)
  \/ CallbackReturns

Spec == Init /\ [][Next]_vars

\* The SDK serves an armed timer when the event loop is idle, Lua callbacks
\* return (the watchdog resets the chip otherwise), the collector runs.
Fairness ==
  /\ WF_vars(CallbackReturns)
  /\ \A t \in Timers : SF_vars(alarm_timer_common(t)) /\ WF_vars(Collect(t))

FairSpec == Spec /\ Fairness

-----------------------------------------------------------------------------
(* Properties. *)

\* Every variable stays within the type its C declaration and use give it.
TypeOK ==
  /\ tmr \in [Timers -> Tmr]
  /\ os \in [Timers -> OsTimer]
  /\ heap \in [Timers -> {"live", "free"}]
  /\ held \subseteq Timers
  /\ call \in [timer : Timers \cup {NoRef}, func : Callbacks \cup {NoRef},
               arg : BOOLEAN, used : BOOLEAN]

\* An os_timer that was armed for a registered timer lies in a userdata that the
\* collector cannot free as long as the SDK has it in its list: it is live,
\* pinned by self_ref, and has its function.
ArmedIsPinned ==
  \A t \in Timers :
    os[t].armed /\ ~Stray(os[t])
      => heap[t] = "live" /\ tmr[t].self_ref /\ os[t].fn

\* The mode byte tells the truth about the os_timer: whatever is called in
\* whatever order, stop() and start() on unregistered timers included, a timer
\* is started exactly when its os_timer was armed for it, with the present
\* interval and mode; a stray can only be there while it is not.  A registered
\* timer always has a callback, and its os_timer a function.
ModeMatchesOs ==
  \A t \in Timers :
    /\ os[t].armed /\ ~Stray(os[t]) <=> Running(tmr[t])
    /\ Running(tmr[t]) => /\ os[t].period = tmr[t].interval
                          /\ os[t].by = tmr[t].mode
    /\ tmr[t].mode = "off" <=> tmr[t].lua_ref = NoRef
    /\ tmr[t].mode # "off" => heap[t] = "live" /\ os[t].fn

\* The inductive invariant.
Inv ==
  /\ TypeOK
  /\ ArmedIsPinned
  /\ ModeMatchesOs

\* tmr.c implements the contract of its documentation, extended by what start()
\* does to a timer that is not registered.
Contract == INSTANCE TimerContract WITH
  timer <- [t \in Timers |-> [run |-> Running(tmr[t]), mode |-> tmr[t].mode,
                              func |-> tmr[t].lua_ref]],
  stray <- {t \in Timers : Stray(os[t])},
  call <- [timer |-> call.timer, func |-> call.func]

ImplementsContract == Contract!CSpec

\* docs/modules/tmr.md, t:alarm(): a one-shot timer that the program has
\* forgotten needs no unregister(): once it has expired, unless its own
\* callback used it again, it is collected.
OneShotReclaimed ==
  \A t \in Timers :
    (/\ Is(tmr[t], "single") /\ heap[t] = "live"
     /\ [](t \notin held /\ ~(call.timer = t /\ call.used)))
      ~> heap[t] # "live"

\* docs/modules/tmr.md, t:unregister(): "Stops the timer (if running) and
\* unregisters the associated callback".
UnregisterStops ==
  [][\A t \in Timers : tmr_unregister(t) => ~os'[t].armed]_vars
=============================================================================
