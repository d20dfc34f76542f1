--------------------------- MODULE TimerContract ---------------------------
(***************************************************************************)
(* What a Lua program may rely on when it uses tmr timer objects,          *)
(* independently of how app/modules/tmr.c keeps it (docs/modules/tmr.md):  *)
(* a timer is unregistered, registered but stopped, or started; only a     *)
(* started timer calls back, it calls the callback it was registered with, *)
(* and the expiry of a one-shot timer unregisters it.                      *)
(*                                                                         *)
(* The documentation says of start() that it starts a "previously          *)
(* configured" timer.  Called on another one, it leaves a stray alarm: it  *)
(* goes off once, whatever was done to the timer since short of starting   *)
(* it, and calls the callback the timer has by then, or restarts the chip. *)
(***************************************************************************)
CONSTANTS Timers,     \* timer objects
          Callbacks,  \* Lua callback functions
          NoRef       \* no callback, no timer

VARIABLES timer,      \* per timer: started?, alarm mode, callback
          stray,      \* timers with a stray alarm
          call        \* the callback that runs: [timer, func]

cvars == <<timer, stray, call>>

AlarmModes == {"single", "semi", "auto"}

Unregistered == [run |-> FALSE, mode |-> "off", func |-> NoRef]

NoCall == [timer |-> NoRef, func |-> NoRef]

Registered(t) == timer[t].mode # "off"

CInit ==
  /\ timer = [t \in Timers |-> Unregistered]
  /\ stray = {}
  /\ call = NoCall

\* t:register() configures the timer and stops it; t:alarm() also starts it.
CRegister(t, m, f, run) ==
  /\ timer' = [timer EXCEPT ![t] = [run |-> run, mode |-> m, func |-> f]]
  /\ stray' = IF run THEN stray \ {t} ELSE stray
  /\ UNCHANGED call

\* t:start() and t:stop() move a registered timer between stopped and started.
CSetRun(t, run) ==
  /\ Registered(t)
  /\ timer' = [timer EXCEPT ![t].run = run]
  /\ stray' = IF run THEN stray \ {t} ELSE stray
  /\ UNCHANGED call

\* t:start() on a timer that is not registered.
CStartUnregistered(t) ==
  /\ ~Registered(t)
  /\ stray' = stray \cup {t}
  /\ UNCHANGED <<timer, call>>

\* t:unregister(), and the collection of the object.
CUnregister(t) ==
  /\ timer' = [timer EXCEPT ![t] = Unregistered]
  /\ UNCHANGED <<stray, call>>

AfterExpiry(r) == CASE r.mode = "single" -> Unregistered
                    [] r.mode = "semi"   -> [r EXCEPT !.run = FALSE]
                    [] OTHER             -> r

\* Only a started timer expires, and only when no other callback is running.
CExpire(t) ==
  /\ call = NoCall
  /\ timer[t].run
  /\ call' = [timer |-> t, func |-> timer[t].func]
  /\ timer' = [timer EXCEPT ![t] = AfterExpiry(timer[t])]
  /\ UNCHANGED stray

\* A stray alarm goes off once; the timer, which is not started, stays as it is.
CStrayExpires(t) ==
  /\ call = NoCall
  /\ t \in stray
  /\ stray' = stray \ {t}
  /\ call' = IF Registered(t) THEN [timer |-> t, func |-> timer[t].func] ELSE call
  /\ UNCHANGED timer

\* A stray alarm that no register() gave a function restarts the chip.
CRestart ==
  /\ stray # {}
  /\ CInit'

CReturn ==
  /\ call # NoCall
  /\ call' = NoCall
  /\ UNCHANGED <<timer, stray>>

CNext ==
  \/ \E t \in Timers :
       \/ \E m \in AlarmModes, f \in Callbacks, run \in BOOLEAN :
            CRegister(t, m, f, run)
       \/ \E run \in BOOLEAN : CSetRun(t, run)
       \/ CStartUnregistered(t)
       \/ CUnregister(t)
       \/ CExpire(t)
       \/ CStrayExpires(t)
  \/ CRestart
  \/ CReturn

CSpec == CInit /\ [][CNext]_cvars
=============================================================================
