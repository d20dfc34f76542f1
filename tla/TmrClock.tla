------------------------------ MODULE TmrClock ------------------------------
(***************************************************************************)
(* The uptime clock and the software watchdog of app/modules/tmr.c.  The   *)
(* RTC counter wraps; rtc_timer_update() converts the ticks since its last *)
(* reference point with the present calibration (a fixed-point number of   *)
(* microseconds per tick) and moves the reference point only when enough   *)
(* time has passed.  rtc_callback() runs once a second on an os_timer,     *)
(* recalibrates and counts the watchdog down.                              *)
(*                                                                         *)
(* Quantities are scaled down: Frac stands for 1 << 12, Threshold for      *)
(* 100000 us, UsPerSec for 1000000, RtcMod for 2^32, Period for the ticks  *)
(* in the second between two calls of rtc_callback.                        *)
(***************************************************************************)
EXTENDS Integers

CONSTANTS RtcMod, Frac, Threshold, UsPerSec, Period,
          Calibrations,   \* results of system_rtc_clock_cali_proc()
          Timeouts,       \* arguments of tmr.softwd()
          MaxTicks        \* bound on the ticks of a behaviour

ASSUME ClockAssumption ==
  /\ {RtcMod, Frac, Threshold, UsPerSec, Period, MaxTicks} \subseteq Nat \ {0}
  /\ Calibrations \subseteq Nat \ {0}
  /\ Timeouts \subseteq Int
  /\ Period < RtcMod

VARIABLES ticks,             \* RTC ticks since boot, never wrapping (history)
          boot,              \* value of the RTC counter at boot
          sinceCb,           \* ticks since rtc_callback last ran
          rtc_time_cali, last_rtc_time, last_rtc_time_us, soft_watchdog,
          refTicks,          \* ticks at the last move of the reference (history)
          time,              \* last result of tmr.time() (history)
          armedAt,           \* ticks of the last tmr.softwd() (history)
          timeout,           \* its argument (history)
          restarted          \* system_restart() was called

rtc == <<rtc_time_cali, last_rtc_time, last_rtc_time_us, refTicks>>
wd == <<soft_watchdog, armedAt, timeout, restarted>>
clockVars == <<ticks, boot, sinceCb, rtc, time, wd>>

system_get_rtc_time == (boot + ticks) % RtcMod

ClockInit ==
  /\ boot \in 0..(RtcMod - 1)
  /\ ticks = 0 /\ sinceCb = 0
  /\ rtc_time_cali = 0
  /\ last_rtc_time = boot
  /\ last_rtc_time_us = 0
  /\ refTicks = 0
  /\ soft_watchdog = -1 /\ armedAt = 0 /\ timeout = -1 /\ restarted = FALSE
  /\ time = 0

\* The unsigned subtraction deals with a counter that has wrapped.
SinceLast(current, last) == (current - last) % RtcMod

rtc2usec(t, cali) == (t * cali) \div Frac

\* A second, the time between two calls of rtc_callback(), is long enough for the
\* reference point to move and short enough for the counter not to wrap in two.
ASSUME SecondAssumption ==
  /\ 2 * Period <= RtcMod
  /\ \A cali \in Calibrations : rtc2usec(Period, cali) >= Threshold

\* Fault model: the reference point moves on every call.
MovesAlways(us) == TRUE

\* The reference point moves only after Threshold microseconds.
MovesReference(us) == us >= Threshold

\* rtc_timer_update with calibration cali; Now is the value it returns.
UsSinceLast(cali) == rtc2usec(SinceLast(system_get_rtc_time, last_rtc_time), cali)

Now(cali) == last_rtc_time_us + UsSinceLast(cali)

rtc_timer_update(cali) ==
  /\ rtc_time_cali' = cali
  /\ IF MovesReference(UsSinceLast(cali))
     THEN /\ last_rtc_time' = system_get_rtc_time
          /\ last_rtc_time_us' = Now(cali)
          /\ refTicks' = ticks
     ELSE UNCHANGED <<last_rtc_time, last_rtc_time_us, refTicks>>

Tick ==
  /\ ~restarted
  /\ ticks < MaxTicks
  /\ sinceCb < Period
  /\ ticks' = ticks + 1
  /\ sinceCb' = sinceCb + 1
  /\ UNCHANGED <<boot, rtc, time, wd>>

\* Fault model: the watchdog bites when it reaches zero.
BitesAtZero(n) == n <= 0

Bites(n) == n < 0

rtc_callback ==
  /\ ~restarted
  /\ sinceCb = Period
  /\ sinceCb' = 0
  /\ \E cali \in Calibrations : rtc_timer_update(cali)
  /\ IF soft_watchdog >= 0
     THEN /\ soft_watchdog' = soft_watchdog - 1
          /\ restarted' = Bites(soft_watchdog - 1)
     ELSE UNCHANGED <<soft_watchdog, restarted>>
  /\ UNCHANGED <<ticks, boot, time, armedAt, timeout>>

\* tmr.time(): the first call calibrates, later ones use what is there.
tmr_time ==
  /\ ~restarted
  /\ \E cali \in (IF rtc_time_cali = 0 THEN Calibrations ELSE {rtc_time_cali}) :
       /\ rtc_timer_update(cali)
       /\ time' = Now(cali) \div UsPerSec
  /\ UNCHANGED <<ticks, boot, sinceCb, wd>>

tmr_softwd(n) ==
  /\ ~restarted
  /\ soft_watchdog' = n
  /\ armedAt' = ticks
  /\ timeout' = n
  /\ UNCHANGED <<ticks, boot, sinceCb, rtc, time, restarted>>

ClockNext ==
  \/ Tick \/ rtc_callback \/ tmr_time
  \/ \E n \in Timeouts : tmr_softwd(n)

ClockSpec == ClockInit /\ [][ClockNext]_clockVars

-----------------------------------------------------------------------------
\* app/modules/tmr.c, rtc_timer_update: moving the reference point seldom
\* "prevents the rounding errors in rtc2usec from accumulating".  With one
\* calibration the clock never runs ahead of the ticks counted, and loses less
\* than one microsecond for every Threshold microseconds it shows, whatever
\* calls are made and across wraps of the counter.
RoundingDoesNotAccumulate ==
  \A cali \in Calibrations :
    Calibrations = {cali} =>
      LET lost == refTicks * cali - last_rtc_time_us * Frac
      IN 0 <= lost /\ lost * Threshold <= last_rtc_time_us * Frac

\* app/modules/tmr.c, rtc_callback: a watchdog armed for n seconds never
\* restarts the chip before n seconds have passed, and never if it was
\* disarmed; nor does it let more than n + 1 seconds pass without being armed
\* again.
WatchdogOnTime ==
  /\ restarted => timeout >= 0 /\ ticks - armedAt >= timeout * Period
  /\ timeout >= 0 /\ ~restarted => ticks - armedAt <= (timeout + 1) * Period
=============================================================================
