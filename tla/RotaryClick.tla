---------------------------- MODULE RotaryClick ----------------------------
(***************************************************************************)
(* Clicks, double clicks and long presses of one rotary switch:            *)
(* lrotary_dequeue_single(), lrotary_timer_done() and                      *)
(* lrotary_check_timer() of app/modules/rotary.c.                          *)
(*                                                                         *)
(* The switch queues press changes and turns with the time they happened   *)
(* (module Rotary has the queue itself); the task takes them later.  Task  *)
(* and timer run one at a time, in either order and with any delay.        *)
(* Times are in microseconds of which Ms make a millisecond, and do not    *)
(* wrap: only differences of less than a click or a long press are used.   *)
(***************************************************************************)
EXTENDS Integers, Sequences

CONSTANTS Ms,        \* microseconds in a millisecond, 1000
          Long,      \* longpress_delay_us
          Click,     \* click_delay_us
          MaxTime,   \* bound on the clock
          MaxEvents, \* bound on the events of the switch
          MaxClosed  \* bound on the calls of setup() and close()

ASSUME ClickAssumption ==
  /\ Ms \in Nat \ {0}
  /\ Long \in Nat \ {0} /\ Long % Ms = 0
  /\ Click \in Nat \ {0} /\ Click % Ms = 0
  /\ MaxTime \in Nat /\ MaxEvents \in Nat /\ MaxClosed \in Nat

VARIABLES now,
          opened,     \* data[id] # NULL
          d,        \* its DATA, but for the callbacks and the timer
          deadline, \* when the timer is due; None when it is not armed
          events,   \* the events queued
          down,     \* the switch is pressed
          sent,     \* events so far
          closed,   \* calls of setup() and close() so far
          undefined \* memory that was freed has been used

(* History variables. *)
VARIABLES calls,    \* the gestures of the last step
          past,     \* the last three press changes delivered
          pressedAt, \* when the switch was pressed last, delivered or not
          count     \* releases delivered, and what became of them

clickVars == <<now, opened, d, deadline, events, down, sent, closed, undefined,
          calls, past, pressedAt, count>>

None == -1
Fresh == [press |-> FALSE, was_press |-> FALSE, was_release |-> FALSE,
          dbl |-> FALSE, running |-> FALSE, last_event_time |-> 0]
NoCount == [release |-> 0, click |-> 0, dblclick |-> 0, tied |-> 0]

ClickInit ==
  /\ now = 0 /\ opened = FALSE
  /\ d = Fresh /\ deadline = None
  /\ events = <<>> /\ down = FALSE /\ sent = 0 /\ closed = 0
  /\ undefined = FALSE
  /\ calls = {} /\ past = <<>> /\ pressedAt = 0 /\ count = NoCount

-----------------------------------------------------------------------------
(* lrotary_check_timer(). *)

\* Fault model: the gestures are due a microsecond early.
LongDue_early(m, t) == m.was_press /\ t - m.last_event_time >= Long

LongDue(m, t) == m.was_press /\ t - m.last_event_time > Long
ClickDue(m, t) == m.was_release /\ t - m.last_event_time > Click

Gestures(m, t) == {g \in {"LONGPRESS", "CLICK"} :
                     IF g = "CLICK" THEN ClickDue(m, t) ELSE LongDue(m, t)}

Checked(m, t) == [m EXCEPT !.was_press = @ /\ ~LongDue(m, t),
                           !.was_release = @ /\ ~ClickDue(m, t),
                           !.running = FALSE]

Waiting(m) == m.was_press \/ m.was_release
Delay(m) == IF m.was_release THEN Click ELSE Long

\* Fault model: the remainder of a millisecond is dropped.
Timeout_short(m) == (Delay(m) - (now - m.last_event_time)) \div Ms

\* The milliseconds until the gesture is due, and one more for the remainder.
Timeout(m) == (Delay(m) - (now - m.last_event_time)) \div Ms + 1

\* The check that also arms the timer, the last thing task and timer do.
CheckAndArm(m) ==
  LET c == Checked(m, now)
  IN  /\ d' = [c EXCEPT !.running = Waiting(c)]
      /\ deadline' = IF Waiting(c) THEN now + Ms * Timeout(c)
                     ELSE IF m.running THEN None ELSE deadline

Counted(n, g) == [n EXCEPT !.click = IF "CLICK" \in g THEN @ + 1 ELSE @,
                           !.dblclick = IF "DBLCLICK" \in g THEN @ + 1 ELSE @]

-----------------------------------------------------------------------------
(* The task takes an event: lrotary_dequeue_single(). *)

\* Fault model: the delay itself is short enough.
IsDouble_late(m, t) == m.was_release /\ t - m.last_event_time <= Click

IsDouble(m, t) == m.was_release /\ t - m.last_event_time < Click

\* Fault model: the second press does not take the first release with it.
Pressed_twice(m, t) ==
  [m EXCEPT !.press = TRUE, !.was_press = TRUE,
            !.dbl = @ \/ IsDouble(m, t), !.last_event_time = t]

Pressed(m, t) ==
  [m EXCEPT !.press = TRUE, !.was_press = TRUE, !.was_release = FALSE,
            !.dbl = @ \/ IsDouble(m, t), !.last_event_time = t]

Released(m, t) ==
  [m EXCEPT !.press = FALSE, !.was_press = FALSE, !.was_release = ~m.dbl,
            !.dbl = FALSE, !.last_event_time = t]

\* A turn leaves all of this alone.
Applied(m, e) ==
  IF e.press = m.press THEN m
  ELSE IF e.press THEN Pressed(m, e.time) ELSE Released(m, e.time)

LastThree(s) == IF Len(s) <= 3 THEN s ELSE SubSeq(s, Len(s) - 2, Len(s))

\* What was due when the event happened comes before it.
Before(e) == Checked(d, e.time)

\* The timer is disarmed by the first check, and after the event armed again.
dequeue ==
  LET e == Head(events)
      m == Before(e)
      n == Applied(m, e)
      change == e.press # d.press
      early == Gestures(d, e.time)
      double == IF change /\ ~e.press /\ m.dbl THEN {"DBLCLICK"} ELSE {}
      late == Gestures(n, now)
  IN  /\ opened /\ events # <<>> /\ ~undefined
      /\ events' = Tail(events)
      /\ CheckAndArm([n EXCEPT !.running = d.running])
      /\ calls' = early \cup double \cup late
      /\ past' = IF change THEN LastThree(Append(past, e)) ELSE past
      /\ count' =
           [Counted(Counted(count, early), double \cup late) EXCEPT
              !.release = IF change /\ ~e.press THEN @ + 1 ELSE @,
              !.tied = IF change /\ e.press /\ m.was_release /\ ~IsDouble(m, e.time)
                       THEN @ + 1 ELSE @]
      /\ UNCHANGED <<now, opened, down, sent, closed, undefined, pressedAt>>

\* The task looks at every channel, and checks the timer of one without an event.
dequeue_nothing ==
  /\ opened /\ events = <<>> /\ ~undefined
  /\ CheckAndArm(d)
  /\ calls' = Gestures(d, now)
  /\ count' = Counted(count, calls')
  /\ UNCHANGED <<now, opened, events, down, sent, closed, undefined, past, pressedAt>>

\* The timer: lrotary_timer_done().
lrotary_timer_done ==
  /\ opened /\ ~undefined
  /\ deadline # None /\ now >= deadline
  /\ CheckAndArm([d EXCEPT !.running = TRUE])  \* it is no longer armed
  /\ calls' = Gestures(d, now)
  /\ count' = Counted(count, calls')
  /\ UNCHANGED <<now, opened, events, down, sent, closed, undefined, past, pressedAt>>

\* The timer of a channel that was closed: it lies in memory that is free.
FreedTimer ==
  /\ ~opened /\ ~undefined
  /\ deadline # None /\ now >= deadline
  /\ undefined' = TRUE
  /\ UNCHANGED <<now, opened, d, deadline, events, down, sent, closed, calls, past,
                 pressedAt, count>>

-----------------------------------------------------------------------------
(* setup() and close(). *)

Configures ==
  /\ ~undefined
  /\ closed < MaxClosed /\ closed' = closed + 1
  /\ d' = Fresh /\ events' = <<>> /\ down' = FALSE
  /\ calls' = {} /\ past' = <<>> /\ count' = NoCount
  /\ UNCHANGED <<now, sent, pressedAt>>

\* DATA is cleared in place: a timer that is armed stays in the list of timers,
\* with its time of expiry cleared too.  After close() with an armed timer the
\* list of timers holds memory that calloc() may hand out again.
lrotary_setup ==
  /\ Configures
  /\ opened' = TRUE
  /\ deadline' = IF opened /\ deadline # None THEN now ELSE deadline
  /\ undefined' = (~opened /\ deadline # None)

\* DATA is freed; nothing disarms its timer.
lrotary_close ==
  /\ Configures
  /\ opened' = FALSE
  /\ UNCHANGED <<deadline, undefined>>

(* The switch, debounced. *)

Switch(turn) ==
  /\ opened /\ sent < MaxEvents
  /\ sent' = sent + 1
  /\ down' = IF turn THEN down ELSE ~down
  /\ events' = Append(events, [press |-> down', time |-> now])
  /\ pressedAt' = IF ~down /\ down' THEN now ELSE pressedAt
  /\ calls' = {}
  /\ UNCHANGED <<now, opened, d, deadline, closed, undefined, past, count>>

Tick ==
  /\ now < MaxTime
  /\ now' = now + 1
  /\ calls' = {}
  /\ UNCHANGED <<opened, d, deadline, events, down, sent, closed, undefined, past,
                 pressedAt, count>>

ClickNext ==
  \/ dequeue \/ dequeue_nothing \/ lrotary_timer_done \/ FreedTimer
  \/ lrotary_setup \/ lrotary_close
  \/ \E turn \in BOOLEAN : Switch(turn)
  \/ Tick

ClickSpec == ClickInit /\ [][ClickNext]_clickVars

-----------------------------------------------------------------------------
\* A gesture that is waited for has its timer armed, and the timer is never so
\* early that the gesture would not yet be due, nor more than a millisecond late.
TimerOnTime ==
  opened /\ ~undefined /\ Waiting(d) =>
    /\ deadline > d.last_event_time + Delay(d)
    /\ deadline <= d.last_event_time + Delay(d) + Ms

\* Every release ends in its CLICK or, two together, in a DBLCLICK, or is
\* waited for; it can only get lost when the next press comes exactly click_delay_us
\* later, which is neither more nor less than the delay.
EveryReleaseCounted ==
  opened => count.release = count.click + 2 * count.dblclick + count.tied
                            + (IF d.was_release THEN 1 ELSE 0)
                            + (IF d.dbl THEN 1 ELSE 0)

\* A DBLCLICK ends a release, a press soon after it and a release, whenever the
\* task got to see them.
DblClickIsDouble ==
  "DBLCLICK" \in calls =>
    /\ Len(past) = 3
    /\ ~past[1].press /\ past[2].press /\ ~past[3].press
    /\ past[2].time - past[1].time < Click

LastChange == past[Len(past)]

ReleaseQueued == \E i \in 1..Len(events) : ~events[i].press

\* LONGPRESS means that the switch itself has been down for longer than the delay:
\* it still is, since the press that was delivered last, or the release that is
\* delivered with the call came later than the delay.  The one exception is a release
\* that waits in the queue at the time of the call (LongPressIsHeld).
LongPressIsLong ==
  "LONGPRESS" \in calls =>
    IF LastChange.press
    THEN /\ now - LastChange.time > Long
         /\ ReleaseQueued \/ (down /\ pressedAt = LastChange.time)
    ELSE LastChange.time - past[Len(past) - 1].time > Long

\* docs/modules/rotary.md:42, longpress_time_ms is "The number of milliseconds
\* (default 500) of press to be considered a long press": not even a release that the
\* task has not seen yet was sooner.  lrotary_check_timer() does not look at the queue.
LongPressIsHeld ==
  "LONGPRESS" \in calls /\ LastChange.press =>
    \A i \in 1..Len(events) : ~events[i].press => events[i].time - LastChange.time > Long

\* docs/modules/rotary.md:115, close() "Releases the resources associated with
\* the rotary switch": no timer is left armed in the memory that it frees.
TimerHasOwner == ~opened => deadline = None
============================================================================
