------------------------------- MODULE Rotary -------------------------------
(***************************************************************************)
(* The event queues of the rotary switches: rotary_interrupt() and         *)
(* rotary_getevent() of app/driver/rotary.c, and lrotary_task() of         *)
(* app/modules/rotary.c that empties them.                                 *)
(*                                                                         *)
(* The interrupt handler may run between any two accesses of the task to   *)
(* a queue.  A status is the position, of PosMod values instead of 2^31,   *)
(* and the press bit.  The clock is left out: recent says that the last    *)
(* press change is at most 10 ms old.  What the task makes of the press    *)
(* changes in time is module RotaryClick.                                  *)
(***************************************************************************)
EXTENDS Integers, Sequences

CONSTANTS N,         \* ROTARY_CHANNEL_COUNT
          QUEUE_SIZE,
          PosMod,    \* positions, 2^31 in the code
          Skip,      \* what a missed interrupt adds, 1000000 in the code
          HasPress,  \* the channels that were given a press pin
          QueueLen,  \* TASK_DEFAULT_QUEUE_LEN
          Phases,    \* of the encoder at setup(), 0..3 in the code
          MaxOthers, \* bound on the other tasks in the medium queue
          MaxEdges,  \* bound on the pin changes of each channel
          MaxSetups  \* bound on the calls of setup() and close()

ASSUME RotaryAssumption ==
  /\ N \in Nat \ {0} /\ QUEUE_SIZE \in Nat /\ QUEUE_SIZE >= 2
  /\ PosMod \in Nat \ {0} /\ PosMod % 4 = 0
  /\ Skip \in Nat /\ Skip % 4 = 0
  /\ HasPress \subseteq 1..N /\ Phases \subseteq 0..3
  /\ QueueLen \in Nat \ {0} /\ MaxOthers \in Nat
  /\ MaxEdges \in [1..N -> Nat] /\ MaxSetups \in Nat

Channels == 1..N
Slots == 0..(QUEUE_SIZE - 1)
Status == [press : BOOLEAN, pos : 0..(PosMod - 1)]
Zero == [press |-> FALSE, pos |-> 0]

VARIABLES open,        \* data[channel] # NULL
          queue,       \* its ring of statuses
          rd, wr,      \* read_offset and write_offset
          recent,      \* a press change at most 10 ms ago
          task_queued, \* the flag shared by the channels
          lastpos,     \* the status the task delivered last
          at,          \* the channel the task looks at; 0 when it does not run
          got,         \* it has taken an event and not yet looked for more
          need,        \* need_to_post
          flagged,     \* tasks in the queue that carry the address of task_queued
          again,       \* tasks in the queue that the task posted itself
          others,      \* other tasks in the queue
          phase,       \* the two encoder pins, as the position they encode
          pressed,     \* the press pin is low
          intr,        \* an interrupt of the channel's pins is pending
          edges, setups

(* History variables, which no action reads. *)
VARIABLES lost,        \* a post has failed since the task last started
          gaveUp,      \* a post has failed
          overflowed,  \* the ring was full at an interrupt
          undelivered, \* the statuses at the press changes not yet delivered
          turned,      \* steps turned since setup
          exact        \* each turn had its interrupt, from pins that encode 0

pins == <<phase, pressed, intr, edges>>
driver == <<open, queue, rd, wr, recent>>
tasks == <<flagged, again, others>>
task == <<at, got, need>>
history == <<lost, gaveUp, overflowed, undelivered, turned, exact>>
vars == <<driver, task_queued, lastpos, task, tasks, pins, setups, history>>

-----------------------------------------------------------------------------
(* The macros of the driver. *)

Slot(i) == i % QUEUE_SIZE
GET_LAST_STATUS(c) == queue[c][Slot(wr[c] - 1)]
GET_PREV_STATUS(c) == queue[c][Slot(wr[c] - 2)]
HAS_QUEUED_DATA(c) == rd[c] < wr[c]

\* Fault model: the slot of the last status read is used too.
HAS_QUEUE_SPACE_all(c) == rd[c] + QUEUE_SIZE > wr[c]

HAS_QUEUE_SPACE(c) == rd[c] + QUEUE_SIZE - 1 > wr[c]
Unread(c) == [i \in 1..(wr[c] - rd[c]) |-> queue[c][Slot(rd[c] + i - 1)]]

Init ==
  /\ open = [c \in Channels |-> FALSE]
  /\ queue = [c \in Channels |-> [s \in Slots |-> Zero]]
  /\ rd = [c \in Channels |-> 0] /\ wr = [c \in Channels |-> 0]
  /\ recent = [c \in Channels |-> FALSE]
  /\ task_queued = FALSE
  /\ lastpos = [c \in Channels |-> Zero]
  /\ at = 0 /\ got = FALSE /\ need = FALSE
  /\ flagged = 0 /\ again = 0 /\ others = 0
  /\ phase = [c \in Channels |-> 0]
  /\ pressed = [c \in Channels |-> FALSE]
  /\ intr = [c \in Channels |-> FALSE]
  /\ edges = [c \in Channels |-> 0] /\ setups = 0
  /\ lost = FALSE /\ gaveUp = FALSE
  /\ overflowed = [c \in Channels |-> FALSE]
  /\ undelivered = [c \in Channels |-> <<>>]
  /\ turned = [c \in Channels |-> 0]
  /\ exact = [c \in Channels |-> FALSE]

-----------------------------------------------------------------------------
(* setup() and close().  A callback of another channel may call them too;  *)
(* one that does so for its own channel is left out (it frees or clears    *)
(* what the task goes on using).                                           *)

MayConfigure(c) == setups < MaxSetups /\ at # c /\ setups' = setups + 1

Cleared(c) ==
  /\ queue' = [queue EXCEPT ![c] = [s \in Slots |-> Zero]]
  /\ rd' = [rd EXCEPT ![c] = 0] /\ wr' = [wr EXCEPT ![c] = 0]
  /\ recent' = [recent EXCEPT ![c] = FALSE]
  /\ lastpos' = [lastpos EXCEPT ![c] = Zero]
  /\ intr' = [intr EXCEPT ![c] = FALSE]
  /\ overflowed' = [overflowed EXCEPT ![c] = FALSE]
  /\ undelivered' = [undelivered EXCEPT ![c] = <<>>]
  /\ turned' = [turned EXCEPT ![c] = 0]
  /\ UNCHANGED <<task_queued, task, tasks, edges, lost, gaveUp>>

\* The encoder is at any phase ph, the switch pressed or not, at the time.
rotary_setup(c, ph, pr) ==
  /\ MayConfigure(c)
  /\ Cleared(c)
  /\ pr => c \in HasPress
  /\ open' = [open EXCEPT ![c] = TRUE]
  /\ phase' = [phase EXCEPT ![c] = ph]
  /\ pressed' = [pressed EXCEPT ![c] = pr]
  /\ exact' = [exact EXCEPT ![c] = (ph = 0)]

\* close(), and a setup() that fails after it has closed the channel.
rotary_close(c) ==
  /\ MayConfigure(c)
  /\ Cleared(c)
  /\ open' = [open EXCEPT ![c] = FALSE]
  /\ exact' = [exact EXCEPT ![c] = FALSE]
  /\ phase' = [phase EXCEPT ![c] = 0] /\ pressed' = [pressed EXCEPT ![c] = FALSE]

-----------------------------------------------------------------------------
(* The switch of an open channel: a change of its pins raises an interrupt. *)
(* The pins of a closed channel have any value at its next setup().         *)

Turn(c, step) ==
  /\ open[c]
  /\ edges[c] < MaxEdges[c]
  /\ edges' = [edges EXCEPT ![c] = @ + 1]
  /\ phase' = [phase EXCEPT ![c] = (@ + step) % 4]
  /\ intr' = [intr EXCEPT ![c] = TRUE]
  /\ exact' = [exact EXCEPT ![c] = @ /\ ~intr[c]]
  /\ turned' = [turned EXCEPT ![c] = IF exact'[c] THEN (@ + step) % PosMod ELSE 0]
  /\ UNCHANGED <<driver, task_queued, lastpos, task, tasks, pressed, setups,
                 lost, gaveUp, overflowed, undelivered>>

Push(c) ==
  /\ c \in HasPress
  /\ open[c]
  /\ edges[c] < MaxEdges[c]
  /\ edges' = [edges EXCEPT ![c] = @ + 1]
  /\ pressed' = [pressed EXCEPT ![c] = ~@]
  /\ intr' = [intr EXCEPT ![c] = TRUE]
  /\ UNCHANGED <<driver, task_queued, lastpos, task, tasks, phase, setups, history>>

DebounceEnds(c) ==
  /\ recent[c]
  /\ recent' = [recent EXCEPT ![c] = FALSE]
  /\ UNCHANGED <<open, queue, rd, wr, task_queued, lastpos, task, tasks, pins,
                 setups, history>>

-----------------------------------------------------------------------------
(* rotary_interrupt(). *)

\* A channel without a press pin reads as pressed: the mask of the pin is 0.
PressBit(c) ==
  IF recent[c] THEN GET_LAST_STATUS(c).press
               ELSE c \in HasPress => pressed[c]

\* Fault model: the two directions are swapped.
Step_swapped(d) == CASE d = 0 -> 0 [] d = 1 -> -1 [] d = 3 -> 1 [] OTHER -> Skip

\* How far the position moves when the encoder is d steps ahead, modulo 4.
Step(d) == CASE d = 0 -> 0 [] d = 1 -> 1 [] d = 3 -> -1 [] OTHER -> Skip

NewStatus(c) ==
  [press |-> PressBit(c),
   pos |-> (GET_LAST_STATUS(c).pos
              + Step((phase[c] - GET_LAST_STATUS(c).pos) % 4)) % PosMod]

\* Fault model: the status of the last press change may be replaced.
NeedsOwnEntry_any(c) ==
  \/ ~HAS_QUEUED_DATA(c)
  \/ GET_LAST_STATUS(c).press # NewStatus(c).press

\* A status replaces the last one unless that has been read, or one of the two
\* is a press change.
NeedsOwnEntry(c) ==
  \/ ~HAS_QUEUED_DATA(c)
  \/ GET_LAST_STATUS(c).press # NewStatus(c).press
  \/ GET_LAST_STATUS(c).press # GET_PREV_STATUS(c).press

QueueFull == flagged + again + others >= QueueLen

\* The task is posted unless it has been, and the flag set if that succeeds.
PostFlagged ==
  /\ task_queued' = (task_queued \/ ~QueueFull)
  /\ flagged' = IF task_queued \/ QueueFull THEN flagged ELSE flagged + 1
  /\ lost' = (lost \/ (~task_queued /\ QueueFull))
  /\ gaveUp' = (gaveUp \/ (~task_queued /\ QueueFull))

QUEUE_STATUS(c) ==
  /\ NeedsOwnEntry(c) /\ HAS_QUEUE_SPACE(c)
  /\ queue' = [queue EXCEPT ![c][Slot(wr[c])] = NewStatus(c)]
  /\ wr' = [wr EXCEPT ![c] = @ + 1]
  /\ PostFlagged
  /\ UNCHANGED overflowed

REPLACE_STATUS(c) ==
  /\ ~(NeedsOwnEntry(c) /\ HAS_QUEUE_SPACE(c))
  /\ queue' = [queue EXCEPT ![c][Slot(wr[c] - 1)] = NewStatus(c)]
  /\ overflowed' = [overflowed EXCEPT ![c] = @ \/ NeedsOwnEntry(c)]
  /\ UNCHANGED <<wr, task_queued, flagged, lost, gaveUp>>

Changes(c) == NewStatus(c).press # GET_LAST_STATUS(c).press

rotary_interrupt(c) ==
  /\ open[c] /\ intr[c]
  /\ intr' = [intr EXCEPT ![c] = FALSE]
  /\ recent' = [recent EXCEPT ![c] = @ \/ Changes(c)]
  /\ \/ /\ NewStatus(c) # GET_LAST_STATUS(c)
        /\ QUEUE_STATUS(c) \/ REPLACE_STATUS(c)
     \/ /\ NewStatus(c) = GET_LAST_STATUS(c)
        /\ UNCHANGED <<queue, wr, task_queued, flagged, lost, gaveUp, overflowed>>
  /\ undelivered' =
       [undelivered EXCEPT ![c] =
          IF overflowed'[c] THEN <<>>
          ELSE IF Changes(c) THEN Append(@, NewStatus(c)) ELSE @]
  /\ UNCHANGED <<open, rd, lastpos, task, again, others, phase, pressed, edges,
                 setups, turned, exact>>

-----------------------------------------------------------------------------
(* lrotary_task(). *)

\* The task the interrupt posted clears the flag first: from here on an
\* interrupt posts again.
TaskStart ==
  /\ at = 0
  /\ flagged > 0
  /\ flagged' = flagged - 1
  /\ task_queued' = FALSE
  /\ at' = 1
  /\ lost' = FALSE
  /\ UNCHANGED <<driver, lastpos, got, need, again, others, pins, setups, gaveUp,
                 overflowed, undelivered, turned, exact>>

\* The task it posted itself has no flag to clear.
TaskStartAgain ==
  /\ at = 0
  /\ again > 0
  /\ again' = again - 1
  /\ at' = 1
  /\ lost' = FALSE
  /\ UNCHANGED <<driver, task_queued, lastpos, got, need, flagged, others, pins, setups,
                 gaveUp, overflowed, undelivered, turned, exact>>

\* rotary_getevent() has nothing, or the channel is closed.
NoEvent ==
  /\ at \in Channels /\ ~got
  /\ ~(open[at] /\ HAS_QUEUED_DATA(at))
  /\ at' = at + 1
  /\ UNCHANGED <<driver, task_queued, lastpos, got, need, tasks, pins, setups, history>>

\* Fault model: the offset is advanced before the event is read.
Event_next == queue[at][Slot(rd[at] + 1)]

Event == queue[at][Slot(rd[at])]

\* Fault model: the event is not removed.
TakeEvent_stuck ==
  /\ at \in Channels /\ ~got
  /\ open[at] /\ HAS_QUEUED_DATA(at)
  /\ lastpos' = [lastpos EXCEPT ![at] = Event]
  /\ got' = TRUE
  /\ undelivered' =
       [undelivered EXCEPT ![at] =
          IF @ # <<>> /\ Event.press # lastpos[at].press THEN Tail(@) ELSE @]
  /\ UNCHANGED <<open, queue, rd, wr, recent, task_queued, at, need, tasks, pins, setups,
                 lost, gaveUp, overflowed, turned, exact>>

\* rotary_getevent() takes the oldest event, with interrupts disabled, and the
\* callbacks are called for what it changes.
TakeEvent ==
  /\ at \in Channels /\ ~got
  /\ open[at] /\ HAS_QUEUED_DATA(at)
  /\ rd' = [rd EXCEPT ![at] = @ + 1]
  /\ lastpos' = [lastpos EXCEPT ![at] = Event]
  /\ got' = TRUE
  /\ undelivered' =
       [undelivered EXCEPT ![at] =
          IF @ # <<>> /\ Event.press # lastpos[at].press THEN Tail(@) ELSE @]
  /\ UNCHANGED <<open, queue, wr, recent, task_queued, at, need, tasks, pins, setups,
                 lost, gaveUp, overflowed, turned, exact>>

\* Fault model: only the last channel's answer counts.
LookForMore_last ==
  /\ got
  /\ need' = HAS_QUEUED_DATA(at)
  /\ got' = FALSE
  /\ at' = at + 1
  /\ UNCHANGED <<driver, task_queued, lastpos, tasks, pins, setups, history>>

\* rotary_has_queued_event().
LookForMore ==
  /\ got
  /\ need' = (need \/ HAS_QUEUED_DATA(at))
  /\ got' = FALSE
  /\ at' = at + 1
  /\ UNCHANGED <<driver, task_queued, lastpos, tasks, pins, setups, history>>

TaskEnd ==
  /\ at = N + 1
  /\ at' = 0 /\ need' = FALSE
  /\ again' = IF need /\ ~QueueFull THEN again + 1 ELSE again
  /\ lost' = (lost \/ (need /\ QueueFull))
  /\ gaveUp' = (gaveUp \/ (need /\ QueueFull))
  /\ UNCHANGED <<driver, task_queued, lastpos, got, flagged, others, pins, setups,
                 overflowed, undelivered, turned, exact>>

(* Other tasks of the medium queue. *)

OtherPosted ==
  /\ others < MaxOthers /\ ~QueueFull
  /\ others' = others + 1
  /\ UNCHANGED <<driver, task_queued, lastpos, task, flagged, again, pins, setups, history>>

OtherTask ==
  /\ at = 0
  /\ others > 0
  /\ others' = others - 1
  /\ UNCHANGED <<driver, task_queued, lastpos, task, flagged, again, pins, setups, history>>

Task == TaskStart \/ TaskStartAgain \/ NoEvent \/ TakeEvent \/ LookForMore \/ TaskEnd

Next ==
  \/ \E c \in Channels :
       \/ \E ph \in Phases, pr \in BOOLEAN : rotary_setup(c, ph, pr)
       \/ rotary_close(c)
       \/ Turn(c, 1) \/ Turn(c, -1) \/ Push(c) \/ DebounceEnds(c)
       \/ rotary_interrupt(c)
  \/ TaskStart \/ TaskStartAgain \/ NoEvent \/ TakeEvent \/ LookForMore \/ TaskEnd
  \/ OtherPosted \/ OtherTask

Spec == Init /\ [][Next]_vars

\* A posted task is run: the queue is served in order and tasks return.
Fairness == WF_vars(Task)

FairSpec == Spec /\ Fairness

-----------------------------------------------------------------------------
FlagTypes ==
  /\ open \in [Channels -> BOOLEAN] /\ recent \in [Channels -> BOOLEAN]
  /\ intr \in [Channels -> BOOLEAN] /\ pressed \in [Channels -> BOOLEAN]
  /\ task_queued \in BOOLEAN /\ got \in BOOLEAN /\ need \in BOOLEAN
  /\ lost \in BOOLEAN

RingTypes ==
  /\ queue \in [Channels -> [Slots -> Status]]
  /\ lastpos \in [Channels -> Status]
  /\ rd \in [Channels -> Nat] /\ wr \in [Channels -> Nat]

CounterTypes ==
  /\ phase \in [Channels -> 0..3]
  /\ at \in 0..(N + 1)
  /\ flagged \in Nat /\ again \in Nat /\ others \in Nat
  /\ edges \in [Channels -> Nat] /\ setups \in Nat

\* Every variable stays within its type; the task looks at no channel but those
\* that exist.
TypeOK == FlagTypes /\ RingTypes /\ CounterTypes

\* "writing is only allowed if write - read < QUEUE_SIZE - 1" (rotary.c:25): the
\* unread events never reach the slot of the one read last, which the interrupt
\* compares with.
PreviousIsKept ==
  \A c \in Channels : rd[c] <= wr[c] /\ wr[c] - rd[c] <= QUEUE_SIZE - 1

\* However many moves were merged or dropped, an empty queue means that the
\* callbacks have seen the present status: no final position and no final press
\* or release is lost.
FinalStatusDelivered ==
  \A c \in Channels :
    open[c] /\ ~HAS_QUEUED_DATA(c) => lastpos[c] = GET_LAST_STATUS(c)

\* The positions of the press changes in a sequence of statuses.
PressChanges(s) == {i \in 2..Len(s) : s[i].press # s[i - 1].press}

\* u lists what s has at those positions, in order.
ListsChanges(u, s) ==
  \E f \in [1..Len(u) -> PressChanges(s)] :
    /\ \A i, j \in 1..Len(u) : i < j => f[i] < f[j]
    /\ \A p \in PressChanges(s) : \E i \in 1..Len(u) : f[i] = p
    /\ \A i \in 1..Len(u) : u[i] = s[f[i]]

\* As long as the queue has not been full, every press and every release is
\* delivered, in order, with the position at which it happened.
PressesConserved ==
  \A c \in Channels :
    open[c] /\ ~overflowed[c] => ListsChanges(undelivered[c], <<lastpos[c]>> \o Unread(c))

\* The flag that keeps interrupts from posting is set exactly when the task
\* that will clear it is in the queue.
FlagMatchesTask == flagged = IF task_queued THEN 1 ELSE 0

\* The task has yet to look at the queue of c.
WillLook(c) == at \in 1..c

\* No event waits for a task that nobody posts: one is in the queue, or the
\* running task will see it, unless a post failed on a full queue.
QueuedMeansPosted ==
  \A c \in Channels :
    open[c] /\ HAS_QUEUED_DATA(c) /\ ~lost =>
      flagged + again > 0 \/ need \/ WillLook(c)

\* When each step had its interrupt the position is the number of steps turned.
PositionIsExact ==
  \A c \in Channels :
    open[c] /\ exact[c] /\ ~intr[c] => GET_LAST_STATUS(c).pos = turned[c]

\* Once the switches rest, everything is delivered unless a post has failed.
EventuallyDelivered ==
  \A c \in Channels : <>gaveUp \/ <>[](~HAS_QUEUED_DATA(c))
=============================================================================
