---------------------------- MODULE RotaryProofs ----------------------------
(***************************************************************************)
(* The queues of the rotary switches, for any number of channels, any ring *)
(* of at least two entries, any task queue and any number of interrupts,   *)
(* and the gestures of module RotaryClick, for any delays.                 *)
(***************************************************************************)
EXTENDS Rotary, RotaryClick, SequenceTheorems, TLAPS

(***************************************************************************)
(* Types.                                                                  *)
(***************************************************************************)

\* A ring offset, also one or two below zero, names a slot.
LEMMA SlotType == \A i \in Int : Slot(i) \in Slots
BY RotaryAssumption DEF Slot, Slots

\* The channels are closed and nothing is queued at start-up.
LEMMA InitTypes == Init => TypeOK
<1> SUFFICES ASSUME Init PROVE TypeOK
  OBVIOUS
<1>1. FlagTypes
  BY DEF Init, FlagTypes
<1>2. Zero \in Status
  BY RotaryAssumption DEF Zero, Status
<1>3. RingTypes
  BY <1>2 DEF Init, RingTypes
<1>4. CounterTypes
  BY RotaryAssumption DEF Init, CounterTypes
<1> QED
  BY <1>1, <1>3, <1>4 DEF TypeOK

\* The status computed by the interrupt handler is one.
LEMMA NewStatusType ==
  ASSUME TypeOK, NEW c \in Channels
  PROVE  NewStatus(c) \in Status
<1> DEFINE last == GET_LAST_STATUS(c)
<1>1. last \in Status
  BY SlotType DEF TypeOK, RingTypes, GET_LAST_STATUS
<1>2. PressBit(c) \in BOOLEAN
  <2>1. last.press \in BOOLEAN
    BY <1>1 DEF Status
  <2>2. (c \in HasPress => pressed[c]) \in BOOLEAN
    BY DEF TypeOK, FlagTypes
  <2> QED
    BY <2>1, <2>2, Zenon DEF PressBit
<1>3. (phase[c] - last.pos) % 4 \in 0..3
  BY <1>1 DEF TypeOK, CounterTypes, Status
<1>4. \A k \in 0..3 : Step(k) \in Int
  BY RotaryAssumption DEF Step
<1>5. Step((phase[c] - last.pos) % 4) \in Int
  BY <1>3, <1>4
<1>6. last.pos \in Int
  BY <1>1 DEF Status
<1> HIDE DEF last
<1>7. (last.pos + Step((phase[c] - last.pos) % 4)) % PosMod \in 0..(PosMod - 1)
  BY <1>5, <1>6, RotaryAssumption
<1>8. NewStatus(c) = [press |-> PressBit(c),
                      pos |-> (last.pos + Step((phase[c] - last.pos) % 4)) % PosMod]
  BY DEF NewStatus, last
<1> QED
  BY <1>2, <1>7, <1>8 DEF Status

\* setup() and close() leave a cleared channel.
LEMMA ConfigureTypes ==
  ASSUME TypeOK, NEW c \in Channels, NEW ph \in 0..3, NEW pr \in BOOLEAN,
         NEW o \in BOOLEAN, MayConfigure(c), Cleared(c),
         open' = [open EXCEPT ![c] = o],
         phase' = [phase EXCEPT ![c] = ph],
         pressed' = [pressed EXCEPT ![c] = pr]
  PROVE  TypeOK'
<1>1. Zero \in Status
  BY RotaryAssumption DEF Zero, Status
<1>2. FlagTypes'
  BY DEF TypeOK, FlagTypes, Cleared, task
<1>3. RingTypes'
  <2> DEFINE empty == [s \in Slots |-> Zero]
  <2>1. empty \in [Slots -> Status]
    BY <1>1
  <2>2. /\ queue' = [queue EXCEPT ![c] = empty]
        /\ lastpos' = [lastpos EXCEPT ![c] = Zero]
        /\ rd' = [rd EXCEPT ![c] = 0] /\ wr' = [wr EXCEPT ![c] = 0]
    BY DEF Cleared
  <2> HIDE DEF empty
  <2> QED
    BY <1>1, <2>1, <2>2 DEF TypeOK, RingTypes
<1>4. CounterTypes'
  BY DEF TypeOK, CounterTypes, Cleared, MayConfigure, task, tasks
<1> QED
  BY <1>2, <1>3, <1>4 DEF TypeOK

\* So do the steps of the switch.
LEMMA SwitchTypes ==
  ASSUME TypeOK, NEW c \in Channels,
         Turn(c, 1) \/ Turn(c, -1) \/ Push(c) \/ DebounceEnds(c)
  PROVE  TypeOK'
<1>1. FlagTypes'
  BY DEF TypeOK, FlagTypes, Turn, Push, DebounceEnds, driver, task, pins, history
<1>2. RingTypes'
  BY DEF TypeOK, RingTypes, Turn, Push, DebounceEnds, driver
<1>3. CounterTypes'
  BY DEF TypeOK, CounterTypes, Turn, Push, DebounceEnds, task, tasks, pins
<1> QED
  BY <1>1, <1>2, <1>3 DEF TypeOK

\* The interrupt handler writes statuses to slots of the ring.
LEMMA InterruptTypes ==
  ASSUME TypeOK, NEW c \in Channels, rotary_interrupt(c)
  PROVE  TypeOK'
<1>1. NewStatus(c) \in Status
  BY NewStatusType
<1>2. Slot(wr[c]) \in Slots /\ Slot(wr[c] - 1) \in Slots
  BY SlotType DEF TypeOK, RingTypes
<1>3. FlagTypes'
  <2>1. Changes(c) \in BOOLEAN /\ QueueFull \in BOOLEAN
    BY DEF Changes, QueueFull
  <2>2. recent' \in [Channels -> BOOLEAN] /\ intr' \in [Channels -> BOOLEAN]
    BY <2>1 DEF TypeOK, FlagTypes, rotary_interrupt
  <2>3. task_queued' \in BOOLEAN /\ lost' \in BOOLEAN
    BY <2>1 DEF TypeOK, FlagTypes, rotary_interrupt, QUEUE_STATUS, REPLACE_STATUS,
       PostFlagged
  <2> QED
    BY <2>2, <2>3 DEF TypeOK, FlagTypes, rotary_interrupt, task
<1>4. RingTypes'
  <2> DEFINE new == NewStatus(c)
  <2> HIDE DEF new
  <2>1. ASSUME NEW i \in Slots
        PROVE  [queue EXCEPT ![c][i] = new] \in [Channels -> [Slots -> Status]]
    BY <1>1 DEF TypeOK, RingTypes, new
  <2>2. \/ queue' = [queue EXCEPT ![c][Slot(wr[c])] = new]
        \/ queue' = [queue EXCEPT ![c][Slot(wr[c] - 1)] = new]
        \/ queue' = queue
    BY DEF rotary_interrupt, QUEUE_STATUS, REPLACE_STATUS, new
  <2>3. queue' \in [Channels -> [Slots -> Status]]
    BY <1>2, <2>1, <2>2 DEF TypeOK, RingTypes
  <2>4. wr' = [wr EXCEPT ![c] = @ + 1] \/ wr' = wr
    BY DEF rotary_interrupt, QUEUE_STATUS, REPLACE_STATUS
  <2>5. wr' \in [Channels -> Nat]
    BY <2>4 DEF TypeOK, RingTypes
  <2> QED
    BY <2>3, <2>5 DEF TypeOK, RingTypes, rotary_interrupt
<1>5. CounterTypes'
  BY DEF TypeOK, CounterTypes, rotary_interrupt, QUEUE_STATUS, REPLACE_STATUS,
     PostFlagged, task
<1> QED
  BY <1>3, <1>4, <1>5 DEF TypeOK

\* The running task has an event only of an open channel, which nobody closes
\* meanwhile, and posts nothing between its runs.
TaskShape ==
  /\ got => at \in Channels /\ open[at]
  /\ at = 0 => ~need

\* The steps of the task and of other tasks.
LEMMA TaskTypes ==
  ASSUME TypeOK, TaskShape, Task \/ OtherPosted \/ OtherTask
  PROVE  TypeOK'
<1> USE DEF Task, TaskStart, TaskStartAgain, NoEvent, LookForMore, OtherPosted, OtherTask
<1>1. FlagTypes'
  BY Zenon DEF TypeOK, FlagTypes, TakeEvent, TaskEnd, HAS_QUEUED_DATA, QueueFull,
     driver, task, pins, history
<1>2. RingTypes'
  <2>1. CASE TakeEvent
    <3>1. Event \in Status
      BY <2>1, SlotType DEF TakeEvent, Event, TypeOK, RingTypes
    <3> QED
      BY <2>1, <3>1 DEF TypeOK, RingTypes, TakeEvent
  <2>2. CASE ~TakeEvent
    BY <2>2 DEF TypeOK, RingTypes, TaskEnd, driver
  <2> QED
    BY <2>1, <2>2
<1>3. CounterTypes'
  <2>1. at' \in 0..(N + 1)
    BY RotaryAssumption DEF TypeOK, CounterTypes, TaskShape, TakeEvent, TaskEnd, Channels,
       task
  <2>2. flagged' \in Nat /\ again' \in Nat /\ others' \in Nat
    BY DEF TypeOK, CounterTypes, TakeEvent, TaskEnd, tasks
  <2> QED
    BY <2>1, <2>2 DEF TypeOK, CounterTypes, TakeEvent, TaskEnd, pins
<1> QED
  BY <1>1, <1>2, <1>3 DEF TypeOK

\* A step that changes nothing.
LEMMA StutterTypes == TypeOK /\ UNCHANGED vars => TypeOK'
BY DEF TypeOK, FlagTypes, RingTypes, CounterTypes, vars, driver, task, tasks, pins, history

\* The shape of the task is kept by every step.
LEMMA StepShape == TypeOK /\ TaskShape /\ [Next]_vars => TaskShape'
<1> SUFFICES ASSUME TypeOK, TaskShape, [Next]_vars PROVE TaskShape'
  OBVIOUS
<1>1. ASSUME NEW c \in Channels,
             \/ rotary_close(c)
             \/ \E ph \in Phases, pr \in BOOLEAN : rotary_setup(c, ph, pr)
      PROVE  TaskShape'
  <2>1. at # c /\ UNCHANGED <<at, got, need>>
    BY <1>1 DEF rotary_setup, rotary_close, MayConfigure, Cleared, task
  <2>2. at \in Channels => open'[at] = open[at]
    BY <1>1, <2>1 DEF rotary_setup, rotary_close, TypeOK, FlagTypes
  <2> QED
    BY <2>1, <2>2 DEF TaskShape
<1>2. ASSUME NEW c \in Channels,
             \/ Turn(c, 1) \/ Turn(c, -1) \/ Push(c) \/ DebounceEnds(c)
             \/ rotary_interrupt(c)
      PROVE  TaskShape'
  BY <1>2 DEF TaskShape, Turn, Push, DebounceEnds, rotary_interrupt, driver, task
<1>3. ASSUME Task \/ OtherPosted \/ OtherTask
      PROVE  TaskShape'
  BY <1>3, RotaryAssumption DEF TaskShape, Task, TaskStart, TaskStartAgain, NoEvent,
     TakeEvent, LookForMore, TaskEnd, OtherPosted, OtherTask, driver, task, TypeOK,
     CounterTypes, Channels
<1>4. CASE UNCHANGED vars
  BY <1>4 DEF TaskShape, vars, driver, task
<1> QED
  BY <1>1, <1>2, <1>3, <1>4 DEF Next, Task

\* The types are kept by every step.
LEMMA StepTypes == TypeOK /\ TaskShape /\ [Next]_vars => TypeOK'
<1> SUFFICES ASSUME TypeOK, TaskShape, [Next]_vars PROVE TypeOK'
  OBVIOUS
<1>1. ASSUME NEW c \in Channels, NEW ph \in Phases, NEW pr \in BOOLEAN,
             rotary_setup(c, ph, pr)
      PROVE  TypeOK'
  BY <1>1, ConfigureTypes, RotaryAssumption DEF rotary_setup
<1>2. ASSUME NEW c \in Channels, rotary_close(c)
      PROVE  TypeOK'
  <2>1. 0 \in 0..3 /\ FALSE \in BOOLEAN
    OBVIOUS
  <2>2. /\ MayConfigure(c) /\ Cleared(c)
        /\ open' = [open EXCEPT ![c] = FALSE]
        /\ phase' = [phase EXCEPT ![c] = 0] /\ pressed' = [pressed EXCEPT ![c] = FALSE]
    BY <1>2 DEF rotary_close
  <2> QED
    BY <2>1, <2>2, ConfigureTypes
<1>3. ASSUME NEW c \in Channels,
             Turn(c, 1) \/ Turn(c, -1) \/ Push(c) \/ DebounceEnds(c)
      PROVE  TypeOK'
  BY <1>3, SwitchTypes
<1>4. CASE UNCHANGED vars
  BY <1>4, StutterTypes
<1> QED
  BY <1>1, <1>2, <1>3, <1>4, InterruptTypes, TaskTypes DEF Next, Task

\* Every variable keeps its type, and the task stays within the channels.
THEOREM TypesAlwaysOK == Spec => []TypeOK
<1>1. Init => TaskShape
  BY DEF Init, TaskShape
<1> QED
  BY <1>1, InitTypes, StepTypes, StepShape, PTL DEF Spec

(***************************************************************************)
(* The ring and the task.  Each part needs the others: that nothing waits  *)
(* unposted needs the flag, and that the last status is delivered needs    *)
(* the bound of the ring (a full ring has something unread to replace).    *)
(***************************************************************************)
IInv ==
  /\ TypeOK /\ TaskShape
  /\ PreviousIsKept /\ FlagMatchesTask
  /\ FinalStatusDelivered /\ QueuedMeansPosted

\* The invariant holds at start-up.
LEMMA InitIInv == Init => IInv
<1> SUFFICES ASSUME Init PROVE IInv
  OBVIOUS
<1>1. TaskShape /\ FlagMatchesTask
  BY DEF Init, TaskShape, FlagMatchesTask
<1>2. PreviousIsKept
  BY RotaryAssumption DEF Init, PreviousIsKept
<1>3. FinalStatusDelivered /\ QueuedMeansPosted
  BY DEF Init, FinalStatusDelivered, QueuedMeansPosted
<1> QED
  BY <1>1, <1>2, <1>3, InitTypes DEF IInv

\* setup() and close().
LEMMA ConfigureSafe ==
  ASSUME IInv, NEW c \in Channels, MayConfigure(c), Cleared(c),
         \A b \in Channels \ {c} : open'[b] = open[b]
  PROVE  PreviousIsKept' /\ FlagMatchesTask' /\ FinalStatusDelivered' /\ QueuedMeansPosted'
<1>1. /\ queue' = [queue EXCEPT ![c] = [s \in Slots |-> Zero]]
      /\ rd' = [rd EXCEPT ![c] = 0] /\ wr' = [wr EXCEPT ![c] = 0]
      /\ lastpos' = [lastpos EXCEPT ![c] = Zero]
      /\ UNCHANGED <<task_queued, flagged, again, at, need, lost>>
  BY DEF Cleared, task, tasks
<1>2. /\ rd'[c] = 0 /\ wr'[c] = 0 /\ lastpos'[c] = Zero
      /\ queue'[c] = [s \in Slots |-> Zero]
  BY <1>1 DEF IInv, TypeOK, RingTypes
<1>3. \A b \in Channels \ {c} :
        rd'[b] = rd[b] /\ wr'[b] = wr[b] /\ queue'[b] = queue[b] /\ lastpos'[b] = lastpos[b]
  BY <1>1 DEF IInv, TypeOK, RingTypes
<1>4. FlagMatchesTask'
  BY <1>1 DEF IInv, FlagMatchesTask
<1>5. PreviousIsKept'
  BY <1>2, <1>3, RotaryAssumption DEF IInv, PreviousIsKept
<1>6. FinalStatusDelivered'
  <2>1. Slot(0 - 1) \in Slots
    BY SlotType
  <2>2. GET_LAST_STATUS(c)' = Zero
    BY <1>2, <2>1 DEF GET_LAST_STATUS, Slot
  <2> QED
    BY <1>2, <1>3, <2>2 DEF IInv, FinalStatusDelivered, GET_LAST_STATUS, HAS_QUEUED_DATA,
       Slot
<1>7. QueuedMeansPosted'
  BY <1>1, <1>2, <1>3 DEF IInv, QueuedMeansPosted, HAS_QUEUED_DATA, WillLook
<1> QED
  BY <1>4, <1>5, <1>6, <1>7

\* A status that replaces the last one replaces one that was not read.
LEMMA ReplacesUnread ==
  ASSUME IInv, NEW c \in Channels, ~(NeedsOwnEntry(c) /\ HAS_QUEUE_SPACE(c))
  PROVE  HAS_QUEUED_DATA(c)
BY RotaryAssumption DEF IInv, TypeOK, RingTypes, NeedsOwnEntry, HAS_QUEUE_SPACE,
   HAS_QUEUED_DATA

\* The interrupt handler.
LEMMA InterruptSafe ==
  ASSUME IInv, NEW c \in Channels, rotary_interrupt(c)
  PROVE  PreviousIsKept' /\ FlagMatchesTask' /\ FinalStatusDelivered' /\ QueuedMeansPosted'
<1>0. UNCHANGED <<open, rd, lastpos, again, at, need>>
  BY DEF rotary_interrupt, task
<1>1. CASE QUEUE_STATUS(c)
  <2> DEFINE new == NewStatus(c)
  <2> HIDE DEF new
  <2>1. /\ HAS_QUEUE_SPACE(c) /\ wr' = [wr EXCEPT ![c] = @ + 1] /\ PostFlagged
        /\ queue' = [queue EXCEPT ![c][Slot(wr[c])] = new]
    BY <1>1 DEF QUEUE_STATUS, new
  <2>2. /\ wr'[c] = wr[c] + 1
        /\ \A b \in Channels \ {c} : wr'[b] = wr[b] /\ queue'[b] = queue[b]
    BY <2>1 DEF IInv, TypeOK, RingTypes
  <2>3. PreviousIsKept'
    BY <1>0, <2>1, <2>2, RotaryAssumption DEF IInv, TypeOK, RingTypes, PreviousIsKept,
       HAS_QUEUE_SPACE
  <2>4. HAS_QUEUED_DATA(c)'
    BY <1>0, <2>2 DEF IInv, TypeOK, RingTypes, PreviousIsKept, HAS_QUEUED_DATA
  <2>5. FinalStatusDelivered'
    BY <1>0, <2>2, <2>4 DEF IInv, FinalStatusDelivered, GET_LAST_STATUS, HAS_QUEUED_DATA
  <2>6. /\ FlagMatchesTask' /\ flagged' \in Nat /\ flagged' >= flagged
        /\ lost => lost'
        /\ ~lost' => flagged' > 0
    <3>0. flagged \in Nat /\ FlagMatchesTask
      BY DEF IInv, TypeOK, CounterTypes
    <3>1. CASE task_queued
      <4>1. task_queued' = TRUE /\ flagged' = flagged /\ (lost => lost')
        BY <2>1, <3>1 DEF PostFlagged
      <4> QED
        BY <3>0, <3>1, <4>1 DEF FlagMatchesTask
    <3>2. CASE ~task_queued /\ QueueFull
      <4>1. task_queued' = task_queued /\ flagged' = flagged /\ lost'
        BY <2>1, <3>2 DEF PostFlagged, IInv, TypeOK, FlagTypes
      <4> QED
        BY <3>0, <3>2, <4>1 DEF FlagMatchesTask
    <3>3. CASE ~task_queued /\ ~QueueFull
      <4>1. task_queued' = TRUE /\ flagged' = flagged + 1 /\ (lost => lost')
        BY <2>1, <3>3 DEF PostFlagged
      <4> QED
        BY <3>0, <3>3, <4>1 DEF FlagMatchesTask
    <3> QED
      BY <3>1, <3>2, <3>3
  <2>7. flagged \in Nat /\ again \in Nat
    BY DEF IInv, TypeOK, CounterTypes
  <2>8. QueuedMeansPosted'
    <3> SUFFICES ASSUME NEW b \in Channels, open'[b], HAS_QUEUED_DATA(b)', ~lost'
                 PROVE  (flagged + again > 0 \/ need \/ WillLook(b))'
      BY DEF QueuedMeansPosted
    <3>1. flagged' > 0 /\ flagged' \in Nat /\ again' \in Nat
      BY <1>0, <2>6, <2>7
    <3>2. flagged' + again' > 0
      <4>1. \A x, y \in Nat : x > 0 => x + y > 0
        OBVIOUS
      <4> QED
        BY <3>1, <4>1, Zenon
    <3> QED
      BY <3>2
  <2> QED
    BY <2>3, <2>5, <2>6, <2>8
<1>2. CASE REPLACE_STATUS(c)
  <2> DEFINE new == NewStatus(c)
  <2> HIDE DEF new
  <2>1. /\ queue' = [queue EXCEPT ![c][Slot(wr[c] - 1)] = new]
        /\ UNCHANGED <<wr, task_queued, flagged, lost>>
    BY <1>2 DEF REPLACE_STATUS, new
  <2>2. HAS_QUEUED_DATA(c)
    BY <1>2, ReplacesUnread DEF REPLACE_STATUS
  <2>3. \A b \in Channels \ {c} : queue'[b] = queue[b]
    BY <2>1 DEF IInv, TypeOK, RingTypes
  <2>4. FinalStatusDelivered'
    BY <1>0, <2>1, <2>2, <2>3 DEF IInv, FinalStatusDelivered, GET_LAST_STATUS,
       HAS_QUEUED_DATA
  <2>5. PreviousIsKept' /\ FlagMatchesTask' /\ QueuedMeansPosted'
    BY <1>0, <2>1 DEF IInv, PreviousIsKept, FlagMatchesTask, QueuedMeansPosted,
       HAS_QUEUED_DATA, WillLook
  <2> QED
    BY <2>4, <2>5
<1>3. CASE UNCHANGED <<queue, wr, task_queued, flagged, lost>>
  BY <1>0, <1>3 DEF IInv, PreviousIsKept, FlagMatchesTask, FinalStatusDelivered,
     QueuedMeansPosted, GET_LAST_STATUS, HAS_QUEUED_DATA, WillLook
<1> QED
  BY <1>1, <1>2, <1>3 DEF rotary_interrupt

\* The task and the other tasks.
LEMMA TaskSafe ==
  ASSUME IInv, Task \/ OtherPosted \/ OtherTask
  PROVE  PreviousIsKept' /\ FlagMatchesTask' /\ FinalStatusDelivered' /\ QueuedMeansPosted'
<1>1. CASE TaskStart \/ TaskStartAgain
  <2>1. /\ at' = 1
        /\ UNCHANGED <<open, queue, rd, wr, lastpos>>
    BY <1>1 DEF TaskStart, TaskStartAgain, driver
  <2>2. FlagMatchesTask'
    BY <1>1 DEF IInv, TypeOK, CounterTypes, FlagMatchesTask, TaskStart, TaskStartAgain
  <2>3. \A c \in Channels : WillLook(c)'
    BY <2>1 DEF WillLook, Channels
  <2> QED
    BY <2>1, <2>2, <2>3 DEF IInv, PreviousIsKept, FinalStatusDelivered, QueuedMeansPosted,
       GET_LAST_STATUS, HAS_QUEUED_DATA
<1>2. CASE NoEvent
  <2>1. /\ at \in Channels /\ at' = at + 1
        /\ ~(open[at] /\ HAS_QUEUED_DATA(at))
        /\ UNCHANGED <<open, queue, rd, wr, lastpos, task_queued, need, flagged, again, lost>>
    BY <1>2 DEF NoEvent, driver, tasks, history
  <2>2. QueuedMeansPosted'
    BY <2>1 DEF IInv, QueuedMeansPosted, HAS_QUEUED_DATA, WillLook, Channels
  <2> QED
    BY <2>1, <2>2 DEF IInv, PreviousIsKept, FlagMatchesTask, FinalStatusDelivered,
       GET_LAST_STATUS, HAS_QUEUED_DATA
<1>3. CASE TakeEvent
  <2>1. /\ at \in Channels /\ at' = at /\ rd[at] < wr[at]
        /\ rd' = [rd EXCEPT ![at] = @ + 1]
        /\ lastpos' = [lastpos EXCEPT ![at] = Event]
        /\ UNCHANGED <<open, queue, wr, task_queued, need, flagged, again, lost>>
    BY <1>3 DEF TakeEvent, HAS_QUEUED_DATA, tasks
  <2>2. /\ rd'[at] = rd[at] + 1 /\ lastpos'[at] = Event
        /\ \A b \in Channels \ {at} : rd'[b] = rd[b] /\ lastpos'[b] = lastpos[b]
    BY <2>1 DEF IInv, TypeOK, RingTypes
  <2>3. PreviousIsKept'
    <3> SUFFICES ASSUME NEW c \in Channels
                 PROVE  rd'[c] <= wr[c] /\ wr[c] - rd'[c] <= QUEUE_SIZE - 1
      BY <2>1 DEF PreviousIsKept
    <3>1. /\ rd[c] \in Nat /\ wr[c] \in Nat
          /\ rd[c] <= wr[c] /\ wr[c] - rd[c] <= QUEUE_SIZE - 1
      BY DEF IInv, TypeOK, RingTypes, PreviousIsKept
    <3>2. CASE c = at
      BY <2>1, <2>2, <3>1, <3>2, RotaryAssumption
    <3>3. CASE c # at
      BY <2>2, <3>1, <3>3
    <3> QED
      BY <3>2, <3>3
  <2>4. ASSUME ~HAS_QUEUED_DATA(at)'
        PROVE  lastpos'[at] = GET_LAST_STATUS(at)'
    <3>1. wr[at] = rd[at] + 1
      BY <2>1, <2>2, <2>4 DEF IInv, TypeOK, RingTypes, HAS_QUEUED_DATA
    <3>2. wr[at] - 1 = rd[at]
      BY <2>1, <3>1 DEF IInv, TypeOK, RingTypes
    <3> QED
      BY <2>1, <2>2, <3>2 DEF Event, GET_LAST_STATUS
  <2>5. FinalStatusDelivered'
    BY <2>1, <2>2, <2>4 DEF IInv, FinalStatusDelivered, GET_LAST_STATUS, HAS_QUEUED_DATA
  <2>6. at \in 1..at
    BY <2>1 DEF Channels
  <2>7. QueuedMeansPosted'
    BY <2>1, <2>2, <2>6 DEF IInv, QueuedMeansPosted, HAS_QUEUED_DATA, WillLook
  <2> QED
    BY <2>1, <2>3, <2>5, <2>7 DEF IInv, FlagMatchesTask
<1>4. CASE LookForMore
  <2>1. /\ at \in Channels /\ at' = at + 1
        /\ need' = (need \/ HAS_QUEUED_DATA(at))
        /\ UNCHANGED <<open, queue, rd, wr, lastpos, task_queued, flagged, again, lost>>
    BY <1>4 DEF LookForMore, IInv, TaskShape, driver, tasks, history
  <2>2. QueuedMeansPosted'
    <3> SUFFICES ASSUME NEW c \in Channels, open[c], HAS_QUEUED_DATA(c), ~lost
                 PROVE  flagged + again > 0 \/ need' \/ WillLook(c)'
      BY <2>1 DEF QueuedMeansPosted, HAS_QUEUED_DATA
    <3>1. flagged + again > 0 \/ need \/ WillLook(c)
      BY DEF IInv, QueuedMeansPosted
    <3>2. CASE c = at
      BY <2>1, <3>2
    <3>3. CASE c # at
      <4>1. WillLook(c) => WillLook(c)'
        BY <2>1, <3>3 DEF WillLook, Channels
      <4> QED
        BY <2>1, <3>1, <4>1
    <3> QED
      BY <3>2, <3>3
  <2> QED
    BY <2>1, <2>2 DEF IInv, PreviousIsKept, FlagMatchesTask, FinalStatusDelivered,
       GET_LAST_STATUS, HAS_QUEUED_DATA
<1>5. CASE TaskEnd
  <2>1. /\ at = N + 1
        /\ UNCHANGED <<open, queue, rd, wr, lastpos, task_queued, flagged>>
    BY <1>5 DEF TaskEnd, driver
  <2>2. /\ again \in Nat /\ flagged \in Nat
        /\ \A c \in Channels : ~WillLook(c)
    BY <2>1, RotaryAssumption DEF IInv, TypeOK, CounterTypes, WillLook, Channels
  <2>3. QueuedMeansPosted'
    <3> SUFFICES ASSUME NEW c \in Channels, open[c], HAS_QUEUED_DATA(c), ~lost'
                 PROVE  flagged' + again' > 0
      BY <2>1 DEF QueuedMeansPosted, HAS_QUEUED_DATA
    <3>1. ~lost /\ ~(need /\ QueueFull)
      BY <1>5 DEF TaskEnd
    <3>2. flagged + again > 0 \/ need
      BY <2>2, <3>1 DEF IInv, QueuedMeansPosted
    <3>3. CASE need
      <4>1. again' = again + 1
        BY <1>5, <3>1, <3>3 DEF TaskEnd
      <4> QED
        BY <2>1, <2>2, <4>1
    <3>4. CASE ~need
      <4>1. again' = again
        BY <1>5, <3>4 DEF TaskEnd
      <4> QED
        BY <2>1, <3>2, <3>4, <4>1
    <3> QED
      BY <3>3, <3>4
  <2> QED
    BY <2>1, <2>3 DEF IInv, PreviousIsKept, FlagMatchesTask, FinalStatusDelivered,
       GET_LAST_STATUS, HAS_QUEUED_DATA
<1>6. CASE OtherPosted \/ OtherTask
  <2>1. UNCHANGED <<open, queue, rd, wr, lastpos, task_queued, flagged, again, at, need, lost>>
    BY <1>6 DEF OtherPosted, OtherTask, driver, task, history
  <2> QED
    BY <2>1 DEF IInv, PreviousIsKept, FlagMatchesTask, FinalStatusDelivered,
       QueuedMeansPosted, GET_LAST_STATUS, HAS_QUEUED_DATA, WillLook
<1> QED
  BY <1>1, <1>2, <1>3, <1>4, <1>5, <1>6 DEF Task

\* Interrupts, task, setup() and close() keep the invariant.
LEMMA StepIInv == IInv /\ [Next]_vars => IInv'
<1> DEFINE Safe == PreviousIsKept /\ FlagMatchesTask /\ FinalStatusDelivered
                     /\ QueuedMeansPosted
<1> SUFFICES ASSUME IInv, [Next]_vars PROVE IInv'
  OBVIOUS
<1>0. TypeOK' /\ TaskShape'
  BY StepTypes, StepShape DEF IInv
<1>1. ASSUME NEW c \in Channels,
             \/ rotary_close(c)
             \/ \E ph \in Phases, pr \in BOOLEAN : rotary_setup(c, ph, pr)
      PROVE  Safe'
  <2>1. MayConfigure(c) /\ Cleared(c)
    BY <1>1 DEF rotary_setup, rotary_close
  <2>2. \A b \in Channels \ {c} : open'[b] = open[b]
    BY <1>1 DEF rotary_setup, rotary_close, IInv, TypeOK, FlagTypes
  <2> QED
    BY <2>1, <2>2, ConfigureSafe
<1>2. ASSUME NEW c \in Channels,
             Turn(c, 1) \/ Turn(c, -1) \/ Push(c) \/ DebounceEnds(c)
      PROVE  Safe'
  <2>1. UNCHANGED <<open, queue, rd, wr, lastpos, task_queued, flagged, again, at, need, lost>>
    BY <1>2 DEF Turn, Push, DebounceEnds, driver, task, tasks, history
  <2> QED
    BY <2>1 DEF IInv, PreviousIsKept, FlagMatchesTask, FinalStatusDelivered,
       QueuedMeansPosted, GET_LAST_STATUS, HAS_QUEUED_DATA, WillLook
<1>3. ASSUME UNCHANGED vars
      PROVE  Safe'
  <2>1. UNCHANGED <<open, queue, rd, wr, lastpos, task_queued, flagged, again, at, need, lost>>
    BY <1>3 DEF vars, driver, task, tasks, history
  <2> QED
    BY <2>1 DEF IInv, PreviousIsKept, FlagMatchesTask, FinalStatusDelivered,
       QueuedMeansPosted, GET_LAST_STATUS, HAS_QUEUED_DATA, WillLook
<1>4. ASSUME NEW c \in Channels, rotary_interrupt(c)
      PROVE  Safe'
  BY <1>4, InterruptSafe
<1>5. ASSUME Task \/ OtherPosted \/ OtherTask
      PROVE  Safe'
  BY <1>5, TaskSafe
<1>6. Safe'
  <2> HIDE DEF Safe
  <2> QED
    BY <1>1, <1>2, <1>3, <1>4, <1>5 DEF Next, Task
<1> QED
  BY <1>0, <1>6 DEF IInv

\* The invariant holds in every behaviour.
LEMMA AlwaysIInv == Spec => []IInv
BY InitIInv, StepIInv, PTL DEF Spec

\* The unread events never reach the slot that the interrupt compares with.
THEOREM PreviousAlwaysKept == Spec => []PreviousIsKept
<1>1. IInv => PreviousIsKept
  BY DEF IInv
<1> QED
  BY <1>1, AlwaysIInv, PTL

\* An empty queue means that the callbacks have seen the present status.
THEOREM FinalStatusAlwaysDelivered == Spec => []FinalStatusDelivered
<1>1. IInv => FinalStatusDelivered
  BY DEF IInv
<1> QED
  BY <1>1, AlwaysIInv, PTL

\* No event waits for a task that nobody posts.
THEOREM QueuedAlwaysPosted == Spec => []QueuedMeansPosted
<1>1. IInv => QueuedMeansPosted
  BY DEF IInv
<1> QED
  BY <1>1, AlwaysIInv, PTL

(***************************************************************************)
(* The position.                                                           *)
(***************************************************************************)

\* While each step has its interrupt, the encoder is where the position says,
\* but for a step whose interrupt is pending.
ExactInv ==
  /\ exact \in [Channels -> BOOLEAN] /\ turned \in [Channels -> 0..(PosMod - 1)]
  /\ \A c \in Channels : open[c] /\ exact[c] =>
       LET p == GET_LAST_STATUS(c).pos IN
       /\ phase[c] = turned[c] % 4
       /\ ~intr[c] => p = turned[c]
       /\ turned[c] \in {p, (p + 1) % PosMod, (p - 1) % PosMod}

\* Positions count modulo a multiple of four: from the two pins the interrupt
\* handler finds the step that was made.
LEMMA StepFound ==
  ASSUME NEW p \in 0..(PosMod - 1), NEW t \in {p, (p + 1) % PosMod, (p - 1) % PosMod}
  PROVE  (p + Step(((t % 4) - p) % 4)) % PosMod = t
<1>0. PosMod \in Nat \ {0} /\ PosMod % 4 = 0 BY RotaryAssumption
<1>1. p % PosMod = p BY <1>0
<1>2. (p + 1) % PosMod = IF p = PosMod - 1 THEN 0 ELSE p + 1 BY <1>0
<1>3. (p - 1) % PosMod = IF p = 0 THEN PosMod - 1 ELSE p - 1 BY <1>0
<1>4. CASE t = p
  <2>1. ((t % 4) - p) % 4 = 0 BY <1>4, <1>0
  <2>2. Step(0) = 0 BY DEF Step
  <2> QED BY <2>1, <2>2, <1>1, <1>4, <1>0
<1>5. CASE t = (p + 1) % PosMod
  <2>1. ((t % 4) - p) % 4 = 1 BY <1>5, <1>2, <1>0
  <2>2. Step(1) = 1 BY DEF Step
  <2> QED BY <2>1, <2>2, <1>5
<1>6. CASE t = (p - 1) % PosMod
  <2>1. ((t % 4) - p) % 4 = 3 BY <1>6, <1>3, <1>0
  <2>2. Step(3) = -1 BY DEF Step
  <2>3. p + (-1) = p - 1 BY <1>0
  <2> QED BY <2>1, <2>2, <2>3, <1>6
<1> QED BY <1>4, <1>5, <1>6

\* The status that the interrupt handler leaves is the new one, on whatever
\* path it takes.
LEMMA LastIsNew ==
  ASSUME TypeOK, NEW c \in Channels, rotary_interrupt(c)
  PROVE  /\ GET_LAST_STATUS(c)' = NewStatus(c)
         /\ \A b \in Channels \ {c} : GET_LAST_STATUS(b)' = GET_LAST_STATUS(b)
<1> DEFINE new == NewStatus(c)
<1>0. wr[c] \in Nat /\ wr \in [Channels -> Nat] /\ queue \in [Channels -> [Slots -> Status]]
  BY DEF TypeOK, RingTypes
<1>1. Slot(wr[c]) \in Slots /\ Slot(wr[c] - 1) \in Slots BY <1>0, SlotType
<1> HIDE DEF new
<1>2. CASE QUEUE_STATUS(c)
  <2>1. wr' = [wr EXCEPT ![c] = @ + 1] /\ queue' = [queue EXCEPT ![c][Slot(wr[c])] = new]
    BY <1>2 DEF QUEUE_STATUS, new
  <2>2. wr'[c] - 1 = wr[c] BY <1>0, <2>1
  <2>3. queue'[c][Slot(wr[c])] = new BY <1>0, <1>1, <2>1
  <2>4. \A b \in Channels \ {c} : wr'[b] = wr[b] /\ queue'[b] = queue[b] BY <1>0, <2>1
  <2> QED BY <2>2, <2>3, <2>4 DEF GET_LAST_STATUS, new
<1>3. CASE REPLACE_STATUS(c)
  <2>1. wr' = wr /\ queue' = [queue EXCEPT ![c][Slot(wr[c] - 1)] = new]
    BY <1>3 DEF REPLACE_STATUS, new
  <2>2. queue'[c][Slot(wr[c] - 1)] = new BY <1>0, <1>1, <2>1
  <2>3. \A b \in Channels \ {c} : queue'[b] = queue[b] BY <1>0, <2>1
  <2> QED BY <2>1, <2>2, <2>3 DEF GET_LAST_STATUS, new
<1>4. CASE NewStatus(c) = GET_LAST_STATUS(c) /\ UNCHANGED <<queue, wr>>
  BY <1>4 DEF GET_LAST_STATUS
<1> QED BY <1>2, <1>3, <1>4 DEF rotary_interrupt

\* Every step keeps the position exact.
LEMMA StepExact == ASSUME TypeOK, TypeOK', ExactInv, [Next]_vars PROVE ExactInv'
<1> DEFINE Exact(c) ==
      open[c] /\ exact[c] =>
        /\ phase[c] = turned[c] % 4
        /\ ~intr[c] => GET_LAST_STATUS(c).pos = turned[c]
        /\ turned[c] \in {GET_LAST_STATUS(c).pos, (GET_LAST_STATUS(c).pos + 1) % PosMod,
                          (GET_LAST_STATUS(c).pos - 1) % PosMod}
      Types == exact \in [Channels -> BOOLEAN] /\ turned \in [Channels -> 0..(PosMod - 1)]
<1>0. Types /\ \A c \in Channels : Exact(c) BY DEF ExactInv
<1>1. SUFFICES Types' /\ \A c \in Channels : Exact(c)' BY DEF ExactInv
<1>2. PosMod \in Nat \ {0} /\ PosMod % 4 = 0 /\ 0 \in 0..(PosMod - 1) BY RotaryAssumption
<1>3. ASSUME NEW c \in Channels PROVE GET_LAST_STATUS(c) \in Status /\ GET_LAST_STATUS(c).pos \in 0..(PosMod - 1)
  <2>1. GET_LAST_STATUS(c) \in Status BY SlotType DEF TypeOK, RingTypes, GET_LAST_STATUS
  <2> QED BY <2>1 DEF Status
<1>4. ASSUME UNCHANGED <<open, exact, turned, phase, queue, wr>>,
             \A c \in Channels : intr[c] => intr'[c]
      PROVE  Types' /\ \A c \in Channels : Exact(c)'
  BY <1>0, <1>4 DEF GET_LAST_STATUS
<1>5. ASSUME NEW c \in Channels, Cleared(c), exact' = [exact EXCEPT ![c] = exact'[c]],
             exact'[c] \in BOOLEAN,
             open' = [open EXCEPT ![c] = open'[c]], phase' = [phase EXCEPT ![c] = phase'[c]],
             exact'[c] /\ open'[c] => phase'[c] = 0
      PROVE  Types' /\ \A b \in Channels : Exact(b)'
  <2>1. /\ queue' = [queue EXCEPT ![c] = [s \in Slots |-> Zero]] /\ wr' = [wr EXCEPT ![c] = 0]
        /\ turned' = [turned EXCEPT ![c] = 0] /\ intr' = [intr EXCEPT ![c] = FALSE]
    BY <1>5 DEF Cleared
  <2>2. Types' BY <1>0, <1>2, <1>5, <2>1
  <2>3. Exact(c)'
    <3>1. Slot(0 - 1) \in Slots BY SlotType
    <3>2. GET_LAST_STATUS(c)' = Zero BY <2>1, <3>1 DEF TypeOK, RingTypes, GET_LAST_STATUS
    <3>3. turned'[c] = 0 /\ 0 % 4 = 0 BY <1>0, <2>1
    <3>4. GET_LAST_STATUS(c)'.pos = 0 BY <3>2 DEF Zero
    <3> QED BY <1>5, <3>3, <3>4
  <2>4. ASSUME NEW b \in Channels, b # c PROVE Exact(b)'
    <3>1. /\ open'[b] = open[b] /\ exact'[b] = exact[b] /\ phase'[b] = phase[b]
          /\ turned'[b] = turned[b] /\ intr'[b] = intr[b] /\ wr'[b] = wr[b] /\ queue'[b] = queue[b]
      BY <1>0, <1>5, <2>1, <2>4 DEF TypeOK, FlagTypes, RingTypes, CounterTypes
    <3> QED BY <1>0, <3>1 DEF GET_LAST_STATUS
  <2> QED BY <2>2, <2>3, <2>4
<1>6. ASSUME NEW c \in Channels, NEW ph \in Phases, NEW pr \in BOOLEAN, rotary_setup(c, ph, pr)
      PROVE  Types' /\ \A b \in Channels : Exact(b)'
  <2>1. /\ Cleared(c) /\ open' = [open EXCEPT ![c] = TRUE] /\ phase' = [phase EXCEPT ![c] = ph]
        /\ exact' = [exact EXCEPT ![c] = (ph = 0)]
    BY <1>6 DEF rotary_setup
  <2>2. exact'[c] = (ph = 0) /\ open'[c] = TRUE /\ phase'[c] = ph
    BY <1>0, <2>1 DEF TypeOK, FlagTypes, CounterTypes
  <2> QED BY <1>5, <2>1, <2>2
<1>7. ASSUME NEW c \in Channels, rotary_close(c) PROVE Types' /\ \A b \in Channels : Exact(b)'
  <2>1. /\ Cleared(c) /\ open' = [open EXCEPT ![c] = FALSE] /\ phase' = [phase EXCEPT ![c] = 0]
        /\ exact' = [exact EXCEPT ![c] = FALSE]
    BY <1>7 DEF rotary_close
  <2>2. exact'[c] = FALSE /\ open'[c] = FALSE /\ phase'[c] = 0
    BY <1>0, <2>1 DEF TypeOK, FlagTypes, CounterTypes
  <2> QED BY <1>5, <2>1, <2>2
<1>8. ASSUME NEW c \in Channels, NEW step \in {1, -1}, Turn(c, step)
      PROVE  Types' /\ \A b \in Channels : Exact(b)'
  <2>1. /\ UNCHANGED <<open, queue, wr>>
        /\ phase' = [phase EXCEPT ![c] = (@ + step) % 4]
        /\ exact' = [exact EXCEPT ![c] = @ /\ ~intr[c]]
        /\ turned' = [turned EXCEPT ![c] = IF exact'[c] THEN (@ + step) % PosMod ELSE 0]
        /\ intr' = [intr EXCEPT ![c] = TRUE]
    BY <1>8 DEF Turn, driver
  <2>2. exact' \in [Channels -> BOOLEAN] /\ exact'[c] = (exact[c] /\ ~intr[c]) BY <1>0, <2>1
  <2>3. (turned[c] + step) % PosMod \in 0..(PosMod - 1) BY <1>0, <1>2
  <2>4. turned' \in [Channels -> 0..(PosMod - 1)] BY <1>0, <1>2, <2>1, <2>3
  <2>5. Exact(c)'
    <3> SUFFICES ASSUME open'[c], exact'[c] PROVE Exact(c)' OBVIOUS
    <3> DEFINE p == GET_LAST_STATUS(c).pos
    <3>1. open[c] /\ exact[c] /\ ~intr[c] BY <2>1, <2>2
    <3>2. phase[c] = turned[c] % 4 /\ p = turned[c] BY <1>0, <3>1
    <3>3. GET_LAST_STATUS(c)' = GET_LAST_STATUS(c) BY <2>1 DEF GET_LAST_STATUS
    <3>4. turned'[c] = (p + step) % PosMod /\ phase'[c] = ((turned[c] % 4) + step) % 4 /\ intr'[c]
      BY <1>0, <2>1, <3>2 DEF TypeOK, FlagTypes, CounterTypes
    <3>5. p \in 0..(PosMod - 1) BY <1>3
    <3> HIDE DEF p
    <3>6. ((p % 4) + step) % 4 = ((p + step) % PosMod) % 4
      <4>1. (p + 1) % PosMod = IF p = PosMod - 1 THEN 0 ELSE p + 1 BY <1>2, <3>5
      <4>2. (p - 1) % PosMod = IF p = 0 THEN PosMod - 1 ELSE p - 1 BY <1>2, <3>5
      <4>3. CASE step = 1
        <5>1. ((p % 4) + 1) % 4 = ((p + 1) % PosMod) % 4 BY <4>1, <1>2, <3>5
        <5> QED BY <4>3, <5>1
      <4>4. CASE step = -1
        <5>1. ((p % 4) - 1) % 4 = ((p - 1) % PosMod) % 4 BY <4>2, <1>2, <3>5
        <5>2. (p % 4) + step = (p % 4) - 1 /\ p + step = p - 1 BY <4>4, <3>5
        <5> QED BY <5>1, <5>2
      <4> QED BY <4>3, <4>4
    <3>7. p + (-1) = p - 1 BY <3>5
    <3>8. turned'[c] \in {(p + 1) % PosMod, (p - 1) % PosMod} BY <3>4, <3>7
    <3>9. GET_LAST_STATUS(c)'.pos = p BY <3>3 DEF p
    <3> QED BY <3>2, <3>4, <3>6, <3>8, <3>9
  <2>6. ASSUME NEW b \in Channels, b # c PROVE Exact(b)'
    <3>1. /\ open'[b] = open[b] /\ exact'[b] = exact[b] /\ phase'[b] = phase[b]
          /\ turned'[b] = turned[b] /\ intr'[b] = intr[b] /\ UNCHANGED <<wr, queue>>
      BY <1>0, <2>1, <2>6 DEF TypeOK, FlagTypes, CounterTypes
    <3> QED BY <1>0, <3>1 DEF GET_LAST_STATUS
  <2> QED BY <2>2, <2>4, <2>5, <2>6
<1>9. ASSUME NEW c \in Channels, rotary_interrupt(c) PROVE Types' /\ \A b \in Channels : Exact(b)'
  <2>1. UNCHANGED <<open, phase, turned, exact>> /\ intr' = [intr EXCEPT ![c] = FALSE]
    BY <1>9 DEF rotary_interrupt
  <2>2. /\ GET_LAST_STATUS(c)' = NewStatus(c)
        /\ \A b \in Channels \ {c} : GET_LAST_STATUS(b)' = GET_LAST_STATUS(b)
    BY <1>9, LastIsNew
  <2>3. Exact(c)'
    <3> SUFFICES ASSUME open[c], exact[c] PROVE GET_LAST_STATUS(c)'.pos = turned[c]
      BY <1>0, <2>1
    <3>1. GET_LAST_STATUS(c)'.pos =
            (GET_LAST_STATUS(c).pos + Step((phase[c] - GET_LAST_STATUS(c).pos) % 4)) % PosMod
      BY <2>2 DEF NewStatus
    <3> QED BY <1>0, <1>3, <3>1, StepFound
  <2>4. ASSUME NEW b \in Channels, b # c PROVE Exact(b)'
    <3>1. intr'[b] = intr[b] BY <2>1, <2>4 DEF TypeOK, FlagTypes
    <3> QED BY <1>0, <2>1, <2>2, <2>4, <3>1
  <2> QED BY <1>0, <2>1, <2>3, <2>4
<1>10. ASSUME NEW c \in Channels, Push(c) \/ DebounceEnds(c)
       PROVE  Types' /\ \A b \in Channels : Exact(b)'
  <2>1. UNCHANGED <<open, exact, turned, phase, queue, wr>> BY <1>10 DEF Push, DebounceEnds, driver, pins, history
  <2>2. \A b \in Channels : intr[b] => intr'[b] BY <1>10 DEF Push, DebounceEnds, pins, TypeOK, FlagTypes
  <2> QED BY <1>4, <2>1, <2>2
<1>11. ASSUME Task \/ OtherPosted \/ OtherTask \/ UNCHANGED vars
       PROVE  Types' /\ \A b \in Channels : Exact(b)'
  <2>1. UNCHANGED <<open, exact, turned, phase, queue, wr, intr>>
    BY <1>11 DEF Task, TaskStart, TaskStartAgain, NoEvent, TakeEvent, LookForMore, TaskEnd, OtherPosted,
       OtherTask, vars, driver, pins, history
  <2> QED BY <1>4, <2>1
<1>12. CASE \E c \in Channels : \/ \E ph \in Phases, pr \in BOOLEAN : rotary_setup(c, ph, pr)
                                \/ rotary_close(c) \/ rotary_interrupt(c)
                                \/ Turn(c, 1) \/ Turn(c, -1) \/ Push(c) \/ DebounceEnds(c)
  <2> HIDE DEF Types, Exact
  <2> QED BY <1>6, <1>7, <1>8, <1>9, <1>10, <1>12
<1> QED BY <1>11, <1>12 DEF Next, Task

\* When each step had its interrupt, the position that rotary_interrupt() keeps
\* is the number of steps turned.
THEOREM PositionAlwaysExact == Spec => []PositionIsExact
<1>1. Init => ExactInv
  <2>1. 0 \in 0..(PosMod - 1) BY RotaryAssumption
  <2> QED BY <2>1 DEF Init, ExactInv
<1>2. IInv /\ ExactInv /\ [Next]_vars => ExactInv'
  BY StepExact, StepIInv DEF IInv
<1>3. ExactInv => PositionIsExact BY DEF ExactInv, PositionIsExact
<1> QED BY <1>1, <1>2, <1>3, AlwaysIInv, PTL DEF Spec

(***************************************************************************)
(* The press changes.                                                      *)
(***************************************************************************)

\* The changes in a ring q read up to r and written up to w, by their offsets:
\* the status before the first unread one is still in its slot.
Marks(q, r, w) == {j \in r..(w - 1) : q[Slot(j)].press # q[Slot(j - 1)].press}

IsList(f, u, q, r, w) ==
  /\ f \in [1..Len(u) -> Marks(q, r, w)]
  /\ \A i, j \in 1..Len(u) : i < j => f[i] < f[j]
  /\ \A m \in Marks(q, r, w) : \E i \in 1..Len(u) : f[i] = m
  /\ \A i \in 1..Len(u) : u[i] = q[Slot(f[i])]

Lists(u, q, r, w) == \E f : IsList(f, u, q, r, w)

\* Offsets less than the size of the ring apart have different slots.
LEMMA SlotsDiffer ==
  ASSUME NEW a \in Int, NEW b \in Int, b < a, a - b < QUEUE_SIZE
  PROVE  Slot(a) # Slot(b)
<1> DEFINE Q == QUEUE_SIZE
           x == a \div Q
           y == b \div Q
<1>0. Q \in Nat \ {0} BY RotaryAssumption
<1>1. x \in Int /\ y \in Int /\ a = (Q * x) + (a % Q) /\ b = (Q * y) + (b % Q) BY <1>0
<1>2. a % Q \in Int /\ b % Q \in Int BY <1>0
<1> SUFFICES ASSUME a % Q = b % Q PROVE FALSE BY DEF Slot
<1> HIDE DEF x, y, Q
<1>3. a - b = Q * (x - y) /\ x - y \in Int
  <2>1. Q * (x - y) = Q * x - Q * y BY <1>0, <1>1
  <2>2. Q * x \in Int /\ Q * y \in Int BY <1>0, <1>1
  <2> QED BY <1>1, <1>2, <2>1, <2>2
<1>4. CASE x - y <= 0
  <2>1. Q * (x - y) <= 0 BY <1>0, <1>3, <1>4
  <2> QED BY <1>3, <2>1
<1>5. CASE x - y >= 1
  <2>1. Q * (x - y) >= Q BY <1>0, <1>3, <1>5
  <2> QED BY <1>0, <1>3, <2>1 DEF Q
<1> QED BY <1>3, <1>4, <1>5

\* A status is written to an entry of its own.
LEMMA ListsQueued ==
  ASSUME NEW q \in [Slots -> Status], NEW u \in Seq(Status), NEW new \in Status,
         NEW r \in Nat, NEW w \in Nat, r <= w, w - r < QUEUE_SIZE - 1, Lists(u, q, r, w)
  PROVE  Lists(IF new.press # q[Slot(w - 1)].press THEN Append(u, new) ELSE u,
               [q EXCEPT ![Slot(w)] = new], r, w + 1)
<1> DEFINE q2 == [q EXCEPT ![Slot(w)] = new]
<1>0. QUEUE_SIZE \in Nat BY RotaryAssumption
<1>1. \A j \in (r - 1)..(w - 1) : q2[Slot(j)] = q[Slot(j)]
  <2> SUFFICES ASSUME NEW j \in (r - 1)..(w - 1) PROVE q2[Slot(j)] = q[Slot(j)] OBVIOUS
  <2>1. j \in Int /\ j < w /\ w - j < QUEUE_SIZE BY <1>0
  <2>2. Slot(w) # Slot(j) /\ Slot(j) \in Slots BY <2>1, SlotsDiffer, SlotType
  <2> QED BY <2>2
<1>2. q2[Slot(w)] = new
  <2>1. Slot(w) \in Slots BY SlotType
  <2> QED BY <2>1
<1> HIDE DEF q2
<1>3. \A j \in r..(w - 1) : j \in (r - 1)..(w - 1) /\ j - 1 \in (r - 1)..(w - 1) OBVIOUS
<1>4. \A j \in r..(w - 1) : j \in Marks(q2, r, w + 1) <=> j \in Marks(q, r, w)
  <2>1. \A j \in r..(w - 1) : j \in r..((w + 1) - 1) OBVIOUS
  <2> QED BY <1>1, <1>3, <2>1 DEF Marks
<1>5. w \in Marks(q2, r, w + 1) <=> new.press # q[Slot(w - 1)].press
  <2>1. w - 1 \in (r - 1)..(w - 1) /\ w \in r..((w + 1) - 1) OBVIOUS
  <2> QED BY <1>1, <1>2, <2>1 DEF Marks
<1>6. \A j : j \in Marks(q2, r, w + 1) => j \in r..(w - 1) \/ j = w
  <2>1. \A j \in r..((w + 1) - 1) : j \in r..(w - 1) \/ j = w OBVIOUS
  <2> QED BY <2>1 DEF Marks
<1>7. \A j : j \in Marks(q, r, w) => j \in r..(w - 1) BY DEF Marks
<1>8. PICK f : IsList(f, u, q, r, w) BY DEF Lists
<1>9. CASE ~(new.press # q[Slot(w - 1)].press)
  <2>1. Marks(q2, r, w + 1) = Marks(q, r, w) BY <1>4, <1>5, <1>6, <1>7, <1>9
  <2>2. \A m \in Marks(q, r, w) : q2[Slot(m)] = q[Slot(m)] BY <1>1, <1>3, <1>7
  <2>3. IsList(f, u, q2, r, w + 1) BY <1>8, <2>1, <2>2 DEF IsList
  <2> QED BY <1>9, <2>3 DEF Lists, q2
<1>10. CASE new.press # q[Slot(w - 1)].press
  <2> DEFINE L == Len(u)
             u2 == Append(u, new)
             g == [i \in 1..(L + 1) |-> IF i = L + 1 THEN w ELSE f[i]]
  <2>1. L \in Nat /\ Len(u2) = L + 1 /\ u2[L + 1] = new /\ \A i \in 1..L : u2[i] = u[i] OBVIOUS
  <2>2. \A i \in 1..L : i \in 1..(L + 1) /\ i # L + 1 BY <2>1
  <2>3. \A i \in 1..(L + 1) : i \in 1..L \/ i = L + 1 BY <2>1
  <2>4. L + 1 \in 1..(L + 1) BY <2>1
  <2>5. g[L + 1] = w /\ \A i \in 1..L : g[i] = f[i] BY <2>2, <2>4
  <2>6. \A i \in 1..L : f[i] \in Marks(q, r, w) /\ f[i] \in r..(w - 1) BY <1>7, <1>8 DEF IsList
  <2>7. \A i \in 1..(L + 1) : g[i] \in Marks(q2, r, w + 1) BY <1>4, <1>5, <1>10, <2>3, <2>5, <2>6
  <2> HIDE DEF u2
  <2>8. g \in [1..(L + 1) -> Marks(q2, r, w + 1)] BY <2>7
  <2> HIDE DEF g, L
  <2>9. \A i, j \in 1..(L + 1) : i < j => g[i] < g[j]
    <3> SUFFICES ASSUME NEW i \in 1..(L + 1), NEW j \in 1..(L + 1), i < j PROVE g[i] < g[j] OBVIOUS
    <3>1. i \in 1..L BY <2>1, <2>3
    <3>2. CASE j = L + 1 BY <2>5, <2>6, <3>1, <3>2
    <3>3. CASE j \in 1..L
      <4>1. f[i] < f[j] BY <1>8, <3>1, <3>3 DEF IsList, L
      <4> QED BY <2>5, <3>1, <3>3, <4>1
    <3> QED BY <2>3, <3>2, <3>3
  <2>10. \A m \in Marks(q2, r, w + 1) : \E i \in 1..(L + 1) : g[i] = m
    <3> SUFFICES ASSUME NEW m \in Marks(q2, r, w + 1) PROVE \E i \in 1..(L + 1) : g[i] = m OBVIOUS
    <3>1. CASE m = w BY <2>4, <2>5, <3>1
    <3>2. CASE m \in r..(w - 1)
      <4>1. m \in Marks(q, r, w) BY <1>4, <3>2
      <4>2. PICK i \in 1..L : f[i] = m BY <1>8, <4>1 DEF IsList, L
      <4> QED BY <2>2, <2>5, <4>2
    <3> QED BY <1>6, <3>1, <3>2
  <2>11. \A i \in 1..(L + 1) : u2[i] = q2[Slot(g[i])]
    <3>1. \A i \in 1..L : u[i] = q[Slot(f[i])] BY <1>8 DEF IsList, L
    <3>2. \A i \in 1..L : u2[i] = q2[Slot(g[i])] BY <1>1, <1>3, <2>1, <2>5, <2>6, <3>1
    <3> QED BY <1>2, <2>1, <2>3, <2>5, <3>2
  <2>12. IsList(g, u2, q2, r, w + 1) BY <2>1, <2>8, <2>9, <2>10, <2>11 DEF IsList
  <2> QED BY <1>10, <2>12 DEF Lists, q2, u2
<1> QED BY <1>9, <1>10

\* A status replaces the last one, with which the press bit has not changed.
LEMMA ListsReplaced ==
  ASSUME NEW q \in [Slots -> Status], NEW u \in Seq(Status), NEW new \in Status,
         NEW r \in Nat, NEW w \in Nat, r < w, w - r < QUEUE_SIZE, Lists(u, q, r, w),
         new.press = q[Slot(w - 1)].press, q[Slot(w - 1)].press = q[Slot(w - 2)].press
  PROVE  Lists(u, [q EXCEPT ![Slot(w - 1)] = new], r, w)
<1> DEFINE q2 == [q EXCEPT ![Slot(w - 1)] = new]
<1>0. QUEUE_SIZE \in Nat BY RotaryAssumption
<1>1. \A j \in (r - 1)..(w - 2) : q2[Slot(j)] = q[Slot(j)]
  <2> SUFFICES ASSUME NEW j \in (r - 1)..(w - 2) PROVE q2[Slot(j)] = q[Slot(j)] OBVIOUS
  <2>1. j \in Int /\ w - 1 \in Int /\ j < w - 1 /\ (w - 1) - j < QUEUE_SIZE BY <1>0
  <2>2. Slot(w - 1) # Slot(j) /\ Slot(j) \in Slots BY <2>1, SlotsDiffer, SlotType
  <2> QED BY <2>2
<1>2. q2[Slot(w - 1)] = new
  <2>1. Slot(w - 1) \in Slots BY SlotType
  <2> QED BY <2>1
<1> HIDE DEF q2
<1>3. \A j \in (r - 1)..(w - 1) : q2[Slot(j)].press = q[Slot(j)].press
  <2>1. \A j \in (r - 1)..(w - 1) : j \in (r - 1)..(w - 2) \/ j = w - 1 OBVIOUS
  <2> QED BY <1>1, <1>2, <2>1
<1>4. \A j \in r..(w - 1) : j \in (r - 1)..(w - 1) /\ j - 1 \in (r - 1)..(w - 1) OBVIOUS
<1>5. Marks(q2, r, w) = Marks(q, r, w) BY <1>3, <1>4 DEF Marks
<1>6. \A m \in Marks(q, r, w) : q2[Slot(m)] = q[Slot(m)]
  <2> SUFFICES ASSUME NEW m \in Marks(q, r, w) PROVE q2[Slot(m)] = q[Slot(m)] OBVIOUS
  <2>1. m \in r..(w - 1) /\ q[Slot(m)].press # q[Slot(m - 1)].press BY DEF Marks
  <2>2. (w - 1) - 1 = w - 2 OBVIOUS
  <2>3. m # w - 1 BY <2>1, <2>2
  <2>4. m \in (r - 1)..(w - 2) BY <2>1, <2>3
  <2> QED BY <1>1, <2>4
<1>7. PICK f : IsList(f, u, q, r, w) BY DEF Lists
<1>8. IsList(f, u, q2, r, w) BY <1>5, <1>6, <1>7 DEF IsList
<1> QED BY <1>8 DEF Lists, q2

\* The oldest status is taken: a change of it was the first one listed.
LEMMA ListsTaken ==
  ASSUME NEW q \in [Slots -> Status], NEW u \in Seq(Status),
         NEW r \in Nat, NEW w \in Nat, r < w, Lists(u, q, r, w)
  PROVE  Lists(IF u # <<>> /\ q[Slot(r)].press # q[Slot(r - 1)].press THEN Tail(u) ELSE u,
               q, r + 1, w)
<1> DEFINE first == q[Slot(r)].press # q[Slot(r - 1)].press
           L == Len(u)
<1>0. L \in Nat OBVIOUS
<1>1. \A j : j \in Marks(q, r + 1, w) <=> j \in Marks(q, r, w) /\ j # r
  <2>1. \A j : j \in (r + 1)..(w - 1) <=> j \in r..(w - 1) /\ j # r OBVIOUS
  <2> QED BY <2>1 DEF Marks
<1>2. first <=> r \in Marks(q, r, w)
  <2>1. r \in r..(w - 1) OBVIOUS
  <2> QED BY <2>1 DEF Marks
<1>3. \A j \in Marks(q, r, w) : j \in Int /\ r <= j BY DEF Marks
<1>4. PICK f : IsList(f, u, q, r, w) BY DEF Lists
<1>5. CASE ~first
  <2>1. Marks(q, r + 1, w) = Marks(q, r, w) BY <1>1, <1>2, <1>5
  <2>2. IsList(f, u, q, r + 1, w) BY <1>4, <2>1 DEF IsList
  <2> QED BY <1>5, <2>2 DEF Lists
<1>6. CASE first
  <2>1. PICK k \in 1..L : f[k] = r BY <1>2, <1>4, <1>6 DEF IsList
  <2>2. L >= 1 /\ 1 \in 1..L BY <2>1, <1>0
  <2>3. f[1] = r
    <3>1. f[1] \in Marks(q, r, w) BY <1>4, <2>2 DEF IsList
    <3>2. f[1] \in Int /\ r <= f[1] BY <1>3, <3>1
    <3>3. 1 < k => f[1] < f[k] BY <1>4, <2>1, <2>2 DEF IsList
    <3>4. CASE k = 1 BY <2>1, <3>4
    <3>5. CASE k # 1
      <4>1. f[1] < r BY <2>1, <3>3, <3>5
      <4> QED BY <3>2, <4>1
    <3> QED BY <3>4, <3>5
  <2> DEFINE v == Tail(u)
             g == [i \in 1..(L - 1) |-> f[i + 1]]
  <2>4. u # <<>> BY <2>2
  <2>5. v \in Seq(Status) /\ Len(v) = L - 1 /\ \A i \in 1..(L - 1) : v[i] = u[i + 1] BY <2>4
  <2>6. \A i \in 1..(L - 1) : i + 1 \in 1..L /\ 1 < i + 1 BY <1>0
  <2>7. \A i \in 1..(L - 1) : g[i] = f[i + 1] OBVIOUS
  <2>8. \A i \in 1..(L - 1) : g[i] \in Marks(q, r + 1, w)
    <3> SUFFICES ASSUME NEW i \in 1..(L - 1) PROVE g[i] \in Marks(q, r + 1, w) OBVIOUS
    <3>1. f[i + 1] \in Marks(q, r, w) /\ f[1] < f[i + 1] BY <1>4, <2>2, <2>6 DEF IsList
    <3>2. f[i + 1] # r BY <2>3, <3>1
    <3> QED BY <1>1, <2>7, <3>1, <3>2
  <2>9. g \in [1..(L - 1) -> Marks(q, r + 1, w)] BY <2>8
  <2> HIDE DEF v, g, L
  <2>10. \A i, j \in 1..(L - 1) : i < j => g[i] < g[j]
    <3> SUFFICES ASSUME NEW i \in 1..(L - 1), NEW j \in 1..(L - 1), i < j PROVE g[i] < g[j] OBVIOUS
    <3>1. i + 1 \in 1..L /\ j + 1 \in 1..L /\ i + 1 < j + 1 BY <2>6
    <3>2. f[i + 1] < f[j + 1] BY <1>4, <3>1 DEF IsList, L
    <3> QED BY <2>7, <3>2
  <2>11. \A m \in Marks(q, r + 1, w) : \E i \in 1..(L - 1) : g[i] = m
    <3> SUFFICES ASSUME NEW m \in Marks(q, r + 1, w) PROVE \E i \in 1..(L - 1) : g[i] = m OBVIOUS
    <3>1. m \in Marks(q, r, w) /\ m # r BY <1>1
    <3>2. PICK i \in 1..L : f[i] = m BY <1>4, <3>1 DEF IsList, L
    <3>3. i # 1 BY <2>3, <3>1, <3>2
    <3>4. i - 1 \in 1..(L - 1) /\ (i - 1) + 1 = i BY <1>0, <3>3
    <3> QED BY <2>7, <3>2, <3>4
  <2>12. \A i \in 1..(L - 1) : v[i] = q[Slot(g[i])]
    <3>1. \A i \in 1..L : u[i] = q[Slot(f[i])] BY <1>4 DEF IsList, L
    <3> QED BY <2>5, <2>6, <2>7, <3>1
  <2>13. IsList(g, v, q, r + 1, w) BY <2>5, <2>9, <2>10, <2>11, <2>12 DEF IsList
  <2> QED BY <1>6, <2>4, <2>13 DEF Lists, v
<1> QED BY <1>5, <1>6

\* The status read last is kept in its slot, and the changes since are listed
\* as long as the ring has not been full.
ConservedInv ==
  /\ undelivered \in [Channels -> Seq(Status)] /\ overflowed \in [Channels -> BOOLEAN]
  /\ \A c \in Channels :
       /\ queue[c][Slot(rd[c] - 1)] = lastpos[c]
       /\ open[c] /\ ~overflowed[c] => Lists(undelivered[c], queue[c], rd[c], wr[c])

\* It is what PressesConserved says, without offsets.
LEMMA ListsConserved == IInv /\ ConservedInv => PressesConserved
<1> SUFFICES ASSUME IInv, ConservedInv, NEW c \in Channels, open[c], ~overflowed[c]
             PROVE  ListsChanges(undelivered[c], <<lastpos[c]>> \o Unread(c))
  BY DEF PressesConserved
<1> DEFINE q == queue[c]
           u == undelivered[c]
           r == rd[c]
           w == wr[c]
           s == <<lastpos[c]>> \o Unread(c)
           n == w - r + 1
<1>0. r \in Nat /\ w \in Nat /\ r <= w /\ n \in Nat \ {0} /\ q \in [Slots -> Status] /\ lastpos[c] \in Status
  BY DEF IInv, TypeOK, RingTypes, PreviousIsKept
<1>1. Unread(c) \in Seq(Status) /\ Len(Unread(c)) = w - r /\ \A i \in 1..(w - r) : Unread(c)[i] = q[Slot(r + i - 1)]
  <2>1. \A i \in 1..(w - r) : q[Slot(r + i - 1)] \in Status
    <3> SUFFICES ASSUME NEW i \in 1..(w - r) PROVE q[Slot(r + i - 1)] \in Status OBVIOUS
    <3>1. r + i - 1 \in Int BY <1>0
    <3>2. Slot(r + i - 1) \in Slots BY <3>1, SlotType
    <3> QED BY <1>0, <3>2
  <2>2. w - r \in Nat BY <1>0
  <2> QED BY <2>1, <2>2 DEF Unread
<1>2. s \in Seq(Status) /\ Len(s) = n /\ \A i \in 1..n : s[i] = q[Slot(r + i - 2)]
  <2>1. <<lastpos[c]>> \in Seq(Status) /\ Len(<<lastpos[c]>>) = 1 /\ <<lastpos[c]>>[1] = lastpos[c] BY <1>0
  <2> DEFINE x == <<lastpos[c]>>
             y == Unread(c)
  <2> HIDE DEF x, y
  <2>2. x \in Seq(Status) /\ y \in Seq(Status) /\ Len(x) = 1 /\ Len(y) = w - r BY <1>1, <2>1 DEF x, y
  <2>3. /\ x \o y \in Seq(Status) /\ Len(x \o y) = Len(x) + Len(y)
        /\ \A i \in 1..(Len(x) + Len(y)) : (x \o y)[i] = IF i <= Len(x) THEN x[i] ELSE y[i - Len(x)]
    BY ONLY <2>2, ConcatProperties
  <2>4. /\ Len(x \o y) = n /\ (x \o y)[1] = x[1]
        /\ \A i \in 1..(1 + (w - r)) : ~(i <= 1) => (x \o y)[i] = y[i - 1]
    BY <1>0, <2>2, <2>3
  <2>5. ASSUME NEW i \in 1..n PROVE (x \o y)[i] = q[Slot(r + i - 2)]
    <3>1. CASE i = 1
      <4>1. (x \o y)[1] = x[1] BY <2>4
      <4>2. r + i - 2 = r - 1 BY <1>0, <3>1
      <4> QED BY <2>1, <3>1, <4>1, <4>2 DEF ConservedInv, x
    <3>2. CASE i # 1
      <4>1. i - 1 \in 1..(w - r) /\ i \in 1..(1 + (w - r)) /\ ~(i <= 1) BY <1>0, <3>2
      <4>2. (x \o y)[i] = y[i - 1] BY <2>4, <4>1
      <4>3. r + (i - 1) - 1 = r + i - 2 BY <1>0
      <4>4. y[i - 1] = q[Slot(r + (i - 1) - 1)] BY <1>1, <4>1 DEF y
      <4> QED BY <4>2, <4>3, <4>4
    <3> QED BY <3>1, <3>2
  <2> QED BY <2>3, <2>5, <2>4 DEF x, y
<1> HIDE DEF s, n
<1>3. \A i : i \in PressChanges(s) <=> i \in Int /\ i + (r - 2) \in Marks(q, r, w)
  <2> SUFFICES ASSUME NEW i PROVE i \in PressChanges(s) <=> i \in Int /\ i + (r - 2) \in Marks(q, r, w)
    OBVIOUS
  <2>1. i \in 2..n <=> i \in Int /\ i + (r - 2) \in r..(w - 1) BY <1>0 DEF n
  <2>2. ASSUME i \in 2..n
        PROVE  s[i] = q[Slot(i + (r - 2))] /\ s[i - 1] = q[Slot((i + (r - 2)) - 1)]
    <3>1. i \in 1..n /\ i - 1 \in 1..n BY <2>2, <1>0
    <3>2. r + i - 2 = i + (r - 2) /\ r + (i - 1) - 2 = (i + (r - 2)) - 1 BY <2>2, <1>0
    <3> QED BY <1>2, <3>1, <3>2
  <2> QED BY <1>2, <2>1, <2>2 DEF PressChanges, Marks
<1>4. PICK f : IsList(f, u, q, r, w) BY DEF ConservedInv, Lists
<1> DEFINE L == Len(u)
           g == [i \in 1..L |-> f[i] - (r - 2)]
<1>5. \A i \in 1..L : f[i] \in Marks(q, r, w) /\ f[i] \in Int BY <1>4 DEF IsList, Marks
<1>6. \A i \in 1..L : g[i] = f[i] - (r - 2) OBVIOUS
<1>7. \A i \in 1..L : g[i] \in Int /\ g[i] + (r - 2) = f[i] BY <1>0, <1>5, <1>6
<1>8. \A i \in 1..L : g[i] \in PressChanges(s) BY <1>3, <1>5, <1>7
<1>9. g \in [1..L -> PressChanges(s)] BY <1>8
<1> HIDE DEF g, L
<1>10. \A i, j \in 1..L : i < j => g[i] < g[j]
  <2> SUFFICES ASSUME NEW i \in 1..L, NEW j \in 1..L, i < j PROVE g[i] < g[j] OBVIOUS
  <2>1. f[i] < f[j] BY <1>4 DEF IsList, L
  <2>2. f[i] \in Int /\ f[j] \in Int BY <1>5
  <2> QED BY <1>0, <1>6, <2>1, <2>2
<1>11. \A m \in PressChanges(s) : \E i \in 1..L : g[i] = m
  <2> SUFFICES ASSUME NEW m \in PressChanges(s) PROVE \E i \in 1..L : g[i] = m OBVIOUS
  <2>1. m \in Int /\ m + (r - 2) \in Marks(q, r, w) BY <1>3
  <2>2. PICK i \in 1..L : f[i] = m + (r - 2) BY <1>4, <2>1 DEF IsList, L
  <2>3. g[i] = m BY <1>0, <1>6, <2>1, <2>2
  <2> QED BY <2>3
<1>12. \A i \in 1..L : u[i] = s[g[i]]
  <2> SUFFICES ASSUME NEW i \in 1..L PROVE u[i] = s[g[i]] OBVIOUS
  <2>1. u[i] = q[Slot(f[i])] BY <1>4 DEF IsList, L
  <2>2. g[i] \in 2..n BY <1>2, <1>8 DEF PressChanges
  <2>3. g[i] \in 1..n /\ r + g[i] - 2 = g[i] + (r - 2) BY <1>0, <2>2
  <2>4. s[g[i]] = q[Slot(r + g[i] - 2)] BY <1>2, <2>3
  <2> QED BY <1>7, <2>1, <2>3, <2>4
<1> QED BY <1>9, <1>10, <1>11, <1>12 DEF ListsChanges, L, s

\* The interrupt handler lists what it queues, and replaces only what is no
\* change.
LEMMA InterruptConserves ==
  ASSUME IInv, ConservedInv, NEW c \in Channels, rotary_interrupt(c)
  PROVE  ConservedInv'
<1> DEFINE q == queue[c]
           u == undelivered[c]
           r == rd[c]
           w == wr[c]
           new == NewStatus(c)
<1>0. /\ r \in Nat /\ w \in Nat /\ r <= w /\ w - r <= QUEUE_SIZE - 1 /\ QUEUE_SIZE \in Nat
      /\ q \in [Slots -> Status] /\ u \in Seq(Status)
  BY RotaryAssumption DEF IInv, TypeOK, RingTypes, PreviousIsKept, ConservedInv
<1>1. /\ queue \in [Channels -> [Slots -> Status]] /\ wr \in [Channels -> Nat]
      /\ undelivered \in [Channels -> Seq(Status)] /\ overflowed \in [Channels -> BOOLEAN]
  BY DEF IInv, TypeOK, RingTypes, ConservedInv
<1>2. new \in Status /\ Changes(c) = (new.press # GET_LAST_STATUS(c).press)
  BY NewStatusType DEF IInv, Changes
<1>3. GET_LAST_STATUS(c) = q[Slot(w - 1)] /\ GET_PREV_STATUS(c) = q[Slot(w - 2)]
  BY DEF GET_LAST_STATUS, GET_PREV_STATUS
<1>4. /\ UNCHANGED <<open, rd, lastpos>>
      /\ undelivered' = [undelivered EXCEPT ![c] =
                           IF overflowed'[c] THEN <<>> ELSE IF Changes(c) THEN Append(@, new) ELSE @]
  BY DEF rotary_interrupt
<1>5. undelivered' \in [Channels -> Seq(Status)]
  <2>1. <<>> \in Seq(Status) /\ Append(u, new) \in Seq(Status) BY <1>0, <1>2
  <2> HIDE DEF new
  <2> QED BY <1>1, <1>4, <2>1
<1>6. \A b \in Channels \ {c} : undelivered'[b] = undelivered[b] BY <1>1, <1>4
\* What is left to show.
<1>7. ASSUME overflowed' \in [Channels -> BOOLEAN],
             \A b \in Channels \ {c} :
               overflowed'[b] = overflowed[b] /\ queue'[b] = queue[b] /\ wr'[b] = wr[b],
             queue'[c][Slot(r - 1)] = q[Slot(r - 1)],
             ~overflowed'[c] => ~overflowed[c],
             ~overflowed'[c] /\ Lists(u, q, r, w) =>
               Lists(IF Changes(c) THEN Append(u, new) ELSE u, queue'[c], r, wr'[c])
      PROVE  ConservedInv'
  <2>1. ASSUME NEW b \in Channels
        PROVE  queue'[b][Slot(rd'[b] - 1)] = lastpos'[b]
    <3>1. queue[b][Slot(rd[b] - 1)] = lastpos[b] BY DEF ConservedInv
    <3>2. CASE b = c BY <1>4, <1>7, <3>1, <3>2
    <3>3. CASE b # c BY <1>4, <1>7, <3>1, <3>3
    <3> QED BY <3>2, <3>3
  <2>2. ASSUME NEW b \in Channels, open'[b], ~overflowed'[b]
        PROVE  Lists(undelivered'[b], queue'[b], rd'[b], wr'[b])
    <3>1. open[b] /\ ~overflowed[b] => Lists(undelivered[b], queue[b], rd[b], wr[b]) BY DEF ConservedInv
    <3>2. CASE b # c BY <1>4, <1>6, <1>7, <2>2, <3>1, <3>2
    <3>3. CASE b = c
      <4>1. Lists(u, q, r, w) BY <1>4, <1>7, <2>2, <3>1, <3>3
      <4>2. undelivered'[c] = IF Changes(c) THEN Append(u, new) ELSE u BY <1>1, <1>4, <2>2, <3>3
      <4> QED BY <1>4, <1>7, <2>2, <3>3, <4>1, <4>2
    <3> QED BY <3>2, <3>3
  <2> QED BY <1>5, <1>7, <2>1, <2>2 DEF ConservedInv
<1> HIDE DEF new
<1>8. CASE QUEUE_STATUS(c)
  <2>1. /\ queue' = [queue EXCEPT ![c][Slot(w)] = new] /\ wr' = [wr EXCEPT ![c] = @ + 1]
        /\ HAS_QUEUE_SPACE(c) /\ UNCHANGED overflowed
    BY <1>8 DEF QUEUE_STATUS, new
  <2>2. queue'[c] = [q EXCEPT ![Slot(w)] = new] /\ wr'[c] = w + 1 BY <1>1, <2>1
  <2>3. \A b \in Channels \ {c} : queue'[b] = queue[b] /\ wr'[b] = wr[b] BY <1>1, <2>1
  <2>4. w - r < QUEUE_SIZE - 1 BY <1>0, <2>1 DEF HAS_QUEUE_SPACE
  <2>5. queue'[c][Slot(r - 1)] = q[Slot(r - 1)]
    <3>1. r - 1 \in Int /\ r - 1 < w /\ w - (r - 1) < QUEUE_SIZE BY <1>0, <2>4
    <3>2. Slot(w) # Slot(r - 1) /\ Slot(r - 1) \in Slots BY <1>0, <3>1, SlotsDiffer, SlotType
    <3> QED BY <1>0, <2>2, <3>2
  <2>6. ASSUME Lists(u, q, r, w)
        PROVE  Lists(IF Changes(c) THEN Append(u, new) ELSE u, queue'[c], r, wr'[c])
    <3>1. Lists(u, q, r, w) BY <2>6
    <3> HIDE DEF q, u, r, w
    <3>2. Lists(IF new.press # q[Slot(w - 1)].press THEN Append(u, new) ELSE u,
                [q EXCEPT ![Slot(w)] = new], r, w + 1)
      BY <1>0, <1>2, <2>4, <3>1, ListsQueued
    <3>3. Changes(c) <=> new.press # q[Slot(w - 1)].press BY <1>2, <1>3
    <3> QED BY <2>2, <3>2, <3>3
  <2> QED BY <1>1, <1>7, <2>1, <2>3, <2>5, <2>6
<1>9. CASE REPLACE_STATUS(c)
  <2>1. /\ queue' = [queue EXCEPT ![c][Slot(w - 1)] = new] /\ UNCHANGED wr
        /\ overflowed' = [overflowed EXCEPT ![c] = @ \/ NeedsOwnEntry(c)]
        /\ HAS_QUEUED_DATA(c)
    BY <1>9, ReplacesUnread DEF REPLACE_STATUS, new
  <2>2. queue'[c] = [q EXCEPT ![Slot(w - 1)] = new] /\ \A b \in Channels \ {c} : queue'[b] = queue[b]
    BY <1>1, <2>1
  <2>3. NeedsOwnEntry(c) \in BOOLEAN BY DEF NeedsOwnEntry, HAS_QUEUED_DATA
  <2>4. /\ overflowed' \in [Channels -> BOOLEAN] /\ (~overflowed'[c] => ~overflowed[c] /\ ~NeedsOwnEntry(c))
        /\ \A b \in Channels \ {c} : overflowed'[b] = overflowed[b]
    BY <1>1, <2>1, <2>3
  <2>5. r < w BY <2>1 DEF HAS_QUEUED_DATA
  <2>6. queue'[c][Slot(r - 1)] = q[Slot(r - 1)]
    <3>1. r - 1 \in Int /\ w - 1 \in Int /\ r - 1 < w - 1 /\ (w - 1) - (r - 1) < QUEUE_SIZE BY <1>0, <2>5
    <3>2. Slot(w - 1) # Slot(r - 1) /\ Slot(r - 1) \in Slots BY <3>1, SlotsDiffer, SlotType
    <3> QED BY <1>0, <2>2, <3>2
  <2>7. ASSUME ~overflowed'[c], Lists(u, q, r, w)
        PROVE  Lists(IF Changes(c) THEN Append(u, new) ELSE u, queue'[c], r, wr'[c])
    <3>1. new.press = q[Slot(w - 1)].press /\ q[Slot(w - 1)].press = q[Slot(w - 2)].press
      BY <1>3, <2>4, <2>7 DEF NeedsOwnEntry, new
    <3>2. ~Changes(c) BY <1>2, <1>3, <3>1
    <3>3. w - r < QUEUE_SIZE BY <1>0
    <3>4. Lists(u, q, r, w) BY <2>7
    <3>5. wr'[c] = w BY <2>1
    <3> HIDE DEF q, u, r, w
    <3>6. Lists(u, [q EXCEPT ![Slot(w - 1)] = new], r, w)
      BY <1>0, <1>2, <2>5, <3>1, <3>3, <3>4, ListsReplaced
    <3> QED BY <2>2, <3>2, <3>5, <3>6
  <2> QED BY <1>7, <2>1, <2>2, <2>4, <2>6, <2>7
<1>10. CASE new = GET_LAST_STATUS(c) /\ UNCHANGED <<queue, wr, overflowed>>
  <2>1. ~Changes(c) BY <1>2, <1>10
  <2> QED BY <1>1, <1>7, <1>10, <2>1
<1> QED BY <1>8, <1>9, <1>10 DEF rotary_interrupt, new

\* The task takes a change off the list when it takes its status.
LEMMA TakeConserves == ASSUME IInv, ConservedInv, TakeEvent PROVE ConservedInv'
<1> DEFINE q == queue[at]
           u == undelivered[at]
           r == rd[at]
           w == wr[at]
<1>0. /\ at \in Channels /\ r < w
      /\ rd' = [rd EXCEPT ![at] = @ + 1] /\ lastpos' = [lastpos EXCEPT ![at] = q[Slot(r)]]
      /\ undelivered' = [undelivered EXCEPT ![at] =
                           IF @ # <<>> /\ q[Slot(r)].press # lastpos[at].press THEN Tail(@) ELSE @]
      /\ UNCHANGED <<open, queue, wr, overflowed>>
  BY DEF TakeEvent, Event, HAS_QUEUED_DATA
<1>1. /\ queue \in [Channels -> [Slots -> Status]] /\ wr \in [Channels -> Nat] /\ rd \in [Channels -> Nat]
      /\ lastpos \in [Channels -> Status]
      /\ undelivered \in [Channels -> Seq(Status)] /\ overflowed \in [Channels -> BOOLEAN]
  BY DEF IInv, TypeOK, RingTypes, ConservedInv
<1>2. r \in Nat /\ w \in Nat /\ u \in Seq(Status) /\ q \in [Slots -> Status] BY <1>0, <1>1
<1>3. lastpos[at] = q[Slot(r - 1)] BY <1>0 DEF ConservedInv
<1>4. /\ rd'[at] = r + 1 /\ lastpos'[at] = q[Slot(r)]
      /\ undelivered'[at] = IF u # <<>> /\ q[Slot(r)].press # q[Slot(r - 1)].press THEN Tail(u) ELSE u
  BY <1>0, <1>1, <1>3
<1>5. \A b \in Channels \ {at} :
        rd'[b] = rd[b] /\ lastpos'[b] = lastpos[b] /\ undelivered'[b] = undelivered[b]
  BY <1>0, <1>1
<1>6. undelivered' \in [Channels -> Seq(Status)]
  <2>1. u # <<>> => Tail(u) \in Seq(Status) BY <1>2
  <2> QED BY <1>0, <1>1, <2>1
<1>7. ASSUME NEW b \in Channels PROVE queue'[b][Slot(rd'[b] - 1)] = lastpos'[b]
  <2>1. CASE b = at
    <3>1. rd'[at] - 1 = r BY <1>2, <1>4
    <3> QED BY <1>0, <1>4, <2>1, <3>1
  <2>2. CASE b # at
    <3>1. queue[b][Slot(rd[b] - 1)] = lastpos[b] BY DEF ConservedInv
    <3> QED BY <1>0, <1>5, <2>2, <3>1
  <2> QED BY <2>1, <2>2
<1>8. ASSUME NEW b \in Channels, open'[b], ~overflowed'[b]
      PROVE  Lists(undelivered'[b], queue'[b], rd'[b], wr'[b])
  <2>1. Lists(undelivered[b], queue[b], rd[b], wr[b]) BY <1>0, <1>8 DEF ConservedInv
  <2>2. CASE b # at BY <1>0, <1>5, <2>1, <2>2
  <2>3. CASE b = at
    <3>1. Lists(u, q, r, w) BY <2>1, <2>3
    <3>2. Lists(IF u # <<>> /\ q[Slot(r)].press # q[Slot(r - 1)].press THEN Tail(u) ELSE u, q, r + 1, w)
      BY <1>0, <1>2, <3>1, ListsTaken
    <3> QED BY <1>0, <1>4, <2>3, <3>2
  <2> QED BY <2>2, <2>3
<1> QED BY <1>0, <1>1, <1>6, <1>7, <1>8 DEF ConservedInv

\* A channel that is set up or closed has an empty list.
LEMMA ConfigureConserves ==
  ASSUME IInv, ConservedInv, NEW c \in Channels, Cleared(c),
         \A b \in Channels \ {c} : open'[b] = open[b]
  PROVE  ConservedInv'
<1>0. /\ queue \in [Channels -> [Slots -> Status]] /\ wr \in [Channels -> Nat] /\ rd \in [Channels -> Nat]
      /\ lastpos \in [Channels -> Status]
      /\ undelivered \in [Channels -> Seq(Status)] /\ overflowed \in [Channels -> BOOLEAN]
  BY DEF IInv, TypeOK, RingTypes, ConservedInv
<1> DEFINE empty == [s \in Slots |-> Zero]
<1>1. /\ queue' = [queue EXCEPT ![c] = empty] /\ rd' = [rd EXCEPT ![c] = 0] /\ wr' = [wr EXCEPT ![c] = 0]
      /\ lastpos' = [lastpos EXCEPT ![c] = Zero]
      /\ overflowed' = [overflowed EXCEPT ![c] = FALSE]
      /\ undelivered' = [undelivered EXCEPT ![c] = <<>>]
  BY DEF Cleared
<1>2. empty[Slot(0 - 1)] = Zero
  <2>1. Slot(0 - 1) \in Slots BY SlotType
  <2> QED BY <2>1
<1> HIDE DEF empty
<1>3. /\ queue'[c] = empty /\ rd'[c] = 0 /\ wr'[c] = 0 /\ lastpos'[c] = Zero /\ undelivered'[c] = <<>>
      /\ \A b \in Channels \ {c} :
           /\ queue'[b] = queue[b] /\ rd'[b] = rd[b] /\ wr'[b] = wr[b] /\ lastpos'[b] = lastpos[b]
           /\ undelivered'[b] = undelivered[b] /\ overflowed'[b] = overflowed[b]
  BY <1>0, <1>1
<1>4. undelivered' \in [Channels -> Seq(Status)] /\ overflowed' \in [Channels -> BOOLEAN]
  <2>1. <<>> \in Seq(Status) OBVIOUS
  <2> QED BY <1>0, <1>1, <2>1
<1>5. Lists(<<>>, empty, 0, 0)
  <2>1. Marks(empty, 0, 0) = {} BY DEF Marks
  <2>2. Len(<<>>) = 0 /\ 1..0 = {} OBVIOUS
  <2>3. IsList([i \in {} |-> 0], <<>>, empty, 0, 0) BY <2>1, <2>2 DEF IsList
  <2> QED BY <2>3 DEF Lists
<1>6. ASSUME NEW b \in Channels
      PROVE  /\ queue'[b][Slot(rd'[b] - 1)] = lastpos'[b]
             /\ open'[b] /\ ~overflowed'[b] => Lists(undelivered'[b], queue'[b], rd'[b], wr'[b])
  <2>1. CASE b = c BY <1>2, <1>3, <1>5, <2>1
  <2>2. CASE b # c BY <1>3, <2>2 DEF ConservedInv
  <2> QED BY <2>1, <2>2
<1> QED BY <1>4, <1>6 DEF ConservedInv

\* Every step keeps the list.
LEMMA StepConserves == ASSUME IInv, ConservedInv, [Next]_vars PROVE ConservedInv'
<1>1. ASSUME UNCHANGED <<open, queue, rd, wr, lastpos, overflowed, undelivered>> PROVE ConservedInv'
  BY <1>1 DEF ConservedInv
<1>2. ASSUME NEW c \in Channels,
             \/ rotary_close(c)
             \/ \E ph \in Phases, pr \in BOOLEAN : rotary_setup(c, ph, pr)
      PROVE  ConservedInv'
  <2>1. Cleared(c) BY <1>2 DEF rotary_setup, rotary_close
  <2>2. \A b \in Channels \ {c} : open'[b] = open[b]
    BY <1>2 DEF rotary_setup, rotary_close, IInv, TypeOK, FlagTypes
  <2> QED BY <2>1, <2>2, ConfigureConserves
<1>3. ASSUME NEW c \in Channels, Turn(c, 1) \/ Turn(c, -1) \/ Push(c) \/ DebounceEnds(c)
      PROVE  ConservedInv'
  BY <1>1, <1>3 DEF Turn, Push, DebounceEnds, driver, history
<1>4. CASE TaskStart \/ TaskStartAgain \/ NoEvent \/ LookForMore \/ TaskEnd \/ OtherPosted \/ OtherTask
  BY <1>1, <1>4 DEF TaskStart, TaskStartAgain, NoEvent, LookForMore, TaskEnd, OtherPosted, OtherTask,
     driver, history
<1>5. CASE UNCHANGED vars BY <1>1, <1>5 DEF vars, driver, history
<1> QED BY <1>2, <1>3, <1>4, <1>5, InterruptConserves, TakeConserves DEF Next

\* Every press and every release of a switch is delivered, in order and with
\* its position, as long as the ring of rotary_interrupt() has not been full.
THEOREM PressesAlwaysConserved == Spec => []PressesConserved
<1>1. Init => ConservedInv
  <2> SUFFICES ASSUME Init PROVE ConservedInv OBVIOUS
  <2>1. <<>> \in Seq(Status) OBVIOUS
  <2>2. Slot(0 - 1) \in Slots BY SlotType
  <2> QED BY <2>1, <2>2 DEF Init, ConservedInv
<1>2. IInv /\ ConservedInv /\ [Next]_vars => ConservedInv' BY StepConserves
<1> QED BY <1>1, <1>2, ListsConserved, AlwaysIInv, PTL DEF Spec

(***************************************************************************)
(* Clicks, double clicks and long presses: the gestures of one switch that *)
(* module RotaryClick describes, for any delays, any number of events and  *)
(* any delay of task and timer.                                            *)
(***************************************************************************)

Change == [press : BOOLEAN, time : Nat]
Data == [press : BOOLEAN, was_press : BOOLEAN, was_release : BOOLEAN, dbl : BOOLEAN,
         running : BOOLEAN, last_event_time : Nat]
Counts == [release : Nat, click : Nat, dblclick : Nat, tied : Nat]

ClickTypes ==
  /\ now \in Nat /\ opened \in BOOLEAN /\ undefined \in BOOLEAN
  /\ d \in Data /\ deadline \in Int /\ down \in BOOLEAN
  /\ events \in Seq(Change) /\ \A i \in 1..Len(events) : events[i].time <= now
  /\ past \in Seq(Change) /\ count \in Counts

\* What is waited for agrees with the switch: a long press is down, a release up,
\* and a double click is on its second press.
Agrees(m) == /\ m.was_press => m.press
             /\ m.was_release => ~m.press
             /\ m.dbl => m.press

\* The history s ends in the change that m remembers; a double click is the third.
Remembers(m, s) ==
  /\ Len(s) <= 3
  /\ m.press \/ m.was_release => Len(s) >= 1
  /\ Len(s) >= 1 => s[Len(s)].press = m.press /\ s[Len(s)].time = m.last_event_time
  /\ m.dbl => /\ Len(s) >= 2 /\ ~s[Len(s) - 1].press
              /\ s[Len(s)].time - s[Len(s) - 1].time < Click

\* The releases that n counts, with the ones m still holds.
Balanced(m, n) == n.release = n.click + 2 * n.dblclick + n.tied
                                + (IF m.was_release THEN 1 ELSE 0)
                                + (IF m.dbl THEN 1 ELSE 0)

\* A LONGPRESS is late enough after the press that was delivered, or the release
\* delivered with it is.
LongSeen ==
  "LONGPRESS" \in calls =>
    /\ Len(past) >= 1
    /\ IF LastChange.press THEN now - LastChange.time > Long
       ELSE LastChange.time - past[Len(past) - 1].time > Long

ClickInv ==
  /\ ClickTypes
  /\ Agrees(d) /\ Remembers(d, past) /\ Balanced(d, count)
  /\ TimerOnTime /\ DblClickIsDouble /\ LongSeen

\* lrotary_check_timer() keeps what DATA says, and counts the click it ends.
LEMMA CheckKeeps ==
  ASSUME NEW m \in Data, NEW t \in Nat, NEW s \in Seq(Change), NEW n \in Counts,
         Agrees(m), Remembers(m, s), Balanced(m, n)
  PROVE  LET c == Checked(m, t)
             k == Counted(n, Gestures(m, t))
         IN  /\ c \in Data /\ k \in Counts
             /\ Agrees(c) /\ Remembers(c, s) /\ Balanced(c, k)
             /\ c.press = m.press /\ c.dbl = m.dbl /\ c.last_event_time = m.last_event_time
             /\ c.was_release = (m.was_release /\ ~ClickDue(m, t))
             /\ k.release = n.release /\ k.dblclick = n.dblclick /\ k.tied = n.tied
<1> DEFINE c == Checked(m, t)
           k == Counted(n, Gestures(m, t))
<1>1. /\ c \in Data
      /\ c.press = m.press /\ c.dbl = m.dbl /\ c.last_event_time = m.last_event_time
      /\ c.was_release = (m.was_release /\ ~ClickDue(m, t))
      /\ c.was_press = (m.was_press /\ ~LongDue(m, t))
  BY DEF Data, Checked
<1>2. /\ ("CLICK" \in Gestures(m, t)) = ClickDue(m, t)
      /\ "DBLCLICK" \notin Gestures(m, t)
  BY DEF Gestures, ClickDue
<1>3. /\ k \in Counts /\ k.release = n.release /\ k.dblclick = n.dblclick /\ k.tied = n.tied
      /\ k.click = IF ClickDue(m, t) THEN n.click + 1 ELSE n.click
  <2> DEFINE g == Gestures(m, t)
  <2>1. "DBLCLICK" \notin g BY <1>2
  <2>2. CASE ClickDue(m, t)
    <3>1. "CLICK" \in g BY <1>2, <2>2
    <3> HIDE DEF g
    <3>2. k = [n EXCEPT !.click = n.click + 1, !.dblclick = n.dblclick]
      BY <2>1, <3>1 DEF Counted, Counts, g
    <3> HIDE DEF k
    <3>3. n.click + 1 \in Nat BY DEF Counts
    <3> QED BY <2>2, <3>2, <3>3 DEF Counts
  <2>3. CASE ~ClickDue(m, t)
    <3>1. "CLICK" \notin g BY <1>2, <2>3
    <3> HIDE DEF g
    <3>2. k = [n EXCEPT !.click = n.click, !.dblclick = n.dblclick]
      BY <2>1, <3>1 DEF Counted, Counts, g
    <3> QED BY <2>3, <3>2 DEF Counts
  <2> QED BY <2>2, <2>3
<1> HIDE DEF c, k
<1>4. Agrees(c) BY <1>1 DEF Agrees
<1>5. Remembers(c, s) BY <1>1 DEF Remembers
<1>6. Balanced(c, k)
  <2>1. CASE ClickDue(m, t)
    <3>1. m.was_release /\ ~c.was_release BY <1>1, <2>1 DEF ClickDue
    <3> QED BY <1>1, <1>3, <2>1, <3>1 DEF Balanced, Counts
  <2>2. CASE ~ClickDue(m, t)
    BY <1>1, <1>3, <2>2 DEF Balanced, Counts
  <2> QED BY <2>1, <2>2
<1> QED BY <1>1, <1>3, <1>4, <1>5, <1>6 DEF c, k

\* The lengths of a history.
LEMMA ThreeOrLess == \A l \in Nat : l <= 3 => (l <= 2 \/ l = 3) /\ (l >= 2 => l >= 1 /\ (l = 2 \/ l = 3))
OBVIOUS

\* An appended change is the last one, of at most three.
LEMMA LastThreeEnds ==
  ASSUME NEW s \in Seq(Change), Len(s) <= 3, NEW e \in Change
  PROVE  LET r == LastThree(Append(s, e))
         IN  /\ r \in Seq(Change) /\ Len(r) = (IF Len(s) = 3 THEN 3 ELSE Len(s) + 1)
             /\ r[Len(r)] = e
             /\ Len(s) >= 1 => r[Len(r) - 1] = s[Len(s)]
             /\ Len(s) >= 2 => r[Len(r) - 2] = s[Len(s) - 1]
<1> DEFINE a == Append(s, e)
           r == LastThree(a)
<1>1. /\ a \in Seq(Change) /\ Len(a) = Len(s) + 1 /\ a[Len(a)] = e
      /\ \A i \in 1..Len(s) : a[i] = s[i]
  OBVIOUS
<1>2. Len(s) \in Nat OBVIOUS
<1> HIDE DEF a
<1>3. CASE Len(s) <= 2
  <2>1. r = a BY <1>1, <1>2, <1>3 DEF LastThree
  <2> HIDE DEF r
  <2>2. /\ Len(s) >= 1 => a[Len(a) - 1] = s[Len(s)]
        /\ Len(s) >= 2 => a[Len(a) - 2] = s[Len(s) - 1]
    BY <1>1, <1>2
  <2> QED BY <1>1, <1>2, <1>3, <2>1, <2>2 DEF r, a
<1>4. CASE Len(s) = 3
  <2>1. r = SubSeq(a, 2, 4) BY <1>1, <1>4 DEF LastThree
  <2>2. Len(a) = 4 BY <1>1, <1>4
  <2>3. /\ SubSeq(a, 2, 4) \in Seq(Change) /\ Len(SubSeq(a, 2, 4)) = 3
        /\ SubSeq(a, 2, 4)[1] = a[2] /\ SubSeq(a, 2, 4)[2] = a[3] /\ SubSeq(a, 2, 4)[3] = a[4]
    <3>1. SubSeq(a, 2, 4) = [i \in 1..3 |-> a[i + 1]]
      BY <1>1, <2>2
    <3>2. \A i \in 1..Len(a) : a[i] \in Change
      BY <1>1, ElementOfSeq
    <3>3. a[2] \in Change /\ a[3] \in Change /\ a[4] \in Change
      BY <2>2, <3>2
    <3> QED BY <3>1, <3>3
  <2>4. a[2] = s[2] /\ a[3] = s[3] /\ a[4] = e BY <1>1, <1>4
  <2> HIDE DEF r
  <2>5. Len(r) = 3 /\ r[3] = e /\ r[2] = s[3] /\ r[1] = s[2] /\ r \in Seq(Change)
    BY <2>1, <2>3, <2>4
  <2>6. r[Len(r)] = e /\ r[Len(r) - 1] = s[Len(s)] /\ r[Len(r) - 2] = s[Len(s) - 1]
    BY <1>4, <2>5
  <2>7. Len(r) = (IF Len(s) = 3 THEN 3 ELSE Len(s) + 1) BY <1>4, <2>5
  <2>8. r \in Seq(Change) BY <2>5
  <2> QED BY <2>6, <2>7, <2>8 DEF r, a
<1>5. Len(s) <= 2 \/ Len(s) = 3 BY <1>2, ThreeOrLess
<1> QED BY <1>3, <1>4, <1>5, Zenon

\* lrotary_dequeue_single() keeps what DATA says when it applies an event.
LEMMA ApplyKeeps ==
  ASSUME NEW m \in Data, NEW e \in Change, NEW s \in Seq(Change),
         Agrees(m), Remembers(m, s)
  PROVE  LET n == Applied(m, e)
             r == IF e.press # m.press THEN LastThree(Append(s, e)) ELSE s
         IN  n \in Data /\ Agrees(n) /\ r \in Seq(Change) /\ Remembers(n, r)
<1> DEFINE n == Applied(m, e)
<1>0. /\ m.press \in BOOLEAN /\ m.was_release \in BOOLEAN /\ m.dbl \in BOOLEAN /\ m.last_event_time \in Nat
      /\ e.press \in BOOLEAN /\ e.time \in Nat /\ Len(s) \in Nat /\ Len(s) <= 3
  BY DEF Data, Change, Remembers
<1>1. CASE e.press = m.press
  <2>1. n = m BY <1>1 DEF Applied
  <2> QED BY <1>1, <2>1
<1>2. CASE e.press # m.press
  <2> PICK r \in Seq(Change) : r = LastThree(Append(s, e))
    BY <1>0, LastThreeEnds
  <2>1. /\ Len(r) = (IF Len(s) = 3 THEN 3 ELSE Len(s) + 1) /\ r[Len(r)] = e
        /\ Len(s) >= 1 => r[Len(r) - 1] = s[Len(s)]
    BY <1>0, LastThreeEnds
  <2>2. Len(r) \in Nat /\ Len(r) >= 1 /\ Len(r) <= 3 /\ (Len(s) >= 1 => Len(r) >= 2)
    <3>1. Len(r) \in Nat OBVIOUS
    <3>2. CASE Len(s) = 3
      <4>1. Len(r) = 3 BY <2>1, <3>2
      <4> QED BY <4>1
    <3>3. CASE Len(s) # 3
      <4>1. Len(r) = Len(s) + 1 BY <2>1, <3>3
      <4>2. Len(s) \in Nat /\ Len(s) <= 3 BY <1>0
      <4>3. Len(s) <= 2 BY <3>3, <4>2, ThreeOrLess
      <4> QED BY ONLY <4>1, <4>2, <4>3, SMT
    <3> QED BY <3>2, <3>3
  <2>3. CASE e.press
    <3>1. n = Pressed(m, e.time) /\ ~m.press BY <1>0, <1>2, <2>3 DEF Applied
    <3>2. ~m.dbl BY <3>1 DEF Agrees
    <3>3. IsDouble(m, e.time) \in BOOLEAN BY <1>0 DEF IsDouble
    <3>4. /\ n \in Data /\ n.press /\ n.was_press /\ ~n.was_release /\ n.last_event_time = e.time
          /\ n.dbl = IsDouble(m, e.time)
      <4>1. (m.dbl \/ IsDouble(m, e.time)) = IsDouble(m, e.time)
        BY <3>2, <3>3, Zenon
      <4>2. n = [m EXCEPT !.press = TRUE, !.was_press = TRUE, !.was_release = FALSE,
                          !.dbl = IsDouble(m, e.time), !.last_event_time = e.time]
        BY <3>1, <4>1 DEF Pressed, Data
      <4> HIDE DEF n
      <4> QED BY <1>0, <3>3, <4>2 DEF Data
    <3> HIDE DEF n
    <3>5. Agrees(n) BY <3>4 DEF Agrees
    <3>6. ASSUME n.dbl
          PROVE  Len(r) >= 2 /\ ~r[Len(r) - 1].press /\ r[Len(r)].time - r[Len(r) - 1].time < Click
      <4>1. m.was_release /\ e.time - m.last_event_time < Click BY <3>4, <3>6 DEF IsDouble
      <4>2. Len(s) >= 1 /\ s[Len(s)].press = m.press /\ s[Len(s)].time = m.last_event_time
        BY <4>1 DEF Remembers
      <4> QED BY <2>1, <2>2, <3>1, <4>1, <4>2
    <3>7. Remembers(n, r) BY <2>1, <2>2, <2>3, <3>4, <3>6 DEF Remembers
    <3> QED BY <1>2, <3>4, <3>5, <3>7 DEF n
  <2>4. CASE ~e.press
    <3>1. n = Released(m, e.time) BY <1>2, <2>4 DEF Applied
    <3>2. n \in Data /\ ~n.press /\ n.press = e.press /\ ~n.was_press /\ ~n.dbl /\ n.last_event_time = e.time
      BY <1>0, <2>4, <3>1 DEF Released, Data
    <3> HIDE DEF n
    <3>3. Agrees(n) BY <3>2 DEF Agrees
    <3>4. Remembers(n, r) BY <2>1, <2>2, <2>4, <3>2 DEF Remembers
    <3> QED BY <1>2, <3>2, <3>3, <3>4 DEF n
  <2> QED BY <2>3, <2>4
<1> QED BY <1>1, <1>2

\* Dividing by a millisecond and one more ends within the next millisecond.
LEMMA RoundsUp ==
  ASSUME NEW x \in Int
  PROVE  /\ x \div Ms \in Int /\ Ms * (x \div Ms + 1) \in Int
         /\ Ms * (x \div Ms + 1) > x /\ Ms * (x \div Ms + 1) <= x + Ms
<1>1. Ms \in Nat /\ Ms > 0 BY ClickAssumption
<1>2. x = Ms * (x \div Ms) + (x % Ms) /\ x \div Ms \in Int /\ x % Ms \in 0..(Ms - 1)
  BY <1>1
<1> PICK q \in Int : q = x \div Ms BY <1>2
<1> PICK r \in 0..(Ms - 1) : r = (x % Ms) BY <1>2
<1>3. Ms * (q + 1) = Ms * q + Ms /\ Ms * q \in Int BY <1>1
<1> PICK z \in Int : z = Ms * q BY <1>3
<1>4. x = z + r BY <1>2
<1>5. Ms * (q + 1) = z + Ms BY <1>3
<1>6. z + Ms > x /\ z + Ms <= x + Ms /\ z + Ms \in Int BY <1>1, <1>4
<1> QED BY <1>5, <1>6

\* The last check of task and timer: the timer is armed for what is waited for.
LEMMA ArmKeeps ==
  ASSUME ClickTypes, NEW m \in Data, NEW s \in Seq(Change), NEW n \in Counts,
         Agrees(m), Remembers(m, s), Balanced(m, n), CheckAndArm(m)
  PROVE  LET k == Counted(n, Gestures(m, now))
         IN  /\ d' \in Data /\ deadline' \in Int /\ k \in Counts
             /\ Agrees(d') /\ Remembers(d', s) /\ Balanced(d', k)
             /\ TimerOnTime'
<1> DEFINE c == Checked(m, now)
           k == Counted(n, Gestures(m, now))
<1>0. now \in Nat /\ deadline \in Int BY DEF ClickTypes
<1>1. /\ c \in Data /\ k \in Counts /\ Agrees(c) /\ Remembers(c, s) /\ Balanced(c, k)
  BY <1>0, CheckKeeps
<1>2. /\ d' = [c EXCEPT !.running = Waiting(c)]
      /\ deadline' = IF Waiting(c) THEN now + Ms * Timeout(c)
                     ELSE IF m.running THEN None ELSE deadline
  BY DEF CheckAndArm
<1> HIDE DEF c, k
<1>3. Waiting(c) \in BOOLEAN BY <1>1 DEF Waiting, Data
<1>4. /\ d' \in Data /\ d'.press = c.press /\ d'.was_press = c.was_press /\ d'.was_release = c.was_release
      /\ d'.dbl = c.dbl /\ d'.last_event_time = c.last_event_time
  BY <1>1, <1>2, <1>3 DEF Data
<1>5. Agrees(d') /\ Remembers(d', s) /\ Balanced(d', k)
  BY <1>1, <1>4 DEF Agrees, Remembers, Balanced
<1>6. Waiting(d') = Waiting(c) /\ Delay(d') = Delay(c)
  BY <1>4 DEF Waiting, Delay
<1>7. CASE Waiting(c)
  <2>1. Delay(c) \in Nat BY ClickAssumption DEF Delay
  <2>2. c.last_event_time \in Nat BY <1>1 DEF Data
  <2> PICK w \in Nat : w = Delay(c) BY <2>1
  <2> PICK l \in Nat : l = c.last_event_time BY <2>2
  <2>a. PICK v \in Nat : v = now BY <1>0
  <2>b. PICK x \in Int : x = w - (v - l) OBVIOUS
  <2>3. Timeout(c) = x \div Ms + 1 BY <2>a, <2>b DEF Timeout
  <2> PICK y \in Int : y = Ms * (x \div Ms + 1) BY RoundsUp
  <2>4. y > x /\ y <= x + Ms BY RoundsUp
  <2>5. deadline' = now + y BY <1>2, <1>7, <2>3
  <2>6. Ms \in Nat BY ClickAssumption
  <2>7. /\ deadline' \in Int /\ deadline' > c.last_event_time + Delay(c)
        /\ deadline' <= c.last_event_time + Delay(c) + Ms
    <3>1. v + y \in Int /\ v + y > l + w /\ v + y <= l + w + Ms BY ONLY <2>b, <2>4, <2>6, SMT
    <3> QED BY <2>a, <2>5, <3>1
  <2>8. TimerOnTime' BY <1>4, <1>6, <2>7 DEF TimerOnTime
  <2> QED BY <1>1, <1>4, <1>5, <2>7, <2>8 DEF k
<1>8. CASE ~Waiting(c)
  <2>1. deadline' \in Int BY <1>0, <1>2, <1>8 DEF None
  <2>2. TimerOnTime' BY <1>6, <1>8 DEF TimerOnTime
  <2> QED BY <1>1, <1>4, <1>5, <2>1, <2>2 DEF k
<1> QED BY <1>7, <1>8

\* The releases that k counts after the event e of a switch in state m.
Delivered(m, e, k) ==
  [k EXCEPT !.release = IF e.press # m.press /\ ~e.press THEN @ + 1 ELSE @,
            !.dblclick = IF e.press # m.press /\ ~e.press /\ m.dbl THEN @ + 1 ELSE @,
            !.tied = IF e.press # m.press /\ e.press /\ m.was_release /\ ~IsDouble(m, e.time)
                     THEN @ + 1 ELSE @]

\* A release is held by DATA, ends a double click with the one before it, or both
\* are taken along by the next press.
LEMMA ApplyBalances ==
  ASSUME NEW m \in Data, NEW e \in Change, NEW k \in Counts, Agrees(m), Balanced(m, k)
  PROVE  /\ Delivered(m, e, k) \in Counts
         /\ Balanced(Applied(m, e), Delivered(m, e, k))
<1> DEFINE n == Applied(m, e)
           dk == Delivered(m, e, k)
<1>0. /\ m.press \in BOOLEAN /\ m.was_release \in BOOLEAN /\ m.dbl \in BOOLEAN
      /\ e.press \in BOOLEAN
  BY DEF Data, Change
<1>1. k.release \in Nat /\ k.click \in Nat /\ k.dblclick \in Nat /\ k.tied \in Nat BY DEF Counts
<1>2. CASE e.press = m.press
  <2>1. n = m /\ dk = k BY <1>2 DEF Applied, Delivered, Counts
  <2> QED BY <2>1
<1>3. CASE e.press # m.press /\ e.press
  <2>1. ~m.press /\ ~m.dbl BY <1>0, <1>3 DEF Agrees
  <2>2. n = Pressed(m, e.time) BY <1>3 DEF Applied
  <2>3. CASE m.was_release /\ ~IsDouble(m, e.time)
    <3>1. dk = [k EXCEPT !.tied = k.tied + 1] BY <1>3, <2>3 DEF Delivered, Counts
    <3>2. ~n.was_release /\ ~n.dbl BY <2>1, <2>2, <2>3 DEF Pressed, Data
    <3> HIDE DEF n, dk
    <3>3. k.tied + 1 \in Nat BY <1>1
    <3>4. dk \in Counts BY <3>1, <3>3 DEF Counts
    <3>5. dk.release = k.release /\ dk.click = k.click /\ dk.dblclick = k.dblclick /\ dk.tied = k.tied + 1
      BY <3>1 DEF Counts
    <3>6. k.release = k.click + 2 * k.dblclick + k.tied + 1 BY <1>1, <2>1, <2>3 DEF Balanced
    <3>7. Balanced(n, dk) BY <1>1, <3>2, <3>5, <3>6 DEF Balanced
    <3> QED BY <3>4, <3>7 DEF n, dk
  <2>4. CASE ~(m.was_release /\ ~IsDouble(m, e.time))
    <3>1. dk = k BY <1>3, <2>4 DEF Delivered, Counts
    <3>2. ~n.was_release /\ (n.dbl <=> m.was_release)
      <4>1. ~n.was_release /\ n.dbl = (m.dbl \/ IsDouble(m, e.time))
        BY <2>2 DEF Pressed, Data
      <4>2. IsDouble(m, e.time) => m.was_release BY DEF IsDouble
      <4> HIDE DEF n
      <4> QED BY <2>1, <2>4, <4>1, <4>2
    <3> HIDE DEF n, dk
    <3>3. Balanced(n, k) BY <1>1, <2>1, <3>2 DEF Balanced
    <3> QED BY <3>1, <3>3 DEF n, dk
  <2> QED BY <2>3, <2>4
<1>4. CASE e.press # m.press /\ ~e.press
  <2>1. m.press /\ ~m.was_release BY <1>0, <1>4 DEF Agrees
  <2>2. n = Released(m, e.time) BY <1>4 DEF Applied
  <2>3. ~n.dbl /\ n.was_release = ~m.dbl BY <2>2 DEF Released, Data
  <2>4. CASE m.dbl
    <3>1. dk = [k EXCEPT !.release = k.release + 1, !.dblclick = k.dblclick + 1]
      BY <1>4, <2>4 DEF Delivered, Counts
    <3> HIDE DEF n, dk
    <3>2. ~n.was_release BY <2>3, <2>4, Zenon
    <3>3. k.release + 1 \in Nat /\ k.dblclick + 1 \in Nat BY <1>1
    <3>4. dk \in Counts BY <3>1, <3>3 DEF Counts
    <3>5. dk.release = k.release + 1 /\ dk.click = k.click /\ dk.dblclick = k.dblclick + 1 /\ dk.tied = k.tied
      BY <3>1 DEF Counts
    <3>6. k.release = k.click + 2 * k.dblclick + k.tied + 1 BY <1>1, <2>1, <2>4 DEF Balanced
    <3>7. Balanced(n, dk) BY <1>1, <2>3, <3>2, <3>5, <3>6 DEF Balanced
    <3> QED BY <3>4, <3>7 DEF n, dk
  <2>5. CASE ~m.dbl
    <3>1. dk = [k EXCEPT !.release = k.release + 1] BY <1>4, <2>5 DEF Delivered, Counts
    <3> HIDE DEF n, dk
    <3>2. n.was_release BY <2>3, <2>5, Zenon
    <3>3. k.release + 1 \in Nat BY <1>1
    <3>4. dk \in Counts BY <3>1, <3>3 DEF Counts
    <3>5. dk.release = k.release + 1 /\ dk.click = k.click /\ dk.dblclick = k.dblclick /\ dk.tied = k.tied
      BY <3>1 DEF Counts
    <3>6. k.release = k.click + 2 * k.dblclick + k.tied BY <1>1, <2>1, <2>5 DEF Balanced
    <3>7. Balanced(n, dk) BY <1>1, <2>3, <3>2, <3>5, <3>6 DEF Balanced
    <3> QED BY <3>4, <3>7 DEF n, dk
  <2> QED BY <2>4, <2>5
<1> QED BY <1>2, <1>3, <1>4

\* The task: an event after what was due before it, and what is due after it.
LEMMA TaskKeeps ==
  ASSUME ClickInv, dequeue
  PROVE  ClickInv'
<1> DEFINE e == Head(events)
           m == Before(e)
           n == Applied(m, e)
           change == e.press # d.press
           early == Gestures(d, e.time)
           double == IF change /\ ~e.press /\ m.dbl THEN {"DBLCLICK"} ELSE {}
           late == Gestures(n, now)
           k1 == Counted(count, early)
           k2 == Delivered(m, e, k1)
           a == [n EXCEPT !.running = d.running]
<1>0. /\ ClickTypes /\ d \in Data /\ now \in Nat /\ count \in Counts /\ past \in Seq(Change)
      /\ Agrees(d) /\ Remembers(d, past) /\ Balanced(d, count)
  BY DEF ClickInv, ClickTypes
<1>1. /\ events # <<>> /\ events' = Tail(events) /\ CheckAndArm(a)
      /\ calls' = early \cup double \cup late
      /\ past' = IF change THEN LastThree(Append(past, e)) ELSE past
      /\ count' = [Counted(k1, double \cup late) EXCEPT
                     !.release = IF change /\ ~e.press THEN @ + 1 ELSE @,
                     !.tied = IF change /\ e.press /\ m.was_release /\ ~IsDouble(m, e.time)
                              THEN @ + 1 ELSE @]
      /\ now' = now /\ opened' = opened /\ down' = down /\ undefined' = undefined
  BY DEF dequeue
<1>2. /\ e \in Change /\ e.time <= now /\ e.time \in Nat
      /\ events' \in Seq(Change) /\ \A i \in 1..Len(events') : events'[i].time <= now
  <2>1. events \in Seq(Change) /\ \A i \in 1..Len(events) : events[i].time <= now
    BY DEF ClickInv, ClickTypes
  <2>2. Len(events) \in Nat /\ Len(events) >= 1 /\ e = events[1] /\ e \in Change
    BY <1>1, <2>1
  <2>3. /\ Tail(events) \in Seq(Change) /\ Len(Tail(events)) = Len(events) - 1
        /\ \A i \in 1..Len(Tail(events)) : Tail(events)[i] = events[i + 1]
    BY <1>1, <2>1, HeadTailProperties
  <2> HIDE DEF e
  <2>4. \A i \in 1..Len(Tail(events)) : i + 1 \in 1..Len(events)
    BY <2>2, <2>3
  <2> QED BY <1>1, <2>1, <2>2, <2>3, <2>4 DEF Change
<1> HIDE DEF e
<1>3. /\ m \in Data /\ k1 \in Counts /\ Agrees(m) /\ Remembers(m, past) /\ Balanced(m, k1)
      /\ m.press = d.press /\ m.dbl = d.dbl /\ m.last_event_time = d.last_event_time
  BY <1>0, <1>2, CheckKeeps DEF Before
<1> HIDE DEF m, k1
<1>4. n \in Data /\ Agrees(n) /\ past' \in Seq(Change) /\ Remembers(n, past')
  BY <1>0, <1>1, <1>2, <1>3, ApplyKeeps
<1>5. k2 \in Counts /\ Balanced(n, k2) BY <1>2, <1>3, ApplyBalances
<1> HIDE DEF n
<1>6. /\ a \in Data /\ Agrees(a) /\ Remembers(a, past') /\ Balanced(a, k2)
      /\ Gestures(a, now) = late
  <2>1. /\ a \in Data /\ a.press = n.press /\ a.was_press = n.was_press /\ a.was_release = n.was_release
        /\ a.dbl = n.dbl /\ a.last_event_time = n.last_event_time
    BY <1>0, <1>4 DEF Data
  <2> HIDE DEF a, k2
  <2>2. Agrees(a) /\ Remembers(a, past') /\ Balanced(a, k2)
    BY <1>4, <1>5, <2>1 DEF Agrees, Remembers, Balanced
  <2>3. Gestures(a, now) = late
    BY <2>1 DEF Gestures, LongDue, ClickDue
  <2> QED BY <2>1, <2>2, <2>3
<1>7. count' = Counted(k2, late)
  <2>1. "DBLCLICK" \notin late BY DEF Gestures
  <2>2. "CLICK" \notin double OBVIOUS
  <2> HIDE DEF late
  <2> QED BY <1>1, <1>3, <2>1, <2>2 DEF Counted, Delivered, Counts
<1> HIDE DEF a, k2, k1
<1>8. /\ d' \in Data /\ deadline' \in Int /\ count' \in Counts
      /\ Agrees(d') /\ Remembers(d', past') /\ Balanced(d', count') /\ TimerOnTime'
  BY <1>0, <1>1, <1>4, <1>5, <1>6, <1>7, ArmKeeps
<1>9. ClickTypes'
  BY <1>0, <1>1, <1>2, <1>4, <1>8 DEF ClickTypes
<1>10. DblClickIsDouble'
  <2> SUFFICES ASSUME "DBLCLICK" \in calls'
               PROVE  /\ Len(past') = 3
                      /\ ~past'[1].press /\ past'[2].press /\ ~past'[3].press
                      /\ past'[2].time - past'[1].time < Click
    BY DEF DblClickIsDouble
  <2>1. "DBLCLICK" \notin late /\ "DBLCLICK" \notin early BY DEF Gestures
  <2>2. change /\ ~e.press /\ m.dbl BY <1>1, <2>1
  <2>3. d.dbl /\ d.press BY <1>0, <1>3, <2>2 DEF Agrees
  <2>4. /\ Len(past) \in Nat /\ Len(past) <= 3 /\ Len(past) >= 2
        /\ ~past[Len(past) - 1].press
        /\ past[Len(past)].time - past[Len(past) - 1].time < Click
    BY <1>0, <2>3 DEF Remembers
  <2>8. Len(past) >= 1 /\ (Len(past) = 2 \/ Len(past) = 3) BY <2>4, ThreeOrLess
  <2>9. past[Len(past)].press = d.press BY <1>0, <2>8 DEF Remembers
  <2>5. past' = LastThree(Append(past, e)) BY <1>1, <2>2
  <2>6. /\ Len(past') = (IF Len(past) = 3 THEN 3 ELSE Len(past) + 1)
        /\ past'[Len(past')] = e /\ past'[Len(past') - 1] = past[Len(past)]
        /\ past'[Len(past') - 2] = past[Len(past) - 1]
    BY <1>0, <1>2, <2>4, <2>5, <2>8, LastThreeEnds
  <2>7. Len(past') = 3
    <3>1. CASE Len(past) = 3 BY <2>6, <3>1
    <3>2. CASE Len(past) = 2 BY <2>6, <3>2
    <3> QED BY <2>8, <3>1, <3>2
  <2>10. past'[3] = e /\ past'[2] = past[Len(past)] /\ past'[1] = past[Len(past) - 1]
    <3>1. 3 - 1 = 2 /\ 3 - 2 = 1 OBVIOUS
    <3>2. past'[3] = e /\ past'[3 - 1] = past[Len(past)] /\ past'[3 - 2] = past[Len(past) - 1]
      BY <2>6, <2>7, Zenon
    <3> QED BY <3>1, <3>2, Zenon
  <2> QED BY <2>2, <2>3, <2>4, <2>7, <2>9, <2>10
<1>11. LongSeen'
  <2> SUFFICES ASSUME "LONGPRESS" \in calls'
               PROVE  /\ Len(past') >= 1
                      /\ IF past'[Len(past')].press THEN now - past'[Len(past')].time > Long
                         ELSE past'[Len(past')].time - past'[Len(past') - 1].time > Long
    BY <1>1 DEF LongSeen, LastChange
  <2>1. CASE "LONGPRESS" \in late
    <3>1. n.was_press /\ now - n.last_event_time > Long
      BY <2>1 DEF Gestures, LongDue
    <3>2. n.press BY <1>4, <3>1 DEF Agrees
    <3>3. /\ Len(past') >= 1 /\ past'[Len(past')].press = n.press
          /\ past'[Len(past')].time = n.last_event_time
      BY <1>4, <3>2 DEF Remembers
    <3> QED BY <3>1, <3>2, <3>3
  <2>2. CASE "LONGPRESS" \in early
    <3>1. d.was_press /\ e.time - d.last_event_time > Long
      BY <2>2 DEF Gestures, LongDue
    <3>2. d.press BY <1>0, <3>1 DEF Agrees
    <3>3. Len(past) >= 1 /\ past[Len(past)].press = d.press /\ past[Len(past)].time = d.last_event_time
      BY <1>0, <3>2 DEF Remembers
    <3>4. CASE change
      <4>1. ~e.press BY <1>0, <1>2, <3>2, <3>4 DEF Change, Data
      <4>2. past' = LastThree(Append(past, e)) BY <1>1, <3>4
      <4>3. past'[Len(past')] = e /\ past'[Len(past') - 1] = past[Len(past)]
        BY <1>0, <1>2, <3>3, <4>2, LastThreeEnds DEF Remembers
      <4>4. Len(past') >= 1
        <5>1. /\ Len(past) \in Nat /\ Len(past) <= 3
              /\ Len(past') = (IF Len(past) = 3 THEN 3 ELSE Len(past) + 1)
          BY <1>0, <1>2, <3>3, <4>2, LastThreeEnds DEF Remembers
        <5> QED BY <5>1
      <4> QED BY <3>1, <3>3, <4>1, <4>3, <4>4
    <3>5. CASE ~change
      <4>1. past' = past BY <1>1, <3>5
      <4>2. d.last_event_time \in Nat /\ Long \in Nat BY <1>0, ClickAssumption DEF Data
      <4>3. now - d.last_event_time > Long BY <1>0, <1>2, <3>1, <4>2
      <4> QED BY <3>2, <3>3, <4>1, <4>3
    <3> QED BY <3>4, <3>5
  <2>3. "LONGPRESS" \notin double OBVIOUS
  <2> HIDE DEF late, early, double
  <2> QED BY <1>1, <2>1, <2>2, <2>3
<1> QED BY <1>8, <1>9, <1>10, <1>11 DEF ClickInv

\* The timer, and the task for a channel without an event: what is due now.
LEMMA TimerKeeps ==
  ASSUME ClickInv, lrotary_timer_done \/ dequeue_nothing
  PROVE  ClickInv'
<1> PICK run \in BOOLEAN : CheckAndArm([d EXCEPT !.running = run])
  <2>1. d.running \in BOOLEAN /\ d = [d EXCEPT !.running = d.running]
    BY DEF ClickInv, ClickTypes, Data
  <2>2. CASE lrotary_timer_done BY <2>2 DEF lrotary_timer_done
  <2>3. CASE dequeue_nothing
    <3>1. CheckAndArm(d) BY <2>3 DEF dequeue_nothing
    <3>2. CheckAndArm([d EXCEPT !.running = d.running]) BY <2>1, <3>1
    <3> QED BY <2>1, <3>2
  <2> QED BY <2>2, <2>3
<1> DEFINE a == [d EXCEPT !.running = run]
<1>0. /\ ClickTypes /\ d \in Data /\ now \in Nat /\ count \in Counts /\ past \in Seq(Change)
      /\ Agrees(d) /\ Remembers(d, past) /\ Balanced(d, count)
  BY DEF ClickInv, ClickTypes
<1>1. /\ CheckAndArm(a) /\ calls' = Gestures(d, now)
      /\ count' = Counted(count, Gestures(d, now))
      /\ now' = now /\ opened' = opened /\ events' = events /\ down' = down /\ undefined' = undefined
      /\ past' = past
  BY DEF lrotary_timer_done, dequeue_nothing
<1>2. /\ a \in Data /\ a.press = d.press /\ a.was_press = d.was_press /\ a.was_release = d.was_release
      /\ a.dbl = d.dbl /\ a.last_event_time = d.last_event_time
  BY <1>0 DEF Data
<1> HIDE DEF a
<1>3. Agrees(a) /\ Remembers(a, past) /\ Balanced(a, count)
  BY <1>0, <1>2 DEF Agrees, Remembers, Balanced
<1>4. Gestures(a, now) = Gestures(d, now)
  BY <1>2 DEF Gestures, LongDue, ClickDue
<1>5. /\ d' \in Data /\ deadline' \in Int /\ count' \in Counts
      /\ Agrees(d') /\ Remembers(d', past) /\ Balanced(d', count') /\ TimerOnTime'
  BY <1>0, <1>1, <1>2, <1>3, <1>4, ArmKeeps
<1>6. ClickTypes' BY <1>0, <1>1, <1>5 DEF ClickTypes
<1>7. DblClickIsDouble'
  BY <1>1 DEF DblClickIsDouble, Gestures
<1>8. LongSeen'
  <2> SUFFICES ASSUME "LONGPRESS" \in calls'
               PROVE  Len(past) >= 1 /\ past[Len(past)].press /\ now - past[Len(past)].time > Long
    BY <1>1 DEF LongSeen, LastChange
  <2>1. d.was_press /\ now - d.last_event_time > Long
    BY <1>1 DEF Gestures, LongDue
  <2>2. d.press BY <1>0, <2>1 DEF Agrees
  <2>3. /\ Len(past) >= 1 /\ past[Len(past)].press = d.press
        /\ past[Len(past)].time = d.last_event_time
    BY <1>0, <2>2 DEF Remembers
  <2> QED BY <2>1, <2>2, <2>3
<1> QED BY <1>1, <1>5, <1>6, <1>7, <1>8 DEF ClickInv

\* setup() and close() clear DATA, and the switch only queues an event.
LEMMA OthersKeep ==
  ASSUME ClickInv,
         \/ lrotary_setup \/ lrotary_close \/ FreedTimer \/ Tick
         \/ \E turn \in BOOLEAN : Switch(turn)
         \/ UNCHANGED clickVars
  PROVE  ClickInv'
<1>0. ClickTypes BY DEF ClickInv
<1>1. CASE lrotary_setup \/ lrotary_close
  <2>1. /\ d' = Fresh /\ events' = <<>> /\ down' = FALSE /\ calls' = {} /\ past' = <<>>
        /\ count' = NoCount /\ now' = now
    BY <1>1 DEF lrotary_setup, lrotary_close, Configures
  <2>2. deadline' \in Int /\ opened' \in BOOLEAN /\ undefined' \in BOOLEAN
    <3>0. deadline \in Int /\ now \in Int /\ undefined \in BOOLEAN BY <1>0 DEF ClickTypes
    <3>1. CASE lrotary_setup
      <4>1. /\ opened' = TRUE /\ undefined' = (~opened /\ deadline # None)
            /\ deadline' = IF opened /\ deadline # None THEN now ELSE deadline
        BY <3>1 DEF lrotary_setup
      <4> QED BY <3>0, <4>1
    <3>2. CASE lrotary_close BY <3>0, <3>2 DEF lrotary_close
    <3> QED BY <1>1, <3>1, <3>2
  <2>3. /\ d' \in Data /\ ~d'.press /\ ~d'.was_press /\ ~d'.was_release /\ ~d'.dbl
    BY <2>1 DEF Fresh, Data
  <2>4. count' \in Counts /\ count'.release = 0 /\ count'.click = 0 /\ count'.dblclick = 0 /\ count'.tied = 0
    BY <2>1 DEF NoCount, Counts
  <2>5. <<>> \in Seq(Change) /\ Len(<<>>) = 0 /\ 1..0 = {} OBVIOUS
  <2>6. ClickTypes' BY <1>0, <2>1, <2>2, <2>3, <2>4, <2>5 DEF ClickTypes
  <2>7. Agrees(d') /\ Remembers(d', past') BY <2>1, <2>3, <2>5 DEF Agrees, Remembers
  <2>8. Balanced(d', count') BY <2>3, <2>4 DEF Balanced
  <2>9. TimerOnTime' BY <2>3 DEF TimerOnTime, Waiting
  <2>10. DblClickIsDouble' /\ LongSeen'
    BY <2>1 DEF DblClickIsDouble, LongSeen
  <2> QED BY <2>6, <2>7, <2>8, <2>9, <2>10 DEF ClickInv
<1>2. ASSUME UNCHANGED <<opened, d, deadline, past, count>>, undefined' \in {undefined, TRUE},
             calls' = {} \/ UNCHANGED <<calls, now>>, ClickTypes'
      PROVE  ClickInv'
  <2>1. Agrees(d') /\ Remembers(d', past') /\ Balanced(d', count')
    BY <1>2 DEF ClickInv
  <2>2. TimerOnTime'
    <3>1. CASE undefined' = TRUE BY <3>1 DEF TimerOnTime
    <3>2. CASE undefined' = undefined
      <4>1. TimerOnTime BY DEF ClickInv
      <4> QED BY <1>2, <3>2, <4>1 DEF TimerOnTime
    <3> QED BY <1>2, <3>1, <3>2
  <2>3. DblClickIsDouble' BY <1>2 DEF ClickInv, DblClickIsDouble
  <2>4. LongSeen'
    BY <1>2 DEF ClickInv, LongSeen, LastChange
  <2> QED BY <1>2, <2>1, <2>2, <2>3, <2>4 DEF ClickInv
<1>3. CASE FreedTimer
  <2>1. ClickTypes' BY <1>0, <1>3 DEF FreedTimer, ClickTypes
  <2> QED BY <1>2, <1>3, <2>1 DEF FreedTimer
<1>4. CASE Tick
  <2>1. now' = now + 1 /\ UNCHANGED <<opened, d, deadline, events, down, undefined, past, count>>
    BY <1>4 DEF Tick
  <2>2. \A i \in 1..Len(events) : events[i] \in Change /\ events[i].time <= now
    BY <1>0, ElementOfSeq DEF ClickTypes
  <2>3. \A x \in Nat : x <= now => x <= now + 1 BY <1>0 DEF ClickTypes
  <2>4. \A i \in 1..Len(events) : events[i].time <= now + 1
    BY <2>2, <2>3 DEF Change
  <2>5. now + 1 \in Nat BY <1>0 DEF ClickTypes
  <2>6. ClickTypes' BY <1>0, <2>1, <2>4, <2>5 DEF ClickTypes
  <2> QED BY <1>2, <1>4, <2>6 DEF Tick
<1>5. ASSUME NEW turn \in BOOLEAN, Switch(turn) PROVE ClickInv'
  <2> DEFINE e == [press |-> down', time |-> now]
  <2>1. /\ down' = (IF turn THEN down ELSE ~down) /\ events' = Append(events, e)
        /\ UNCHANGED <<now, opened, d, deadline, undefined, past, count>> /\ calls' = {}
    BY <1>5 DEF Switch
  <2>2. down' \in BOOLEAN BY <1>0, <2>1 DEF ClickTypes
  <2>3. e \in Change /\ e.time = now BY <1>0, <2>2 DEF Change, ClickTypes
  <2> HIDE DEF e
  <2>4. events \in Seq(Change) /\ now \in Nat BY <1>0 DEF ClickTypes
  <2>5. /\ events' \in Seq(Change) /\ Len(events') = Len(events) + 1
        /\ \A i \in 1..Len(events) : events'[i] = events[i]
        /\ events'[Len(events) + 1] = e
    BY <2>1, <2>3, <2>4, AppendProperties
  <2>6. \A i \in 1..Len(events') : events'[i].time <= now
    <3> SUFFICES ASSUME NEW i \in 1..Len(events') PROVE events'[i].time <= now OBVIOUS
    <3>1. i \in 1..Len(events) \/ i = Len(events) + 1 BY <2>4, <2>5
    <3>2. CASE i \in 1..Len(events) BY <1>0, <2>5, <3>2 DEF ClickTypes
    <3>3. CASE i = Len(events) + 1 BY <2>3, <2>4, <2>5, <3>3
    <3> QED BY <3>1, <3>2, <3>3
  <2>7. ClickTypes' BY <1>0, <2>1, <2>2, <2>5, <2>6 DEF ClickTypes
  <2> QED BY <1>2, <2>1, <2>7
<1>6. CASE UNCHANGED clickVars
  <2>1. ClickTypes' BY <1>0, <1>6 DEF clickVars, ClickTypes
  <2> QED BY <1>2, <1>6, <2>1 DEF clickVars
<1> QED BY <1>1, <1>3, <1>4, <1>5, <1>6

\* What the four properties rest on holds in every behaviour of the gestures.
LEMMA ClickInvariant == ClickSpec => []ClickInv
<1>1. ClickInit => ClickInv
  <2> SUFFICES ASSUME ClickInit PROVE ClickInv OBVIOUS
  <2>1. /\ d \in Data /\ ~d.press /\ ~d.was_press /\ ~d.was_release /\ ~d.dbl
    BY DEF ClickInit, Fresh, Data
  <2>2. count \in Counts /\ count.release = 0 /\ count.click = 0 /\ count.dblclick = 0 /\ count.tied = 0
    BY DEF ClickInit, NoCount, Counts
  <2>3. <<>> \in Seq(Change) /\ Len(<<>>) = 0 /\ 1..0 = {} OBVIOUS
  <2>4. ClickTypes
    <3>1. /\ now = 0 /\ opened = FALSE /\ deadline = -1 /\ events = <<>> /\ down = FALSE
          /\ undefined = FALSE /\ past = <<>>
      BY DEF ClickInit, None
    <3>2. events \in Seq(Change) /\ past \in Seq(Change) /\ Len(events) = 0 BY <2>3, <3>1
    <3>3. \A i \in 1..Len(events) : events[i].time <= now BY <2>3, <3>2
    <3>4. now \in Nat /\ deadline \in Int BY <3>1
    <3> QED BY <2>1, <2>2, <3>1, <3>2, <3>3, <3>4 DEF ClickTypes
  <2>5. Agrees(d) /\ Remembers(d, past) BY <2>1, <2>3 DEF ClickInit, Agrees, Remembers
  <2>6. Balanced(d, count) BY <2>1, <2>2 DEF Balanced
  <2>7. TimerOnTime /\ DblClickIsDouble /\ LongSeen
    BY DEF ClickInit, TimerOnTime, DblClickIsDouble, LongSeen
  <2> QED BY <2>4, <2>5, <2>6, <2>7 DEF ClickInv
<1>2. ClickInv /\ [ClickNext]_(clickVars) => ClickInv'
  BY TaskKeeps, TimerKeeps, OthersKeep DEF ClickNext
<1> QED BY <1>1, <1>2, PTL DEF ClickSpec

\* For any delays that are whole milliseconds: a gesture that lrotary_check_timer()
\* waits for has its timer armed, never early and at most a millisecond late.
THEOREM TimerAlwaysOnTime ==
  ClickSpec => []TimerOnTime
<1>1. ClickInv => TimerOnTime BY DEF ClickInv
<1> QED BY <1>1, ClickInvariant, PTL

\* For any number of events and any delay of task and timer, every release ends
\* in its CLICK, in a DBLCLICK or is waited for, but for the press exactly
\* click_delay_us later.
THEOREM ReleasesAlwaysCounted ==
  ClickSpec => []EveryReleaseCounted
<1>1. ClickInv => EveryReleaseCounted
  BY DEF ClickInv, Balanced, EveryReleaseCounted
<1> QED BY <1>1, ClickInvariant, PTL

\* However late the task is, a DBLCLICK ends a release, a press less than
\* click_delay_us after it and a release.
THEOREM DblClickAlwaysDouble ==
  ClickSpec => []DblClickIsDouble
<1>1. ClickInv => DblClickIsDouble BY DEF ClickInv
<1> QED BY <1>1, ClickInvariant, PTL

-----------------------------------------------------------------------------
\* The switch itself, through the events that were not delivered yet.

\* Whether the switch was down after the i-th event of the queue q.
Level(m, q, i) == IF i = 0 THEN m.press ELSE q[i].press

\* No release is queued from the i-th event on.
Stays(m, q, i) == \A j \in i..Len(q) : Level(m, q, j)

\* The last event says what the switch is, and the last press that no queued
\* release follows is the one of the switch.
HeldInv ==
  /\ down = Level(d, events, Len(events))
  /\ d.press /\ Stays(d, events, 1) => pressedAt = d.last_event_time
  /\ \A i \in 1..Len(events) : ~Level(d, events, i - 1) /\ Stays(d, events, i) => pressedAt = events[i].time

\* A check leaves what was delivered last alone.
LEMMA ArmLeaves ==
  ASSUME NEW m \in Data, CheckAndArm(m)
  PROVE  d'.press = m.press /\ d'.last_event_time = m.last_event_time
<1> DEFINE c == Checked(m, now)
<1>2. /\ DOMAIN c = DOMAIN m /\ c.press = m.press /\ c.last_event_time = m.last_event_time
  BY DEF Checked, Data
<1>3. d' = [c EXCEPT !.running = Waiting(c)] BY DEF CheckAndArm
<1> HIDE DEF c
<1>4. {"press", "last_event_time"} \subseteq DOMAIN c BY <1>2 DEF Data
<1> QED BY <1>2, <1>3, <1>4

\* So does the task, but for the event it delivers.
LEMMA TaskLeaves ==
  ASSUME ClickInv, dequeue
  PROVE  LET e == Head(events)
         IN  /\ d'.press = e.press
             /\ e.press # d.press => d'.last_event_time = e.time
             /\ e.press = d.press => d'.last_event_time = d.last_event_time
<1> DEFINE e == Head(events)
           m == Before(e)
           n == Applied(m, e)
           a == [n EXCEPT !.running = d.running]
<1>1. d \in Data /\ e \in Change /\ CheckAndArm(a)
  BY DEF ClickInv, ClickTypes, dequeue
<1> HIDE DEF e
<1>2. m \in Data /\ m.press = d.press /\ m.last_event_time = d.last_event_time
  BY <1>1 DEF Before, Checked, Data
<1> HIDE DEF m
<1>3. /\ n \in Data /\ n.press = e.press
      /\ e.press # m.press => n.last_event_time = e.time
      /\ e.press = m.press => n.last_event_time = m.last_event_time
  <2>1. CASE e.press = m.press BY <1>2, <2>1 DEF Applied
  <2>2. CASE e.press # m.press /\ e.press
    <3>1. n = Pressed(m, e.time) BY <2>2 DEF Applied
    <3>2. IsDouble(m, e.time) \in BOOLEAN /\ m.dbl \in BOOLEAN BY <1>2 DEF IsDouble, Data
    <3>3. (m.dbl \/ IsDouble(m, e.time)) \in BOOLEAN BY <3>2, Zenon
    <3> QED BY <1>1, <1>2, <2>2, <3>1, <3>3 DEF Pressed, Data, Change
  <2>3. CASE e.press # m.press /\ ~e.press
    <3>1. n = Released(m, e.time) BY <2>3 DEF Applied
    <3>2. e.press = FALSE BY <1>1, <2>3 DEF Change
    <3> QED BY <1>1, <1>2, <2>3, <3>1, <3>2 DEF Released, Data, Change
  <2> QED BY <2>1, <2>2, <2>3
<1> HIDE DEF n
<1>4. a \in Data /\ a.press = n.press /\ a.last_event_time = n.last_event_time
  BY <1>1, <1>3 DEF Data
<1> HIDE DEF a
<1>5. d'.press = a.press /\ d'.last_event_time = a.last_event_time BY <1>1, <1>4, ArmLeaves
<1> QED BY <1>2, <1>3, <1>4, <1>5 DEF e

\* The task takes the first event of the queue.
LEMMA TaskHolds ==
  ASSUME ClickInv, HeldInv, dequeue
  PROVE  HeldInv'
<1> DEFINE e == Head(events)
<1>1. /\ events \in Seq(Change) /\ events # <<>> /\ events' = Tail(events)
      /\ down' = down /\ pressedAt' = pressedAt
  BY DEF ClickInv, ClickTypes, dequeue
<1>2. /\ Len(events) \in Nat /\ Len(events) >= 1 /\ e = events[1]
      /\ Len(events') = Len(events) - 1
      /\ \A i \in 1..Len(events') : events'[i] = events[i + 1]
  BY <1>1, HeadTailProperties
<1>3. /\ d'.press = e.press
      /\ e.press # d.press => d'.last_event_time = e.time
      /\ e.press = d.press => d'.last_event_time = d.last_event_time
  BY TaskLeaves
<1> HIDE DEF e
<1>4. \A i \in 0..Len(events') : Level(d', events', i) = Level(d, events, i + 1)
  <2> SUFFICES ASSUME NEW i \in 0..Len(events') PROVE Level(d', events', i) = Level(d, events, i + 1) OBVIOUS
  <2>1. CASE i = 0 BY <1>2, <1>3, <2>1 DEF Level
  <2>2. CASE i # 0
    <3>1. i \in 1..Len(events') /\ i + 1 # 0 BY <1>2, <2>2
    <3> QED BY <1>2, <2>2, <3>1 DEF Level
  <2> QED BY <2>1, <2>2
<1>5. \A i \in 1..(Len(events') + 1) : Stays(d', events', i) => Stays(d, events, i + 1)
  <2> SUFFICES ASSUME NEW i \in 1..(Len(events') + 1), Stays(d', events', i), NEW j \in (i + 1)..Len(events)
               PROVE  Level(d, events, j)
    BY DEF Stays
  <2>1. j - 1 \in i..Len(events') /\ j - 1 \in 0..Len(events') /\ (j - 1) + 1 = j BY <1>2
  <2>2. Level(d', events', j - 1) BY <2>1 DEF Stays
  <2> QED BY <1>4, <2>1, <2>2
<1>6. down' = Level(d', events', Len(events'))
  <2>1. Len(events') \in 0..Len(events') /\ Len(events') + 1 = Len(events) BY <1>2
  <2> QED BY <1>1, <1>4, <2>1 DEF HeldInv
<1>7. ASSUME NEW i \in 1..Len(events'), ~Level(d', events', i - 1), Stays(d', events', i)
      PROVE  pressedAt' = events'[i].time
  <2>1. i + 1 \in 1..Len(events) /\ i - 1 \in 0..Len(events') /\ (i - 1) + 1 = (i + 1) - 1
        /\ i \in 1..(Len(events') + 1)
    BY <1>2
  <2>2. ~Level(d, events, (i + 1) - 1) /\ Stays(d, events, i + 1) BY <1>4, <1>5, <1>7, <2>1
  <2>3. pressedAt = events[i + 1].time BY <2>1, <2>2 DEF HeldInv
  <2> QED BY <1>1, <1>2, <2>3
<1>8. ASSUME d'.press, Stays(d', events', 1) PROVE pressedAt' = d'.last_event_time
  <2>0. 1 \in 1..(Len(events') + 1) /\ 1 \in 1..Len(events) BY <1>2
  <2>1. Stays(d, events, 2) BY <1>5, <1>8, <2>0
  <2>2. Stays(d, events, 1)
    <3> SUFFICES ASSUME NEW j \in 1..Len(events) PROVE Level(d, events, j) BY DEF Stays
    <3>1. j = 1 \/ j \in 2..Len(events) BY <1>2
    <3>2. Level(d, events, 1) BY <1>2, <1>3, <1>8 DEF Level
    <3> QED BY <2>1, <3>1, <3>2 DEF Stays
  <2>3. CASE d.press
    <3>1. pressedAt = d.last_event_time BY <2>2, <2>3 DEF HeldInv
    <3>2. e.press = d.press
      <4>1. e.press \in BOOLEAN /\ d.press \in BOOLEAN
        <5>1. events[1] \in Change BY <1>1, <1>2
        <5> QED BY <1>2, <5>1 DEF Change, ClickInv, ClickTypes, Data
      <4> QED BY <1>3, <1>8, <2>3, <4>1
    <3> QED BY <1>1, <1>3, <3>1, <3>2
  <2>4. CASE ~d.press
    <3>1. ~Level(d, events, 1 - 1) BY <2>4 DEF Level
    <3>2. pressedAt = events[1].time BY <2>0, <2>2, <3>1 DEF HeldInv
    <3>3. e.press # d.press BY <1>3, <1>8, <2>4
    <3> QED BY <1>1, <1>2, <1>3, <3>2, <3>3
  <2> QED BY <2>3, <2>4
<1> QED BY <1>6, <1>7, <1>8 DEF HeldInv

\* The switch queues another event.
LEMMA SwitchHolds ==
  ASSUME ClickInv, HeldInv, NEW turn \in BOOLEAN, Switch(turn)
  PROVE  HeldInv'
<1> DEFINE e == [press |-> down', time |-> now]
<1>1. /\ events \in Seq(Change) /\ down \in BOOLEAN /\ now \in Nat /\ d \in Data
  BY DEF ClickInv, ClickTypes
<1>2. /\ down' = (IF turn THEN down ELSE ~down) /\ events' = Append(events, e) /\ d' = d
      /\ pressedAt' = IF ~down /\ down' THEN now ELSE pressedAt
  BY DEF Switch
<1>3. down' \in BOOLEAN BY <1>1, <1>2
<1>4. e \in Change /\ e.press = down' /\ e.time = now BY <1>1, <1>3 DEF Change
<1> HIDE DEF e
<1>5. /\ Len(events) \in Nat /\ Len(events') = Len(events) + 1
      /\ \A i \in 1..Len(events) : events'[i] = events[i]
      /\ events'[Len(events) + 1] = e
  BY <1>1, <1>2, <1>4, AppendProperties
<1>6. /\ \A i \in 0..Len(events) : Level(d', events', i) = Level(d, events, i)
      /\ Level(d', events', Len(events) + 1) = down'
  <2>1. \A i \in 0..Len(events) : i = 0 \/ i \in 1..Len(events) BY <1>5
  <2>2. Len(events) + 1 # 0 BY <1>5
  <2> QED BY <1>2, <1>4, <1>5, <2>1, <2>2 DEF Level
<1>7. Level(d, events, Len(events)) = down BY DEF HeldInv
<1>8. \A i \in 1..(Len(events) + 1) : Stays(d', events', i) => down' /\ Stays(d, events, i)
  <2> SUFFICES ASSUME NEW i \in 1..(Len(events) + 1), Stays(d', events', i) PROVE down' /\ Stays(d, events, i) OBVIOUS
  <2>1. Len(events) + 1 \in i..Len(events') BY <1>5
  <2>2. down' BY <1>6, <2>1 DEF Stays
  <2>3. \A j \in i..Len(events) : j \in i..Len(events') /\ j \in 0..Len(events) BY <1>5
  <2>4. Stays(d, events, i) BY <1>6, <2>3 DEF Stays
  <2> QED BY <2>2, <2>4
<1>9. ASSUME NEW i \in 1..Len(events), Stays(d, events, i) PROVE down
  <2>1. Len(events) \in i..Len(events) BY <1>5
  <2> QED BY <1>7, <1>9, <2>1 DEF Stays
<1>10. down' = Level(d', events', Len(events')) BY <1>5, <1>6
<1>11. ASSUME d'.press, Stays(d', events', 1) PROVE pressedAt' = d'.last_event_time
  <2>1. 1 \in 1..(Len(events) + 1) BY <1>5
  <2>2. down' /\ Stays(d, events, 1) BY <1>8, <1>11, <2>1
  <2>3. down
    <3>1. CASE Len(events) = 0 BY <1>2, <1>7, <1>11, <3>1 DEF Level
    <3>2. CASE Len(events) # 0
      <4>1. 1 \in 1..Len(events) BY <1>5, <3>2
      <4> QED BY <1>9, <2>2, <4>1
    <3> QED BY <3>1, <3>2
  <2> QED BY <1>2, <1>11, <2>2, <2>3 DEF HeldInv
<1>12. ASSUME NEW i \in 1..Len(events'), ~Level(d', events', i - 1), Stays(d', events', i)
       PROVE  pressedAt' = events'[i].time
  <2>0. /\ i \in 1..(Len(events) + 1) /\ i - 1 \in 0..Len(events)
        /\ i \in 1..Len(events) \/ (i = Len(events) + 1 /\ i - 1 = Len(events))
    BY <1>5
  <2>1. down' /\ Stays(d, events, i) /\ ~Level(d, events, i - 1) BY <1>6, <1>8, <1>12, <2>0
  <2>2. CASE i \in 1..Len(events)
    <3>1. down BY <1>9, <2>1, <2>2
    <3>2. pressedAt = events[i].time BY <2>1, <2>2 DEF HeldInv
    <3> QED BY <1>2, <1>5, <2>2, <3>1, <3>2
  <2>3. CASE i = Len(events) + 1
    <3>1. ~down BY <1>7, <2>0, <2>1, <2>3
    <3> QED BY <1>2, <1>4, <1>5, <2>1, <2>3, <3>1
  <2> QED BY <2>0, <2>2, <2>3
<1> QED BY <1>10, <1>11, <1>12 DEF HeldInv

\* Every step keeps what the queue says of the switch.
LEMMA HeldNext ==
  ASSUME ClickInv, HeldInv, [ClickNext]_clickVars
  PROVE  HeldInv'
<1>1. CASE dequeue BY <1>1, TaskHolds
<1>2. ASSUME NEW turn \in BOOLEAN, Switch(turn) PROVE HeldInv' BY <1>2, SwitchHolds
<1>3. ASSUME events' = events, down' = down, pressedAt' = pressedAt,
             d'.press = d.press, d'.last_event_time = d.last_event_time
      PROVE  HeldInv'
  BY <1>3 DEF HeldInv, Level, Stays
<1>4. CASE lrotary_timer_done
  <2>1. d \in Data BY DEF ClickInv, ClickTypes
  <2> DEFINE a == [d EXCEPT !.running = TRUE]
  <2>2. a \in Data /\ a.press = d.press /\ a.last_event_time = d.last_event_time BY <2>1 DEF Data
  <2>3. CheckAndArm(a) BY <1>4 DEF lrotary_timer_done
  <2> HIDE DEF a
  <2>4. d'.press = a.press /\ d'.last_event_time = a.last_event_time BY <2>2, <2>3, ArmLeaves
  <2> QED BY <1>3, <1>4, <2>2, <2>4 DEF lrotary_timer_done
<1>5. CASE dequeue_nothing
  <2>1. d \in Data BY DEF ClickInv, ClickTypes
  <2>2. CheckAndArm(d) BY <1>5 DEF dequeue_nothing
  <2>3. d'.press = d.press /\ d'.last_event_time = d.last_event_time BY <2>1, <2>2, ArmLeaves
  <2> QED BY <1>3, <1>5, <2>3 DEF dequeue_nothing
<1>6. CASE lrotary_setup \/ lrotary_close
  <2>1. d' = Fresh /\ events' = <<>> /\ down' = FALSE
    BY <1>6 DEF lrotary_setup, lrotary_close, Configures
  <2>2. d'.press = FALSE /\ Len(events') = 0 /\ 1..0 = {} BY <2>1 DEF Fresh
  <2> QED BY <2>1, <2>2 DEF HeldInv, Level
<1>7. CASE FreedTimer BY <1>3, <1>7 DEF FreedTimer
<1>8. CASE Tick BY <1>3, <1>8 DEF Tick
<1>9. CASE UNCHANGED clickVars BY <1>3, <1>9 DEF clickVars
<1> QED BY <1>1, <1>2, <1>4, <1>5, <1>6, <1>7, <1>8, <1>9 DEF ClickNext

\* However late task and timer are, LONGPRESS means that the switch itself has been
\* down for longer than longpress_delay_us, and still is or had its release
\* delivered with the call, unless a release waits in the queue.
THEOREM LongPressAlwaysLong ==
  ClickSpec => []LongPressIsLong
<1>1. ClickInit => HeldInv
  <2> SUFFICES ASSUME ClickInit PROVE HeldInv OBVIOUS
  <2>1. d.press = FALSE /\ events = <<>> /\ down = FALSE BY DEF ClickInit, Fresh
  <2>2. Len(events) = 0 /\ 1..0 = {} BY <2>1
  <2> QED BY <2>1, <2>2 DEF HeldInv, Level
<1>2. ClickInv /\ HeldInv => LongPressIsLong
  <2> SUFFICES ASSUME ClickInv, HeldInv, "LONGPRESS" \in calls, LastChange.press, ~ReleaseQueued
               PROVE  down /\ pressedAt = LastChange.time
    BY DEF ClickInv, LongSeen, LongPressIsLong
  <2>1. d \in Data /\ past \in Seq(Change) /\ events \in Seq(Change) /\ Remembers(d, past)
    BY DEF ClickInv, ClickTypes
  <2>2. Len(events) \in Nat BY <2>1
  <2>3. \A i \in 1..Len(events) : Level(d, events, i)
    <3>1. \A i \in 1..Len(events) : i # 0 BY <2>2
    <3> QED BY <3>1 DEF ReleaseQueued, Level
  <2>4. Len(past) >= 1 /\ LastChange.time = d.last_event_time /\ d.press
    <3>1. Len(past) >= 1 BY DEF ClickInv, LongSeen
    <3> QED BY <2>1, <3>1 DEF Remembers, LastChange
  <2>5. pressedAt = d.last_event_time BY <2>3, <2>4 DEF HeldInv, Stays
  <2>6. Level(d, events, Len(events))
    <3>1. CASE Len(events) = 0 BY <2>4, <3>1 DEF Level
    <3>2. CASE Len(events) # 0
      <4>1. Len(events) \in 1..Len(events) BY <2>2, <3>2
      <4> QED BY <2>3, <4>1
    <3> QED BY <3>1, <3>2
  <2>7. down BY <2>6 DEF HeldInv
  <2> QED BY <2>4, <2>5, <2>7
<1>3. ClickInv /\ HeldInv /\ [ClickNext]_clickVars => HeldInv' BY HeldNext
<1> QED BY <1>1, <1>2, <1>3, ClickInvariant, PTL DEF ClickSpec
=============================================================================
