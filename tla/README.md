# A TLA+ verification project for the NodeMCU firmware

NodeMCU runs Lua on the ESP8266. Everything happens on one CPU: the SDK's
event loop serves software timers, network callbacks and the firmware's task
queues one at a time, and interrupt handlers preempt all of them. The C code
that this project is about keeps state between such events: a timer object
between two expiries, a pipe between a write and the reader task, a connection
between a request and its answer. What goes wrong in such code goes wrong in an
order of events that nobody tried, which is what the models here explore.

Paths below are relative to `src/`. `PROJECT.json` has the exact lines that
every definition models, the hazards with their lines, and the mutants (a fault
for every property, which that property catches).

## 1. Inventory

| Component | Source | State it keeps | Operations | What is hard | Correct means |
|---|---|---|---|---|---|
| Task queues | `app/platform/platform.c` | three queues of 8 events, table of handlers | post, dispatch, get_id | full queues, posts from interrupts | a posted task runs once, in order |
| Lua timers | `app/modules/tmr.c` | mode byte, SDK timer, two registry references | create, register, start, stop, unregister, interval, alarm, expiry, `__gc` | methods called from the callback, collection of a running timer | the SDK never holds a freed timer; documented life cycle |
| Uptime clock, soft watchdog | `app/modules/tmr.c` | reference point, calibration, counter | time, softwd, 1 Hz callback | wrapping counter, rounding, recalibration | no accumulated drift; watchdog on time |
| Timer suspension | `app/pm/swtimer.c` | SDK timer list, list of suspended timers | suspend, resume, register callback | re-inserting in a sorted list | no timer is lost |
| Pipes | `app/modules/pipe.c` | chunks of bytes, state of the reader task | read, write, unread, nrec, reader task | writes while the reader runs, reposting | bytes in order; no lost wake-up |
| RTC FIFO | `app/include/rtc/rtcfifo.h`, `app/modules/rtcfifo.c` | ring of samples in RTC memory, name table | prepare, put, pop, peek, drop | survives resets; several words per operation | a bounded queue; indices in the ring |
| Rotary encoder | `app/driver/rotary.c`, `app/modules/rotary.c` | ring of events, task flag, click state, timer | interrupt, getevent, task, timer, setup, close | interrupt against task, timer against queued events | no final position or press is lost; clicks are clicks |
| MQTT client | `app/modules/mqtt.c`, `app/mqtt/*` | connection state, pending message queue, timer | connect, close, publish, subscribe, socket callbacks, timer | every interleaving of network events and calls | callbacks match messages; everything is answered or the connection ends |
| MQTT reassembly | `app/modules/mqtt.c`, `app/mqtt/mqtt_msg.c` | receive state, heap copy, bytes to skip | segments, lost connections | messages cut anywhere, larger than the limit | every message once, in order, no byte lost |
| SNTP client | `app/modules/sntp.c` | request state, attempts, server list, repetition | sync, lookups, replies, timeouts, tasks | duplicate and late replies, refused posts | one result per sync, the best of its answers |
| Console input | `app/driver/uart.c`, `app/driver/input.c` | receive ring, latch, line buffer, registration | interrupt, task, line editing, uart.on() | overrun, flag between interrupt and task, callbacks that register anew | no input waits for ever; callbacks get what they asked for |
| Sockets, HTTP, WebSocket, CoAP | `app/modules/net.c`, `app/http`, `app/websocket`, `app/coap` | control blocks, buffers, timers | connect, send, callbacks | object life time against callbacks | every request ends once |
| WiFi, mDNS, end user setup | `app/modules/wifi*.c`, `app/net` | wrappers of the SDK | | closed SDK underneath | |
| Cron, RTC time, deep sleep | `app/modules/cron.c`, `rtctime.c` | schedules, clock registers | | boundaries of time | |
| Hardware timer users, buses, sensors, displays | `app/driver`, `app/modules` | device registers | | timing | |
| Lua flash store, files | `app/lua/lflash.c`, `app/platform/vfs.c` | flash image, descriptors | | | |
| Lua modules | `lua_modules` | queues, peers | | callbacks of sockets | |

Components interact by calls of the SDK (`os_timer_*`, `espconn_*`), by tasks
posted to the shared queues, and through Lua: every callback may call back into
the module that runs it, which is the source of most of the hard cases. Memory
shared with interrupts is that of the rotary switches, the UART and the
hardware timer users.

`PROJECT.json` lists the parts that have no module, each with its reason.

## 2. Plan

Order of work, the most used and most exposed state machines first:

1. `Tmr`, `TmrClock`: timer objects against the contract of their documentation.
   *Done, with proofs.*
2. `PipeBuffer`, `PipeReader`: the byte queue, and the task that wakes the
   reader. *Done, with proofs.*
3. `RtcFifo`: the ring in memory that survives resets. *Done, with proofs.*
4. `Rotary`, `RotaryClick`: interrupt against task; gestures against time.
   *Done, with proofs.*
5. `MqttClient`: the protocol engine. *Done for whole messages, with proofs.*
6. `MqttReceive`: reassembly of messages over segments, skipping of oversize
   ones, below the whole-message view of `MqttClient`. *Done, with proofs.*
7. `Sntp`: retries, duplicate answers and timeouts. *Done, with proofs.*
8. `ConsoleInput`: receive ring, latch between interrupt and task, line editing.
   *Done, with proofs.*
9. Left for later: suspending and resuming the SDK's timer list, Cron, the event
   queue of `wifi_eventmon`, the life cycle of `net.c` objects, `fifosock` and
   `gossip`.

Every invariant and every refinement that a run checks is also a theorem; what
is left to TLC is liveness.

Abstract specifications: `TimerContract` (documented life cycle of a timer),
`PipeContract` (a byte queue) and `SampleFifoContract` (a bounded queue of
samples); each is implemented by its detailed module under a refinement mapping.

## 3. Modules

### Timers: `Tmr`, `TimerContract`, `TmrClock`

`Tmr` has per timer the userdata (`tmr`: mode, idle flag, interval, callback
and self reference), the `os_timer_t` inside it (`os`), whether the collector
has freed it (`heap`) and whether the program still holds it (`held`). `call` is
the callback that runs. The actions are the methods, the expiry
(`alarm_timer_common`), and the environment: the program forgets and keeps
timers, the collector frees what nothing refers to. All methods may be called
in any order and on any timer, also while a callback runs, its own timer's
included.

start() with the argument true, or after stop(), arms the SDK timer of an object
that is not registered (`tmr.c:164,170`; `docs/modules/tmr.md:339-340` has stop()
and start() in a row). `os[t].by` records the mode for which an SDK timer was
armed, and one that was armed for mode off is a stray (`Stray`): unregister()
and `__gc` do not disarm it, a later register() gives it a function, and it may
go off after its memory was freed. What the SDK then jumps to is anything
(`WildExpiry`): nothing that can be seen, or the chip restarts.

`TimerContract` is what `docs/modules/tmr.md` promises, extended by what becomes
of a stray alarm, which the documentation does not mention; the mapping reads
"started" off the mode byte.

`TmrClock` has the wrapping RTC counter, the conversion with a fixed-point
calibration and its reference point, and the soft watchdog; quantities are
scaled, the arithmetic is that of the code.

### Pipes: `PipeBuffer`, `PipeContract`, `PipeReader`

`PipeBuffer` has the chunks with their start offsets and contents; write, read
(by number or delimiter), unread. `asked` is the argument of the last read(), so
that `PipeContract` demands the very record that the code promises for it: so
many bytes, a line with its delimiter, or, without an argument, a line without
it, where the documentation says with it (section 6). Each loop of the code is a
function from the number of rounds to the state after them (`WriteStep` and
`WriteLoop`, and so on); a round that has nothing left to do changes nothing, so
the number of bytes or of chunks is rounds enough. `PipeReader` abstracts the
content to a number of bytes and has the state word of
`pipe_write_and_read_poster()`, the task queue it shares with other tasks, and a
callback that reads, writes (`CBWrites`), fails, and returns true, false or nil.

### RTC FIFO: `RtcFifo`, `SampleFifoContract`

`rtc` is the control block and the slots. Each operation computes the memory it
leaves; `Reset` and `ResetPrepare` cut an operation off between two words
(`Torn`), in the order in which the code writes them. prepare() may be called
again on a prepared FIFO; it does not clear the magic first, so that a reset in
the middle of it leaves a FIFO that counts as prepared, with the new location
and the old indices (`halfway`). It also sets head and tail for the default
location before it moves the FIFO to the one that was asked for, which need not
hold them (`HoldsDefaultHead`). In both cases put(), pop() and drop() use memory
that is not the FIFO's. The model stops there: they need `InPlace`, and only
another prepare() goes on. `IndicesInRing` excepts exactly these two cases, and
`IndicesAlwaysInRing` shows them (section 6).

### Rotary switches: `Rotary`, `RotaryClick`

`Rotary` has the rings between `rotary_interrupt()` and the task. The task is
split at every access to a ring, and the interrupt may come between any two.
`RotaryClick` has one channel's gesture detection over a clock, with a task and
a timer that may both run late; the task also looks at a channel that has no
event (`dequeue_nothing`). `pressedAt` is when the switch itself was pressed
last, whatever of it the task has seen: a long press is one of the switch.

### MQTT: `MqttClient`

The client's fields are variables with the names of the code. `link` stands for
the TCP connection and for `mud->connected`; `tcp` and `self_ref` are held
exactly while `link` is not `none` and are not variables. `wire` are the
messages given to `espconn_send()`, `due` what the broker has to answer, `down`
what is on its way from it. Decisions worth knowing:

- The acknowledgement of TCP and the sent callback are one step, so that the
  sent callback precedes any answer: espconn reports the acknowledgement before
  it hands over data.
- `mqtt_socket_received()` is split into one step per message (`rx`, `pc`),
  because the Lua callback of a message may call the client. The callback in
  `mqtt_socket_sent()` is folded into its step: a call from it and a call right
  after it have the same effect.
- `espconn_send()` may refuse any message. `mishaps` records that, and that
  messages in the segment of a CONNACK were skipped: both make the client stall
  and are the stated exceptions of `QueueDrains`. It also records that the
  connection was closed while CONNACK was awaited (`closed_early`): the only
  case in which connect() has neither of its answers, and the exception of
  `ConnectAnswered` (section 6).
- `timer = "missed"` is a timer that fired while an answer was awaited: the
  code neither acts nor starts it again. It is the stated exception of
  `SilenceNoticed`.
- The broker may answer requests in any order, publish, refuse, be no MQTT
  broker at all, fall silent, and close or reset the connection at any time.
  It never sends PINGREQ, so the branch for it in `Handled` is not taken.

### MQTT reassembly: `MqttReceive`

A byte is its position in the stream of the connection and a buffer an interval
of positions, so that joining, cutting and skipping are arithmetic on ends and
"the right bytes" is "the right positions". `stream` is what the broker has
sent; a segment is any number of bytes behind `got`. `reading` is the loop at
`READPACKET`; `rest` is the continuation buffer, the tail of a segment that
completed a message from the heap. What the code learns of a message from its
first bytes is computed by `mqtt_get_total_length` and `mqtt_get_id` as the code
computes it, digits of the length included; `LENGTH_BASE` stands for 128 so that
short messages have lengths of several bytes. With `SplitLength` a segment may
end between two of those digits, which the code does not handle (section 6).
Two definitions abstract from the wreck: `ReadPacket` follows only a buffer that
begins with a message, and `Joined` forgets a gap between its parts;
`Reassembled` forbids both situations. The allocations of `ReceiveShort` and
`Partial` may fail, which ends the connection.

### SNTP: `Sntp`

The fields of the exchange have the names of `sntp_state_t`; `on` is
`state != NULL`. The three kinds of tasks that `sntp.c` posts are counters, since
tasks of a kind are alike. `net` are requests that were sent: each may be
answered any number of times, late, out of order, in a later exchange, or never,
with a time, a kiss of death, or as unsynchronised. An answer has a delay and a
stratum: `best.stratum = 0` is how the code knows that it has no answer yet,
and it takes answers of stratum 0 (section 6). `cleanup` resets what
`state_init()` would, so that a state that is not there has one form. History
variables name what the properties except:

- `mishaps`: a post was refused, a Lua error was raised in sync(), or udp_new()
  failed for a repetition; each leaves `state` without anything to drive it.
- `again`: an answer was taken after the end of the exchange had been posted,
  so that the end is posted twice.
- `crashed`: a function ran into a null `state`.

### Console: `ConsoleInput`

The interrupt handler of the UART, with its latch (it posts only while
`input_sig_flag` equals its own flag), may come between any two steps of
`input_readline()`: the loop is split at the test for an empty ring, the read of
a character and the callback. The characters are an ordinary one, carriage
return, line feed and backspace. `Registrations` are the arguments uart.on()
may pass: a length, an end character, and whether the interpreter also gets
the input. A callback may register another one; `MayUnregister` lets a callback
for chunks register none, which the code does not survive (section 6), and is
FALSE in the run.

## 4. Runs

| Run | Bounds | Distinct states | Shows |
|---|---|---|---|
| `tmr` | two timers, two intervals, one callback | 215,160 | any calls on any timers: no SDK timer of a registered timer in collectable memory, mode byte and SDK timer agree, refinement of the contract, one-shot timers are collected |
| `tmrclock` | counter of 16, 28 ticks, 8 to the second | 489,312 | rounding does not accumulate, watchdog on time |
| `pipebuffer` | chunks of 3, at most 7 bytes | 543,513 | chunks stay in bounds, refinement of the byte queue, with the record that was asked for |
| `pipereader` | queue of 3, 5 writes | 1,678 | no lost wake-up, one reader task, the pipe drains |
| `rtcfifo` | rings of 2 and 3, one location without the default head, clock of 4, one reset | 263,644 | indices and tail unless the location or an interrupted second prepare() misplaces them, deltas, refinement of the bounded queue |
| `rotary` | two channels, rings of 3, 3 and 1 edges, task queue of 2 | 573,561 | no press and no final position is lost, the position is exact, everything is delivered |
| `rotaryclick` | 11 ticks, 4 events, delays of 4 | 892,531 | timers on time, clicks and double clicks account for all releases, long presses are long unless a release is still queued |
| `mqtt` | two connections, two calls, one publication by the broker, ids all equal | 438,808 | callbacks match messages, the queue drains, connect() is answered unless the connection is closed before CONNACK, silence is noticed |
| `mqttreceive` | five kinds of messages, 3 in a connection, two connections, lengths to base 4, limit of 11 bytes | 300,165 | every message is handled once, in order, whole or skipped; the heap copy is neither overrun nor leaked |
| `mqttreceive_split` | the same, cuts within a length | violation | the digits at hand are taken for the length and the place in the stream is lost |
| `sntp` | two servers, lists of none, one and two, two exchanges, 3 attempts, 4 requests, two delays, strata 0 and 1 | 400,151 | exactly one thing drives an exchange, its result is the best of its answers unless one has stratum 0, every sync() ends |
| `consoleinput` | ring of 3 positions, line of 3, task queue of 2, 3 characters, five registrations | 352,692 | the ring holds the newest characters, the latch never sticks, chunks are as asked for, all input is read |

Why the bounds are enough: rings are small enough to be full, to wrap and to be
empty within the bounds; the clock wraps within the ticks of `tmrclock` and
`rtcfifo`; task queues are full with the other tasks allowed; `rotaryclick` has
room for a double click with either delay missed, met or met exactly; two MQTT
connections show what a dead one leaves to the next, two calls what a pending
message does to a second one, and a space of one usable id makes every answer
fit every message with the right type, which is the worst case for matching.
Of the messages of `mqttreceive` one has nothing behind its header, one a length
of two bytes, and two are longer than the limit, one of them with an id that
comes late; three of them are enough for a segment that ends one message,
holds another and begins a third, and two connections for what the first one
leaves. `sntp` has enough requests for two exchanges to use all their attempts
(`MaxSends` is never the reason why one ends), and a limit of requests that one
list meets before its attempts and another does not. The characters of
`consoleinput` are one more than the ring holds, so that it is full and one is
overwritten while the task reads, and as many as a line holds.
Symmetry is used for names (`rtcfifo`), where no temporal property depends on
them. Deadlock is not checked where the bounds stop a model or the system may
simply be at rest.

### Fairness

- `Tmr`: the SDK serves an armed timer in the end (strong fairness, since a
  timer may be rearmed), callbacks return (the hardware watchdog resets the
  chip otherwise), the collector runs.
- `PipeReader`, `Rotary`: task queues are served in order, so a posted task
  runs; for the reader task this is strong fairness because other tasks come
  between.
- `MqttClient`: lookups and TCP end one way or the other, TCP delivers or gives
  up, timers fire, segments are processed, and a broker that is not silent
  answers. The conditions `link = "connecting"` and `wire # <<>>` in `Fairness`
  keep a reset from being forced on a healthy connection.
- `Sntp`: the timer fires, a lookup is answered or fails, posted tasks run;
  nothing is assumed of servers and the network.
- `ConsoleInput`: the interrupt handler ends, the task queue is served, the task
  goes on, callbacks return.
- `MqttReceive` has safety properties only and no fairness.

## 5. Proofs

All proofs are for every value of the constants allowed by the named
assumptions; the bounds of the runs are constants too, so the theorems hold
without a bound on steps. `TmrProofs`, `RotaryProofs` and `PipeReaderProofs`
each extend the two modules of their component, whose specifications have
different names (`Spec` and `ClockSpec`, `ClickSpec`, `BufferSpec`).

| Module | Theorem | Argument |
|---|---|---|
| `TmrProofs` | `TmrInvariant`, `ArmedTimersArePinned`, `ModesMatchTimers` | `Inv`: an SDK timer is armed for a registered timer exactly when that is started, with its interval and mode, in live and pinned memory; a registered timer has its callback. Pinning alone is not inductive: that an expiry may drop the references follows only from the agreement of mode byte and SDK timer. Strays are told from the others by the mode they were armed for, so that no call is excluded. |
| | `TmrImplementsContract` | every step maps to a step of the contract or to a stutter, strays and restarts of the chip included |
| | `WatchdogAlwaysOnTime`, `CounterWrapIsHarmless`, `RoundingNeverAccumulates` | `ClockInv`: the reference point is less than a second and a callback old, so that the unsigned difference of two readings is exact; the seconds counted and those left add up to the timeout. `SecondAssumption`, that a second moves the reference point and that two do not wrap the counter, holds on the chip by orders of magnitude (a tick is about 6 us and the counter has 32 bits). |
| `PipeReaderProofs` | `NoLostWakeUp` | strengthened by the case that the callback runs: it may fail and leave the state word |
| | `SingleReader` | a queued reader has the flag set while the callback does not run; none is queued while it runs. Assumes a callback that does not write. |
| | `ChunksAlwaysInBounds` | within a call only the chunk at the end that is being filled may be empty, and only while bytes are left (`WriteStates`, `UnreadStates`); a round takes a byte at least and never more than the chunk has room for where its bytes lie after the shift (`TailHasRoom`, `HeadHasRoom`) |
| | `BytesImplementQueue` | all chunks within their buffers and none empty (`Sound`); the content of a table is its chunks put together (`Content`), and each round of a loop moves bytes between it and the string: what a write has left behind what the table holds, what an unread has left before it, what a read has taken before it (`ReadSoFar`) together with what is still asked for (`Asked`). A line ends at the first delimiter although it is looked for chunk by chunk. |
| `RtcFifoProofs` | `IndicesNeverLeave`, `TailAlwaysFollows` | an interrupted operation leaves each word old or new, and indices in the ring do not depend on each other. Any location is allowed; of one that does not hold the default head, and after a second prepare() that a reset cut off, nothing is claimed. |
| | `DeltasAlwaysAddUp` | `TimesInv`: head timestamp plus the deltas of all entries is the tail timestamp, and the entries in use hold deltas. Dropping moves a prefix of the sum into the head timestamp, storing appends to it. |
| | `SamplesImplementFifo` | `NamesInv`: every entry in use has the index of a name that is in the table, and the index fits its four bits, so that a name entered later takes no slot an entry refers to. Places behind the head are distinct (`Places`): a store writes none that is in use, and dropping shifts the queue. That a put restarts the FIFO exactly when the contract evicts (`RestartsIs`) needs the clock's range from `TimesInv`. For every location: one that does not hold the default head is an empty queue that is not used until the next prepare(). |
| `RotaryProofs` | `TypesAlwaysOK`, `PreviousAlwaysKept`, `FinalStatusAlwaysDelivered`, `QueuedAlwaysPosted` | one invariant of all four with the shape of the running task: an event taken belongs to an open channel |
| | `PositionAlwaysExact` | `ExactInv`: the position is behind the encoder by the one step whose interrupt is pending at most, so that the two pins tell which step it was |
| | `PressesAlwaysConserved` | `ConservedInv`: the status delivered last stays in the slot before the read offset, and the unread slots after it list the changes that were made, whatever entries were replaced by newer turns |
| | `TimerAlwaysOnTime`, `ReleasesAlwaysCounted`, `DblClickAlwaysDouble`, `LongPressAlwaysLong` | `ClickInv`: the flags of a channel agree with each other (`Agrees`) and with the last three changes of the switch (`Remembers`), and the gestures reported with the releases (`Balanced`). For a long press the switch itself: unless a release waits in the queue, it has been down since the press that was delivered last (`HeldInv`). |
| `MqttClientProofs` | `InFlightAlwaysHead`, `StopAndWait`, `TypesAlwaysOK` | an answer may take the head off the queue while a message is on its way, unless none can be owed then: at most one answer is owed, on its way or being worked on (`Lone`), while there is one the head is sent (`Exchange`), and until TCP has acknowledged CONNECT no broker answers (`Handshake`) |
| | `PublishesAlwaysAccounted` | `LedgerInv`: publications are pending at positions of the queue, which enqueueing and dequeueing move one at a time; a PUBREL in the queue and an answer that is being worked on stand for a message the broker has |
| `MqttReceiveProofs` | `AlwaysReassembled`, `HeapAlwaysAccounted` | what is read, kept or skipped is described by one number, the first byte of the message to be handled next (`place`): while a segment is read its buffer begins there (`ReadingInv`), between segments the copy on the heap runs from there to `got`, or `got` and the bytes to skip add up to it (`WaitingInv`). Neither property is inductive without it. The allocation is limited by `max_message_length` only when the length is known (`BUFFERING`). Assumes that no cut divides a length (`SplitLength = FALSE`); then the bytes at hand tell nothing of a length or all of it (`LengthKnown`, `Undivided`). |
| `ConsoleInputProofs` | `TypeHolds`, `RingIsRight`, `LatchIsRight`, `ChunksAreRight` | one invariant: a character is taken only after a test that found one, and the interrupt handler never empties the ring (`TakeInv`); the two flags differ exactly while a request with the newer one is queued or was refused (`LatchInv`); what has been collected does not yet make a chunk (`ChunkInv`) |
| `SntpProofs` | `OneDriverHolds`, `BestHolds`, `TasksFindState` | while names are looked up no server is being asked (`DriverInv`), and the cookie in use belongs to a request of the present exchange (`RequestInv`): without these an answer could be taken during a lookup, or one of an earlier exchange be the best. That the best answer has the least delay needs that none of stratum 0 was taken. |

Induction over data is done where a loop needs it. The library states it with
an operator as parameter, which the provers cannot instantiate; `CountingUp` of
`RtcFifoProofs` and `CountingTo` of `PipeReaderProofs` state it with a set and
follow from the pigeonhole principle. `RoundsExist` then gives a recursive
function the values that its definition says.

Only model-checked: the liveness properties, for which the provers have no rule
(fairness, ENABLED): `OneShotReclaimed`, `WriteWakesReader`, `EventuallyDrained`,
`EventuallyDelivered`, `ConnectAnswered`, `QueueDrains`, `SilenceNoticed`,
`SyncEnds` and `InputRead`.

## 6. Findings and divergences

One run is expected to fail and stands for the finding in `PROJECT.json`:
`mqttreceive_split`. `mqtt_get_total_length()` tests for an incomplete length with
`i == buffer_length` inside a loop that runs while `i < buffer_length`.

Eleven more configurations have no run of their own and reproduce a
counterexample each (`tlc -config <file> <module>`):

| Configuration, module | Property violated | What the code does |
|---|---|---|
| `Tmr_unregister.cfg`, `MCTmr` | `UnregisterStops` | start(true), or stop() and start(), on an unregistered timer arms it, and unregister() does not disarm a timer whose mode is off (`tmr.c:191`), against `docs/modules/tmr.md:349`; the SDK then has a timer in memory that the collector may free |
| `PipeBuffer_default.cfg`, `MCPipeBuffer` | `UnreadRestores` | read() without an argument strips the delimiter (`pipe.c:128`), so that unread() of the result does not restore the pipe, against `docs/modules/pipe.md:36` (default `"\n+"`) and `:115` |
| `PipeReader_pending.cfg`, `MCPipeReader` | `AtMostOnePending` | when the callback writes, two reader tasks are queued (`pipe.c:177`), against the comment at `pipe.c:27` |
| `RtcFifo_timestamp.cfg`, `MCRtcFifo` | `TimestampsMatch` | the delta of a sample that evicts all others is computed against an evicted one, against `docs/modules/rtcfifo.md:74` |
| `RtcFifo_location.cfg`, `MCRtcFifo` | `IndicesAlwaysInRing` | prepare() with a location that does not hold the default head leaves head and tail outside of it (`rtcfifo.c:47`), and so does a reset in the middle of a second prepare(), which does not clear the magic (`rtcfifo.h:481`), against `docs/modules/rtcfifo.md:103` |
| `RotaryClick_close.cfg`, `RotaryClick` | `TimerHasOwner` | close() frees the memory of an armed timer, against `docs/modules/rotary.md:115` |
| `RotaryClick_overtaken.cfg`, `RotaryClick` | `LongPressIsHeld` | timer or task look at the clock and not at the queue: when they are late, a short press whose release is already queued is reported as long (`rotary.c:314,326`), against `docs/modules/rotary.md:42` |
| `MqttClient_closed.cfg`, `MqttClient` | `ConnectReported` | when the connection is closed before CONNACK only the "offline" callback runs (`mqtt.c:162`), against `docs/modules/mqtt.md:168-172`: the failure callback and nothing else |
| `Sntp_stratum.cfg`, `MCSntp` | `TimeoutIsSilence` | an answer of stratum 0 is taken but counts as none (`sntp.c:232,473`): it is reported as a timeout, against `docs/modules/sntp.md:36`, it replaces a better answer if its delay is less, and any answer replaces it |
| `ConsoleInput_unregister.cfg`, `MCConsoleInput` | `CallbackRegistered` | a callback that unregisters itself is called again, through NULL (`input.c:186`); `docs/modules/uart.md:62` has this very use |
| `ConsoleInput_max.cfg`, `MCConsoleInput` | `EndCharMax` | a callback for an end character gets up to 256 characters, a full buffer (`input.c:183`), against `docs/modules/uart.md:46`: "max n=255" |

Seen while modelling, without a configuration:

- **tmr**: `stop()` on an unregistered timer sets the idle flag, after which
  `state()` is not nil and `start()` arms it; `start()` without it does not arm
  an unregistered timer but keeps it in memory until stop() or unregister();
  `tmr.time()` can go backwards on a recalibration, against the comment in
  `tmr.c` on the accumulated microseconds.
- **pipe**: a callback that returns nil has an empty pipe reposted; a failed
  post leaves the write flag set, so that later writes do not wake the reader.
- **rtcfifo**: a name that encodes to 0 is a free slot; the documentation says
  of an unprepared FIFO that calls do nothing, the code raises an error.
- **rotary**: a channel without a press pin reads as pressed; after a failed
  post turns replace the newest entry and do not post again until the switch is
  pressed; an edge ignored by the debouncing leaves a stale press state; a press
  exactly `click_delay` after a release loses the click; setup() clears a timer
  that may be armed; `rotary.on()` before setup() dereferences NULL.
- **mqtt**: the "offline" callback also runs for connections that were never
  established, and "connfail" for the reset of an established one, against
  `docs/modules/mqtt.md`; a keepalive timer that fires while an answer is
  awaited is not started again; a refused `espconn_send()` leaves `sending` set
  until the connection ends; messages in the segment of the CONNACK are skipped;
  close() before TCP is up does nothing; a second connect() during a lookup uses
  a freed control block (not modelled); a CONNACK in two segments is read past
  the first one; a message with QoS whose id is not there yet is copied to the
  heap even when it is longer than `max_message_length`, against
  `docs/modules/mqtt.md:44`; an allocation that fails for the rest of a joined
  segment leaks the joined one.
- **sntp**: the cookie stays valid after an answer, so that a duplicate of the
  last one, or one that races the timeout, posts the end twice: the second task
  finds a null state or ends a newer exchange; a refused post leaves the
  exchange for ever and every later sync() is refused, as it is after sync({})
  or an argument of a wrong type, whose Lua error leaves the state set; when the
  servers of the last call are used again, `luaL_ref` takes the autorepeat
  argument off the stack; autorepeat after a lookup that failed at once
  dereferences NULL; sync() during an exchange is refused but cancels the
  repetition, and with a name that is too long it also forgets the last servers;
  a repetition that gets no UDP port keeps its state; the bonus of a quarter for
  the last best server never applies; a second DENY of a server may be a
  duplicate of the first.
- **console**: a new registration keeps the partial line of the old one; the
  tail of a line that is too long is executed although the comment says that it
  is discarded; a refused post of the interrupt handler stops all input, since
  the latch has already been turned.
- **timer suspension** (read, not modelled): a timer that is resumed into an
  empty SDK list, or whose expiry equals that of another but the first, is not
  inserted (`swtimer.c:293`).

## 7. Not modelled

Out of the RTC FIFO: what put(), pop() and drop() do with indices outside the
ring. Out of the MQTT client: TLS, connect() during an attempt, collection of the
client, lack of memory outside the reassembly; the composition of `MqttReceive`
with `MqttClient`, whose state spaces multiply while they share only the order
of messages. Out of the SNTP client: the arithmetic on timestamps, leap seconds
and the clock rate. Out of the console: echo, prompt and baud rates. Out of the
others: formatting of values, wording of errors, debug output. Whole components
without a module are listed in `PROJECT.json` with their reasons: vendored code
(Lua VM, lwIP, mbedTLS, SPIFFS, FatFs), wrappers of the closed SDK, drivers that
are sequences of register accesses, and pure functions on strings.
