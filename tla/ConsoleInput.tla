--------------------------- MODULE ConsoleInput ---------------------------
(***************************************************************************)
(* Input from UART 0: the receive ring that the interrupt handler of       *)
(* app/driver/uart.c fills, the latch by which it asks for a task, and     *)
(* input_readline() of app/driver/input.c, which empties the ring and      *)
(* makes lines for Lua or chunks for the callback of uart.on().            *)
(*                                                                         *)
(* The interrupt handler comes between any two steps of the task: between  *)
(* the test for an empty ring and the read, between the last test and the  *)
(* end of the task.  The callback may call uart.on() itself.               *)
(***************************************************************************)
EXTENDS Integers, Sequences

CONSTANTS
  RX_BUFF_SIZE,   \* the ring has one position more than this
  MaxInput,       \* LUA_MAXINPUT, the size of ins.data
  QueueLen,       \* TASK_DEFAULT_QUEUE_LEN
  Registrations,  \* the arguments of input_setup_receive() that uart.on() may give
  MayUnregister,  \* may a callback for chunks unregister itself?
  MaxChars        \* bound: characters received

Char == {"a", "CR", "LF", "BS"}

\* A task of another component in the queue.
Other == 2

\* Arguments of input_setup_receive(); uart.on() without a function gives Off.
Registration == [uart_cb : BOOLEAN, data_len : Int,
                 end_char : Char \cup {"NUL"}, run_input : BOOLEAN]

Off == [uart_cb |-> FALSE, data_len |-> 0, end_char |-> "NUL", run_input |-> TRUE]

ASSUME SizeAssumption ==
  /\ RX_BUFF_SIZE \in Nat \ {0}
  /\ MaxInput \in Nat \ {0, 1}
  /\ QueueLen \in Nat \ {0}
  /\ MaxChars \in Nat
  /\ MayUnregister \in BOOLEAN

ASSUME RegistrationAssumption ==
  /\ Registrations \subseteq Registration
  /\ \A reg \in Registrations : reg.data_len < MaxInput /\ (~reg.uart_cb => reg = Off)

VARIABLES
  buf, pWritePos, pReadPos,  \* UartDev.rcv_buff
  got_input,       \* the interrupt handler runs and has stored a character
  isr_flag,        \* the parameter of its last post
  input_sig_flag,  \* the parameter of the last task that ran
  queue,           \* tasks of high priority: parameters of input_handler(), Other
  ins,             \* what input_setup_receive() has set
  line,            \* ins.data up to ins.line_pos
  last_char,
  task,            \* branch of input_readline() that runs, or "none"
  at,              \* where in it
  chunk,           \* what the callback that runs was given
  count,           \* number of characters received, for the bound
  newest,          \* history: the last characters received, as many as the ring holds
  skipped,         \* history: characters were passed over since the last one taken
  failed,          \* history: a post was refused
  stale            \* history: uart.on() came in the middle of a line or a callback

ring == <<buf, pWritePos, pReadPos, count, newest, skipped>>
latch == <<isr_flag, input_sig_flag, queue, failed>>
vars == <<buf, pWritePos, pReadPos, got_input, isr_flag, input_sig_flag, queue,
          ins, line, last_char, task, at, chunk, count, newest, skipped, failed, stale>>

-----------------------------------------------------------------------------
(* The ring. *)

NextPos(p) == IF p = RX_BUFF_SIZE THEN 0 ELSE p + 1

Used == (pWritePos - pReadPos) % (RX_BUFF_SIZE + 1)

Unread == [i \in 1..Used |-> buf[(pReadPos + i - 1) % (RX_BUFF_SIZE + 1)]]

\* Fault model: a full ring looks empty.
PushedNever(w) == pReadPos

\* The read position after a character was stored: moved when the ring is full.
Pushed(w) == IF w = pReadPos THEN NextPos(pReadPos) ELSE pReadPos

-----------------------------------------------------------------------------
(* input_setup(), and what the interrupt handler does. *)

Init ==
  /\ buf = [p \in 0..RX_BUFF_SIZE |-> "NUL"]
  /\ pWritePos = 0
  /\ pReadPos = 0
  /\ got_input = FALSE
  /\ isr_flag = 0
  /\ input_sig_flag = 0
  /\ queue = <<>>
  /\ ins = Off
  /\ line = <<>>
  /\ last_char = "NUL"
  /\ task = "none"
  /\ at = "look"
  /\ chunk = <<>>
  /\ count = 0
  /\ newest = <<>>
  /\ skipped = FALSE
  /\ failed = FALSE
  /\ stale = FALSE

\* uart0_rx_intr_handler(), a turn of its loop.
rx_store(c) ==
  /\ count < MaxChars
  /\ buf' = [buf EXCEPT ![pWritePos] = c]
  /\ pWritePos' = NextPos(pWritePos)
  /\ pReadPos' = Pushed(NextPos(pWritePos))
  /\ got_input' = TRUE
  /\ count' = count + 1
  /\ newest' = Append(IF Len(newest) = RX_BUFF_SIZE THEN Tail(newest) ELSE newest, c)
  /\ skipped' = (skipped \/ NextPos(pWritePos) = pReadPos)
  /\ UNCHANGED <<latch, ins, line, last_char, task, at, chunk, stale>>

\* The last post has been answered.
MayPost == isr_flag = input_sig_flag

\* uart0_rx_intr_handler(), its end: the flag changes even if the post fails.
rx_signal ==
  /\ got_input
  /\ got_input' = FALSE
  /\ IF MayPost
     THEN /\ isr_flag' = 1 - isr_flag
          /\ IF Len(queue) < QueueLen
             THEN queue' = Append(queue, 1 - isr_flag) /\ UNCHANGED failed
             ELSE failed' = TRUE /\ UNCHANGED queue
     ELSE UNCHANGED <<isr_flag, queue, failed>>
  /\ UNCHANGED <<ring, input_sig_flag, ins, line, last_char, task, at, chunk, stale>>

-----------------------------------------------------------------------------
(* input_handler(). The interrupt handler is not interrupted by tasks. *)

\* The branch of input_readline() for the present registration. Without a
\* callback run_input is set: the branch that discards input is never taken.
Branch(reg) ==
  IF reg.run_input THEN "interactive"
  ELSE IF reg.data_len = 0 THEN "each" ELSE "collect"

\* Fault model: the flag of the task is not taken over.
input_handler_unlatched ==
  /\ ~got_input /\ task = "none"
  /\ queue # <<>> /\ Head(queue) # Other
  /\ queue' = Tail(queue)
  /\ task' = Branch(ins)
  /\ at' = "look"
  /\ UNCHANGED <<ring, got_input, isr_flag, input_sig_flag, failed, ins, line, last_char, chunk, stale>>

input_handler ==
  /\ ~got_input /\ task = "none"
  /\ queue # <<>> /\ Head(queue) # Other
  /\ queue' = Tail(queue)
  /\ input_sig_flag' = Head(queue)
  /\ task' = Branch(ins)
  /\ at' = "look"
  /\ UNCHANGED <<ring, got_input, isr_flag, failed, ins, line, last_char, chunk, stale>>

OtherTask ==
  /\ ~got_input /\ task = "none"
  /\ queue # <<>> /\ Head(queue) = Other
  /\ queue' = Tail(queue)
  /\ UNCHANGED <<ring, got_input, isr_flag, input_sig_flag, failed, ins, line, last_char, task, at, chunk, stale>>

OtherPosted ==
  /\ Len(queue) < QueueLen
  /\ queue' = Append(queue, Other)
  /\ UNCHANGED <<ring, got_input, isr_flag, input_sig_flag, failed, ins, line, last_char, task, at, chunk, stale>>

\* uart_getc(), the test outside the lock. All loops end at an empty ring, and
\* with them the task.
uart_getc_test ==
  /\ ~got_input /\ task # "none" /\ at = "look"
  /\ IF pWritePos = pReadPos
     THEN /\ task' = "none"
          /\ stale' = (stale /\ line # <<>>)
          /\ UNCHANGED at
     ELSE at' = "take" /\ UNCHANGED <<task, stale>>
  /\ UNCHANGED <<ring, latch, got_input, ins, line, last_char, chunk>>

\* uart_getc(), the read under the lock.
Getc(c) ==
  /\ ~got_input /\ task # "none" /\ at = "take"
  /\ c = buf[pReadPos]
  /\ pReadPos' = NextPos(pReadPos)
  /\ skipped' = FALSE
  /\ UNCHANGED <<buf, pWritePos, count, newest, latch, got_input, ins, stale>>

IsEol(c) == c \in {"CR", "LF"}

\* The second character of a line end of two.
IsPair(c) == IsEol(c) /\ IsEol(last_char) /\ c # last_char

\* Fault model: the second character is left in the ring.
Pair_stuck(c) ==
  /\ task = "interactive" /\ IsPair(c)
  /\ ~got_input /\ at = "take"
  /\ c = buf[pReadPos]
  /\ at' = "look"
  /\ UNCHANGED <<ring, latch, got_input, ins, stale, last_char, line, task, chunk>>

Pair(c) ==
  /\ task = "interactive" /\ IsPair(c)
  /\ Getc(c)
  /\ last_char' = "NUL"
  /\ at' = "look"
  /\ UNCHANGED <<line, task, chunk>>

Backspace(c) ==
  /\ task = "interactive" /\ c = "BS"
  /\ Getc(c)
  /\ line' = IF line = <<>> THEN <<>> ELSE SubSeq(line, 1, Len(line) - 1)
  /\ last_char' = "NUL"
  /\ at' = "look"
  /\ UNCHANGED <<task, chunk>>

\* After the callback for a line: a line that is not empty goes to Lua, and
\* input_readline() is called anew.
LineDone ==
  /\ line' = <<>>
  /\ task' = IF line = <<>> THEN task ELSE Branch(ins)
  /\ at' = "look"

EndOfLine(c) ==
  /\ task = "interactive" /\ IsEol(c) /\ ~IsPair(c)
  /\ Getc(c)
  /\ last_char' = c
  /\ IF ins.uart_cb
     THEN at' = "call" /\ chunk' = line /\ UNCHANGED <<line, task>>
     ELSE LineDone /\ UNCHANGED chunk

\* A line that is too long: what there is of it is dropped.
Ordinary(c) ==
  /\ task = "interactive" /\ c = "a"
  /\ Getc(c)
  /\ last_char' = c
  /\ line' = Append(IF Len(line) + 1 >= MaxInput THEN <<>> ELSE line, c)
  /\ at' = "look"
  /\ UNCHANGED <<task, chunk>>

\* ins.uart_cb(): a call through a null pointer if there is none.
Callback(s) ==
  /\ at' = IF ins.uart_cb THEN "call" ELSE "crash"
  /\ chunk' = s

EachChar(c) ==
  /\ task = "each"
  /\ Getc(c)
  /\ Callback(<<c>>)
  /\ UNCHANGED <<line, last_char, task>>

\* Fault model: one character too many.
Complete_late(s, c) ==
  \/ Len(s) >= MaxInput
  \/ ins.data_len >= 0 /\ Len(s) > ins.data_len
  \/ ins.data_len < 0 /\ c = ins.end_char

Complete(s, c) ==
  \/ Len(s) >= MaxInput
  \/ ins.data_len >= 0 /\ Len(s) >= ins.data_len
  \/ ins.data_len < 0 /\ c = ins.end_char

Collect(c) ==
  /\ task = "collect"
  /\ Getc(c)
  /\ line' = Append(line, c)
  /\ IF Complete(line', c)
     THEN Callback(line')
     ELSE at' = "look" /\ UNCHANGED chunk
  /\ UNCHANGED <<last_char, task>>

\* The callback returns to the branch that called it, whatever is registered now.
CallbackReturns ==
  /\ ~got_input /\ at = "call"
  /\ \/ task = "interactive" /\ LineDone
     \/ task = "each" /\ at' = "look" /\ UNCHANGED <<line, task>>
     \/ task = "collect" /\ line' = <<>> /\ at' = "look" /\ UNCHANGED task
  /\ chunk' = <<>>
  /\ UNCHANGED <<ring, latch, got_input, ins, last_char, stale>>

\* uart.on("data", ...), called by the callback or by some other Lua code. The
\* line so far stays where it is.
l_uart_on(reg) ==
  /\ ~got_input
  /\ task = "none" \/ at = "call"
  /\ task \in {"each", "collect"} /\ ~reg.uart_cb => MayUnregister
  /\ ins' = reg
  /\ stale' = (stale \/ task # "none" \/ line # <<>>)
  /\ UNCHANGED <<ring, latch, got_input, line, last_char, task, at, chunk>>

-----------------------------------------------------------------------------
TakeChar(c) ==
  Pair(c) \/ Backspace(c) \/ EndOfLine(c) \/ Ordinary(c) \/ EachChar(c) \/ Collect(c)

Next ==
  \/ \E c \in Char : rx_store(c) \/ TakeChar(c)
  \/ rx_signal \/ input_handler \/ OtherTask \/ OtherPosted
  \/ uart_getc_test \/ CallbackReturns
  \/ \E reg \in Registrations : l_uart_on(reg)

\* Interrupt handlers end, tasks run and callbacks return.
Fairness ==
  /\ WF_vars(rx_signal)
  /\ WF_vars(input_handler \/ OtherTask)
  /\ WF_vars(uart_getc_test)
  /\ WF_vars(\E c \in Char : TakeChar(c))
  /\ WF_vars(CallbackReturns)

Spec == Init /\ [][Next]_vars /\ Fairness

-----------------------------------------------------------------------------
(* Properties. *)

\* Every variable has its type; a line never outgrows ins.data, whatever the
\* mode it was begun in.
TypeOK ==
  /\ buf \in [0..RX_BUFF_SIZE -> Char \cup {"NUL"}]
  /\ pWritePos \in 0..RX_BUFF_SIZE
  /\ pReadPos \in 0..RX_BUFF_SIZE
  /\ got_input \in BOOLEAN
  /\ isr_flag \in {0, 1}
  /\ input_sig_flag \in {0, 1}
  /\ queue \in Seq({0, 1, Other}) /\ Len(queue) <= QueueLen
  /\ ins \in Registration
  /\ line \in Seq(Char) /\ Len(line) <= MaxInput
  /\ last_char \in Char \cup {"NUL"}
  /\ task \in {"none", "interactive", "each", "collect"}
  /\ at \in {"look", "take", "call", "crash"}
  /\ chunk \in Seq(Char)
  /\ count \in Nat
  /\ newest \in Seq(Char) /\ Len(newest) <= RX_BUFF_SIZE
  /\ skipped \in BOOLEAN
  /\ failed \in BOOLEAN
  /\ stale \in BOOLEAN

\* The ring holds the newest characters in the order of their arrival, and
\* characters are passed over only while it is full: the interrupt handler may
\* move the read position between the task's test and its read.
RingHoldsNewest ==
  /\ Used <= Len(newest)
  /\ \A i \in 1..Used : Unread[i] = newest[Len(newest) - Used + i]
  /\ skipped => Used = RX_BUFF_SIZE

\* Requests of the interrupt handler for a task.
Requests == {i \in DOMAIN queue : queue[i] # Other}

\* No lost wake-up: what is in the ring has a task that runs or will run, or
\* an interrupt that is about to ask for one. The exception is a post that was
\* refused, after which the latch never opens again.
InputSignalled ==
  pWritePos # pReadPos => got_input \/ task # "none" \/ Requests # {} \/ failed

\* The purpose of the latch: the interrupt handler has at most one request in
\* the queue, and asks for none while one is there.
OneRequestQueued ==
  \A i, j \in Requests : i = j

\* The latch between interrupt handler and task loses no request and makes no
\* second one.
LatchHolds == InputSignalled /\ OneRequestQueued

\* A callback for chunks gets what uart.on() asked for: single characters, the
\* given number, or everything up to the end character, LUA_MAXINPUT characters
\* at most: input.c hands over a full buffer, one character more than the 255
\* of docs/modules/uart.md (see EndCharMax). The exception is a registration in
\* the middle of a line or a callback.
ChunkAsAsked ==
  (at = "call" /\ task \in {"each", "collect"} /\ ~stale) =>
    IF ins.data_len >= 0
    THEN Len(chunk) = IF ins.data_len = 0 THEN 1 ELSE ins.data_len
    ELSE /\ chunk[Len(chunk)] = ins.end_char \/ Len(chunk) = MaxInput
         /\ \A i \in 1..(Len(chunk) - 1) : chunk[i] # ins.end_char

\* Input is read in the end, unless a post was refused.
InputRead == pWritePos # pReadPos ~> (pWritePos = pReadPos \/ failed)

\* docs/modules/uart.md: with an end character the callback is called when that
\* is encountered, "or max n=255 received", one less than LUA_MAXINPUT.
EndCharMax ==
  (at = "call" /\ task = "collect" /\ ~stale /\ ins.data_len < 0) => Len(chunk) < MaxInput

\* docs/modules/uart.md: a callback may unregister itself. The handler must
\* then not call it for the characters that are still in the ring.
CallbackRegistered == at # "crash"
=============================================================================
