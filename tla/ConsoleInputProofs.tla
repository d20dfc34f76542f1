------------------------ MODULE ConsoleInputProofs ------------------------
(***************************************************************************)
(* Proofs about ConsoleInput, for a ring, a line buffer and a task queue   *)
(* of any size, any registrations and any number of characters.            *)
(***************************************************************************)
EXTENDS ConsoleInput, SequenceTheorems, TLAPS

\* A character is taken only after a test that found one: the interrupt handler
\* may have moved the read position since, but never empties the ring.
TakeInv == at = "take" => task # "none" /\ pWritePos # pReadPos

\* The line has room but while the callback has it.
RoomInv == Len(line) = MaxInput => task = "collect" /\ at \in {"call", "crash"}

\* The flag of the interrupt handler differs from that of the task exactly while
\* a request is on its way, which carries it, or was refused.
LatchInv ==
  /\ isr_flag = input_sig_flag => Requests = {}
  /\ isr_flag # input_sig_flag => Requests # {} \/ failed
  /\ \A i \in Requests : queue[i] = isr_flag
  /\ OneRequestQueued
  /\ pWritePos # pReadPos => got_input \/ task # "none" \/ isr_flag # input_sig_flag

\* What has been collected of a chunk does not yet make one.
Begun(s) ==
  IF ins.data_len >= 0 THEN Len(s) < ins.data_len
  ELSE \A i \in 1..Len(s) : s[i] # ins.end_char

\* What a callback for chunks may be given.
Asked(s) ==
  IF ins.data_len >= 0
  THEN Len(s) = IF ins.data_len = 0 THEN 1 ELSE ins.data_len
  ELSE /\ s[Len(s)] = ins.end_char \/ Len(s) = MaxInput
       /\ \A i \in 1..(Len(s) - 1) : s[i] # ins.end_char

\* Unless a registration came in between, the branch that runs is the one of the
\* registration, and the line and the chunk are as it asks.
ChunkInv ==
  /\ ins.data_len < MaxInput
  /\ ~stale /\ task # "none" => task = Branch(ins)
  /\ ~stale /\ Branch(ins) = "collect" /\ at # "call" /\ at # "crash" => Begun(line)
  /\ ~stale /\ at = "call" /\ task \in {"each", "collect"} => Asked(chunk)
  /\ at \in {"call", "crash"} => task # "none"

IInv ==
  /\ TypeOK /\ RoomInv
  /\ RingHoldsNewest /\ TakeInv
  /\ LatchInv
  /\ ChunkInv

-----------------------------------------------------------------------------
(* The ring. *)

\* Remainders of what is at most one turn of the ring away.
LEMMA Wrap ==
  ASSUME NEW n \in Nat \ {0}, NEW x \in 0..(n - 1)
  PROVE  x % n = x /\ (x + n) % n = x /\ (x - n) % n = x
<1>1. x % n = x OBVIOUS
<1>2. (x + n) % n = x OBVIOUS
<1>3. (x - n) % n = x OBVIOUS
<1> QED BY <1>1, <1>2, <1>3

\* Positions are counted from the read position, without remainders.
Ahead(r, k) == IF r + k <= RX_BUFF_SIZE THEN r + k ELSE r + k - (RX_BUFF_SIZE + 1)
Gap(w, r) == IF r <= w THEN w - r ELSE w - r + (RX_BUFF_SIZE + 1)

\* The remainders of Used and Unread.
LEMMA RingPositions ==
  ASSUME NEW w \in 0..RX_BUFF_SIZE, NEW r \in 0..RX_BUFF_SIZE
  PROVE  /\ (w - r) % (RX_BUFF_SIZE + 1) = Gap(w, r) /\ Gap(w, r) \in 0..RX_BUFF_SIZE
         /\ \A i \in 1..Gap(w, r) : (r + i - 1) % (RX_BUFF_SIZE + 1) = Ahead(r, i - 1)
<1> DEFINE N == RX_BUFF_SIZE + 1
<1>0. RX_BUFF_SIZE \in Nat /\ N \in Nat \ {0} BY SizeAssumption
<1>1. (w - r) % N = Gap(w, r)
  <2>1. CASE r <= w
    <3>1. w - r \in 0..(N - 1) BY <2>1, <1>0
    <3>2. (w - r) % N = w - r BY <3>1, <1>0, Wrap
    <3> QED BY <3>2, <2>1 DEF Gap
  <2>2. CASE ~(r <= w)
    <3> DEFINE x == w - r + N
    <3>1. x \in 0..(N - 1) /\ x - N = w - r BY <2>2, <1>0
    <3>2. Gap(w, r) = x BY <2>2 DEF Gap
    <3> HIDE DEF x, N
    <3>3. (x - N) % N = x BY <3>1, <1>0, Wrap
    <3> QED BY <3>1, <3>2, <3>3
  <2> QED BY <2>1, <2>2
<1>2. Gap(w, r) \in 0..RX_BUFF_SIZE BY <1>0 DEF Gap
<1>3. ASSUME NEW i \in 1..Gap(w, r) PROVE (r + i - 1) % N = Ahead(r, i - 1)
  <2> DEFINE y == r + i - 1
  <2>1. y \in Int /\ y >= 0 /\ y < N + N /\ y = r + (i - 1) BY <1>0, <1>2
  <2>2. CASE y < N
    <3>1. y \in 0..(N - 1) BY <2>1, <2>2, <1>0
    <3>2. Ahead(r, i - 1) = y BY <2>1, <2>2, <1>0 DEF Ahead
    <3> HIDE DEF y, N
    <3>3. y % N = y BY <3>1, <1>0, Wrap
    <3> QED BY <3>2, <3>3 DEF y
  <2>3. CASE ~(y < N)
    <3> DEFINE x == y - N
    <3>1. x \in 0..(N - 1) /\ x + N = y BY <2>1, <2>3, <1>0
    <3>2. Ahead(r, i - 1) = x BY <2>1, <2>3, <1>0 DEF Ahead
    <3> HIDE DEF x, y, N
    <3>3. (x + N) % N = x BY <3>1, <1>0, Wrap
    <3> QED BY <3>1, <3>2, <3>3 DEF y
  <2> QED BY <2>2, <2>3
<1> QED BY <1>1, <1>2, <1>3

\* RingHoldsNewest for given positions, without remainders.
Holds(b, w, r, last, sk) ==
  /\ Gap(w, r) <= Len(last)
  /\ \A i \in 1..Gap(w, r) : b[Ahead(r, i - 1)] = last[Len(last) - Gap(w, r) + i]
  /\ sk => Gap(w, r) = RX_BUFF_SIZE

\* It is RingHoldsNewest, before and after a step.
LEMMA HoldsNow ==
  ASSUME pWritePos \in 0..RX_BUFF_SIZE, pReadPos \in 0..RX_BUFF_SIZE
  PROVE  RingHoldsNewest <=> Holds(buf, pWritePos, pReadPos, newest, skipped)
<1>1. Used = Gap(pWritePos, pReadPos) BY RingPositions DEF Used
<1>2. \A i \in 1..Used : Unread[i] = buf[Ahead(pReadPos, i - 1)]
  BY <1>1, RingPositions DEF Unread
<1> QED BY <1>1, <1>2 DEF RingHoldsNewest, Holds

\* The same of the next state.
LEMMA HoldsNext ==
  ASSUME pWritePos' \in 0..RX_BUFF_SIZE, pReadPos' \in 0..RX_BUFF_SIZE
  PROVE  RingHoldsNewest' <=> Holds(buf', pWritePos', pReadPos', newest', skipped')
<1>1. Used' = Gap(pWritePos', pReadPos') BY RingPositions DEF Used
<1>2. \A i \in 1..Used' : Unread'[i] = buf'[Ahead(pReadPos', i - 1)]
  BY <1>1, RingPositions DEF Unread, Used
<1> QED BY <1>1, <1>2 DEF RingHoldsNewest, Holds

-----------------------------------------------------------------------------
(* Types. *)

\* NextPos stays in the ring.
LEMMA NextPosType == \A x \in 0..RX_BUFF_SIZE : NextPos(x) \in 0..RX_BUFF_SIZE
BY SizeAssumption DEF NextPos

\* What taking a character leaves as it is, or types.
LEMMA GetcTypes ==
  ASSUME TypeOK, NEW c \in Char, Getc(c)
  PROVE  /\ buf' \in [0..RX_BUFF_SIZE -> Char \cup {"NUL"}]
         /\ pWritePos' \in 0..RX_BUFF_SIZE /\ pReadPos' \in 0..RX_BUFF_SIZE
         /\ got_input' \in BOOLEAN /\ isr_flag' \in {0, 1} /\ input_sig_flag' \in {0, 1}
         /\ queue' \in Seq({0, 1, Other}) /\ Len(queue') <= QueueLen
         /\ ins' \in Registration /\ count' \in Nat
         /\ newest' \in Seq(Char) /\ Len(newest') <= RX_BUFF_SIZE
         /\ skipped' \in BOOLEAN /\ failed' \in BOOLEAN /\ stale' \in BOOLEAN
<1>1. UNCHANGED <<buf, pWritePos, count, newest, isr_flag, input_sig_flag, queue, failed, got_input, ins, stale>>
  BY DEF Getc, latch
<1>2. pReadPos' \in 0..RX_BUFF_SIZE /\ skipped' \in BOOLEAN BY NextPosType DEF Getc, TypeOK
<1> QED BY <1>1, <1>2 DEF TypeOK

\* Every step keeps the types, and room in the line while it is added to.
LEMMA TypeStep == ASSUME TypeOK, RoomInv, [Next]_vars PROVE TypeOK' /\ RoomInv'
<1> USE SizeAssumption
<1>0. line \in Seq(Char) /\ Len(line) \in Nat /\ Len(line) <= MaxInput /\ MaxInput \in Nat
  BY DEF TypeOK
<1>1. ASSUME NEW c \in Char, rx_store(c) PROVE TypeOK' /\ RoomInv'
  <2>1. /\ pWritePos' \in 0..RX_BUFF_SIZE /\ pReadPos' \in 0..RX_BUFF_SIZE
    BY <1>1, NextPosType DEF rx_store, Pushed, TypeOK
  <2>2. buf' \in [0..RX_BUFF_SIZE -> Char \cup {"NUL"}] BY <1>1 DEF rx_store, TypeOK
  <2>3. newest' \in Seq(Char) /\ Len(newest') <= RX_BUFF_SIZE
    <3>1. newest \in Seq(Char) /\ Len(newest) <= RX_BUFF_SIZE BY DEF TypeOK
    <3>2. CASE Len(newest) = RX_BUFF_SIZE
      <4>1. newest # <<>> BY <3>2
      <4>2. newest' = Append(Tail(newest), c) BY <1>1, <3>2 DEF rx_store
      <4> QED BY <3>1, <3>2, <4>1, <4>2
    <3>3. CASE Len(newest) # RX_BUFF_SIZE
      <4>1. newest' = Append(newest, c) BY <1>1, <3>3 DEF rx_store
      <4> QED BY <3>1, <3>3, <4>1
    <3> QED BY <3>2, <3>3
  <2>4. got_input' \in BOOLEAN /\ skipped' \in BOOLEAN /\ count' \in Nat
    BY <1>1 DEF rx_store, TypeOK
  <2>5. UNCHANGED <<isr_flag, input_sig_flag, queue, failed, ins, line, last_char, task, at, chunk, stale>>
    BY <1>1 DEF rx_store, latch
  <2> QED BY <2>1, <2>2, <2>3, <2>4, <2>5 DEF TypeOK, RoomInv
<1>2. CASE rx_signal
  <2>1. UNCHANGED <<buf, pWritePos, pReadPos, count, newest, skipped, input_sig_flag, ins, line,
                    last_char, task, at, chunk, stale>> /\ got_input' \in BOOLEAN
    BY <1>2 DEF rx_signal, ring
  <2>2. isr_flag' \in {0, 1} /\ failed' \in BOOLEAN
    <3>1. isr_flag' = 1 - isr_flag \/ isr_flag' = isr_flag BY <1>2 DEF rx_signal
    <3>2. failed' = TRUE \/ failed' = failed BY <1>2 DEF rx_signal
    <3>3. isr_flag' \in {0, 1} BY <3>1 DEF TypeOK
    <3>4. failed' \in BOOLEAN BY <3>2 DEF TypeOK
    <3> QED BY <3>3, <3>4
  <2>3. queue' \in Seq({0, 1, Other}) /\ Len(queue') <= QueueLen
    <3>1. queue \in Seq({0, 1, Other}) /\ Len(queue) <= QueueLen BY DEF TypeOK
    <3>2. 1 - isr_flag \in {0, 1, Other} BY DEF TypeOK
    <3>3. queue' = queue \/ (Len(queue) < QueueLen /\ queue' = Append(queue, 1 - isr_flag))
      BY <1>2 DEF rx_signal
    <3> QED BY <3>1, <3>2, <3>3
  <2> QED BY <2>1, <2>2, <2>3 DEF TypeOK, RoomInv
<1>3. CASE input_handler
  <2>1. UNCHANGED <<buf, pWritePos, pReadPos, count, newest, skipped, got_input, isr_flag, failed,
                    ins, line, last_char, chunk, stale>>
    BY <1>3 DEF input_handler, ring
  <2>2. queue' \in Seq({0, 1, Other}) /\ Len(queue') <= QueueLen /\ input_sig_flag' \in {0, 1}
    <3>1. queue \in Seq({0, 1, Other}) /\ Len(queue) <= QueueLen /\ queue # <<>> BY <1>3 DEF TypeOK, input_handler
    <3>2. Head(queue) \in {0, 1, Other} /\ Head(queue) # Other BY <3>1, <1>3 DEF input_handler
    <3>3. queue' = Tail(queue) /\ input_sig_flag' = Head(queue) BY <1>3 DEF input_handler
    <3> QED BY <3>1, <3>2, <3>3
  <2>3. task' \in {"interactive", "each", "collect"} /\ at' = "look" BY <1>3 DEF input_handler, Branch
  <2>4. task = "none" BY <1>3 DEF input_handler
  <2> QED BY <2>1, <2>2, <2>3, <2>4 DEF TypeOK, RoomInv
<1>4. CASE OtherTask
  <2>1. UNCHANGED <<buf, pWritePos, pReadPos, count, newest, skipped, got_input, isr_flag, input_sig_flag,
                    failed, ins, line, last_char, task, at, chunk, stale>>
    BY <1>4 DEF OtherTask, ring
  <2>2. queue' \in Seq({0, 1, Other}) /\ Len(queue') <= QueueLen
    BY <1>4 DEF OtherTask, TypeOK
  <2> QED BY <2>1, <2>2 DEF TypeOK, RoomInv
<1>5. CASE OtherPosted
  <2>1. UNCHANGED <<buf, pWritePos, pReadPos, count, newest, skipped, got_input, isr_flag, input_sig_flag,
                    failed, ins, line, last_char, task, at, chunk, stale>>
    BY <1>5 DEF OtherPosted, ring
  <2>2. queue' \in Seq({0, 1, Other}) /\ Len(queue') <= QueueLen
    <3>1. queue \in Seq({0, 1, Other}) /\ Other \in {0, 1, Other} BY DEF TypeOK
    <3> QED BY <3>1, <1>5 DEF OtherPosted
  <2> QED BY <2>1, <2>2 DEF TypeOK, RoomInv
<1>6. CASE uart_getc_test
  <2>1. UNCHANGED <<buf, pWritePos, pReadPos, count, newest, skipped, isr_flag, input_sig_flag, queue,
                    failed, got_input, ins, line, last_char, chunk>>
    BY <1>6 DEF uart_getc_test, ring, latch
  <2>2. task' \in {"none", task} /\ at' \in {"look", "take"} /\ at = "look"
    BY <1>6 DEF uart_getc_test
  <2>3. stale' \in BOOLEAN BY <1>6 DEF uart_getc_test, TypeOK
  <2> QED BY <2>1, <2>2, <2>3 DEF TypeOK, RoomInv
<1>7. CASE CallbackReturns
  <2>1. UNCHANGED <<buf, pWritePos, pReadPos, count, newest, skipped, isr_flag, input_sig_flag, queue,
                    failed, got_input, ins, last_char, stale>> /\ chunk' = <<>>
    BY <1>7 DEF CallbackReturns, ring, latch
  <2>2. line' \in {<<>>, line} /\ (line' = line => line = <<>> \/ task = "each") /\ at' = "look"
    BY <1>7 DEF CallbackReturns, LineDone
  <2>3. task' \in {"interactive", "each", "collect"}
    BY <1>7 DEF CallbackReturns, LineDone, Branch
  <2>4. <<>> \in Seq(Char) /\ Len(<<>>) = 0 OBVIOUS
  <2>5. line' \in Seq(Char) /\ Len(line') < MaxInput
    <3>1. CASE line' = <<>> BY <3>1, <2>4
    <3>2. CASE line' = line /\ task = "each" BY <3>2, <1>0 DEF RoomInv
    <3> QED BY <3>1, <3>2, <2>2
  <2> QED BY <2>1, <2>2, <2>3, <2>4, <2>5, <1>0 DEF TypeOK, RoomInv
<1>8. ASSUME NEW reg \in Registrations, l_uart_on(reg) PROVE TypeOK' /\ RoomInv'
  <2>1. UNCHANGED <<buf, pWritePos, pReadPos, count, newest, skipped, isr_flag, input_sig_flag, queue,
                    failed, got_input, line, last_char, task, at, chunk>>
    BY <1>8 DEF l_uart_on, ring, latch
  <2>2. ins' \in Registration BY <1>8, RegistrationAssumption DEF l_uart_on
  <2>3. stale' \in BOOLEAN BY <1>8 DEF l_uart_on, TypeOK
  <2> QED BY <2>1, <2>2, <2>3 DEF TypeOK, RoomInv
<1>9. ASSUME NEW c \in Char, TakeChar(c) PROVE TypeOK' /\ RoomInv'
  <2>1. Getc(c) BY <1>9 DEF TakeChar, Pair, Backspace, EndOfLine, Ordinary, EachChar, Collect
  <2>2. at = "take" /\ task # "none" BY <2>1 DEF Getc
  <2>3. Len(line) < MaxInput BY <2>2, <1>0 DEF RoomInv
  <2>4. <<>> \in Seq(Char) /\ Len(<<>>) = 0 OBVIOUS
  <2>5. /\ line' \in Seq(Char) /\ Len(line') <= MaxInput
        /\ Len(line') = MaxInput => task' = "collect" /\ at' \in {"call", "crash"}
    <3>1. CASE Pair(c) BY <3>1, <2>3, <1>0 DEF Pair
    <3>2. CASE Backspace(c)
      <4>1. CASE line = <<>> BY <4>1, <3>2, <2>4, <1>0 DEF Backspace
      <4>2. CASE line # <<>>
        <5> DEFINE k == Len(line) - 1
                   t == SubSeq(line, 1, k)
        <5>1. line' = t BY <4>2, <3>2 DEF Backspace
        <5>2. Len(line) >= 1 BY <4>2, <1>0
        <5>3. 1 \in Int /\ k \in Int /\ k >= 0 /\ \A i \in 1..k : line[i] \in Char BY <5>2, <1>0
        <5> HIDE DEF k
        <5>4. t \in Seq(Char) BY ONLY <5>3, SubSeqProperties
        <5>5. Len(t) = IF 1 <= k THEN k - 1 + 1 ELSE 0 BY ONLY <5>3, SubSeqProperties
        <5> HIDE DEF t
        <5>6. k \in Int /\ k >= 0 BY <5>3
        <5>7. Len(t) = k BY <5>5, <5>6
        <5>8. k < MaxInput BY <2>3, <1>0 DEF k
        <5> QED BY <5>1, <5>4, <5>6, <5>7, <5>8, <1>0
      <4> QED BY <4>1, <4>2
    <3>3. CASE EndOfLine(c)
      <4>1. line' = line \/ line' = <<>> BY <3>3 DEF EndOfLine, LineDone
      <4>2. CASE line' = line BY <4>2, <2>3, <1>0
      <4>3. CASE line' = <<>>
        <5>1. line' \in Seq(Char) /\ Len(line') = 0 BY <4>3
        <5> QED BY <5>1, <1>0
      <4> QED BY <4>1, <4>2, <4>3
    <3>4. CASE Ordinary(c)
      <4>1. CASE Len(line) + 1 >= MaxInput
        <5>1. line' = Append(<<>>, c) BY <4>1, <3>4 DEF Ordinary
        <5>2. line' \in Seq(Char) /\ Len(line') = 1 BY <5>1
        <5> QED BY <5>2, <1>0
      <4>2. CASE ~(Len(line) + 1 >= MaxInput)
        <5>1. line' = Append(line, c) BY <4>2, <3>4 DEF Ordinary
        <5>2. line' \in Seq(Char) /\ Len(line') = Len(line) + 1 BY <5>1, <1>0
        <5> QED BY <5>2, <4>2, <1>0
      <4> QED BY <4>1, <4>2
    <3>5. CASE EachChar(c) BY <3>5, <2>3, <1>0 DEF EachChar
    <3>6. CASE Collect(c)
      <4>1. line' = Append(line, c) /\ task' = "collect" BY <3>6 DEF Collect
      <4>2. line' \in Seq(Char) /\ Len(line') = Len(line) + 1 BY <4>1, <1>0
      <4>3. Len(line') >= MaxInput => Complete(line', c) BY DEF Complete
      <4>4. Complete(line', c) => at' \in {"call", "crash"} BY <3>6 DEF Collect, Callback
      <4> QED BY <4>1, <4>2, <4>3, <4>4, <2>3, <1>0
    <3> QED BY <1>9, <3>1, <3>2, <3>3, <3>4, <3>5, <3>6 DEF TakeChar
  <2>6. task' \in {"interactive", "each", "collect"} /\ at' \in {"look", "call", "crash"}
    <3>1. task \in {"interactive", "each", "collect"} BY <2>2 DEF TypeOK
    <3> QED BY <1>9, <3>1 DEF TakeChar, Pair, Backspace, EndOfLine, Ordinary, EachChar, Collect, LineDone, Branch, Callback
  <2>7. last_char' \in Char \cup {"NUL"}
    <3>1. last_char' \in {last_char, c, "NUL"}
      BY <1>9 DEF TakeChar, Pair, Backspace, EndOfLine, Ordinary, EachChar, Collect
    <3> QED BY <3>1 DEF TypeOK
  <2>8. chunk' \in Seq(Char)
    <3>1. <<c>> \in Seq(Char) OBVIOUS
    <3>2. chunk' \in {chunk, line, line', <<c>>}
      BY <1>9 DEF TakeChar, Pair, Backspace, EndOfLine, Ordinary, EachChar, Collect, Callback
    <3> QED BY <3>1, <3>2, <2>5, <1>0 DEF TypeOK
  <2>9. RoomInv' BY <2>5 DEF RoomInv
  <2>10. TypeOK' BY <2>1, <2>5, <2>6, <2>7, <2>8, GetcTypes DEF TypeOK
  <2> QED BY <2>9, <2>10
<1>10. CASE UNCHANGED vars BY <1>10 DEF vars, TypeOK, RoomInv
<1> QED BY <1>1, <1>2, <1>3, <1>4, <1>5, <1>6, <1>7, <1>8, <1>9, <1>10 DEF Next

-----------------------------------------------------------------------------
(* Storing and taking characters. *)

\* The position after the unread characters is the write position, and moving
\* the read position on counts one less.
LEMMA Positions ==
  ASSUME NEW w \in 0..RX_BUFF_SIZE, NEW r \in 0..RX_BUFF_SIZE
  PROVE  /\ Gap(w, r) \in 0..RX_BUFF_SIZE
         /\ Gap(w, r) = 0 <=> w = r
         /\ Ahead(r, Gap(w, r)) = w
         /\ \A i \in 1..Gap(w, r) : Ahead(r, i - 1) # w /\ Ahead(r, i - 1) \in 0..RX_BUFF_SIZE
         /\ \A i \in 1..RX_BUFF_SIZE : Ahead(NextPos(r), i - 1) = Ahead(r, i)
         /\ NextPos(w) # r => Gap(NextPos(w), r) = Gap(w, r) + 1
         /\ NextPos(w) = r => Gap(w, r) = RX_BUFF_SIZE /\ Gap(NextPos(w), NextPos(r)) = RX_BUFF_SIZE
         /\ w # r => Gap(w, NextPos(r)) = Gap(w, r) - 1
         /\ NextPos(w) # w
BY SizeAssumption DEF Gap, Ahead, NextPos

\* The interrupt handler stores a character: the oldest one goes if the ring is full.
LEMMA StoreRing ==
  ASSUME TypeOK, TypeOK', RingHoldsNewest, NEW c \in Char, rx_store(c)
  PROVE  RingHoldsNewest' /\ pWritePos' # pReadPos'
<1> DEFINE w == pWritePos
           r == pReadPos
           g == Gap(w, r)
           L == Len(newest)
<1>0. w \in 0..RX_BUFF_SIZE /\ r \in 0..RX_BUFF_SIZE /\ RX_BUFF_SIZE \in Nat \ {0}
  BY SizeAssumption DEF TypeOK
<1>1. newest \in Seq(Char) /\ L \in Nat /\ L <= RX_BUFF_SIZE BY DEF TypeOK
<1>2. Holds(buf, w, r, newest, skipped) BY <1>0, HoldsNow
<1>3. /\ g \in 0..RX_BUFF_SIZE /\ Ahead(r, g) = w
      /\ \A i \in 1..g : Ahead(r, i - 1) # w /\ Ahead(r, i - 1) \in 0..RX_BUFF_SIZE
  BY <1>0, Positions
<1>4. g <= L /\ (\A i \in 1..g : buf[Ahead(r, i - 1)] = newest[L - g + i]) /\ (skipped => g = RX_BUFF_SIZE)
  BY <1>2 DEF Holds
<1>5. buf' = [buf EXCEPT ![w] = c] /\ pWritePos' = NextPos(w) /\ pReadPos' = Pushed(NextPos(w))
  BY DEF rx_store
<1>6. buf'[w] = c /\ \A i \in 1..g : buf'[Ahead(r, i - 1)] = buf[Ahead(r, i - 1)]
  BY <1>0, <1>3, <1>5 DEF TypeOK
<1>7. SUFFICES /\ Holds(buf', pWritePos', pReadPos', newest', skipped')
               /\ pWritePos' # pReadPos'
  <2>1. pWritePos' \in 0..RX_BUFF_SIZE /\ pReadPos' \in 0..RX_BUFF_SIZE BY DEF TypeOK
  <2> QED BY <2>1, HoldsNext
<1>8. CASE NextPos(w) # r
  <2>1. pReadPos' = r /\ Gap(NextPos(w), r) = g + 1 BY <1>0, <1>5, <1>8, Positions DEF Pushed
  <2>2. skipped' = skipped BY <1>8 DEF rx_store, TypeOK
  <2>3. g + 1 <= RX_BUFF_SIZE
    <3>1. NextPos(w) \in 0..RX_BUFF_SIZE BY <1>0, NextPosType
    <3>2. Gap(NextPos(w), r) \in 0..RX_BUFF_SIZE BY <3>1, <1>0, Positions
    <3> QED BY <3>2, <2>1
  <2>4. ~skipped' BY <2>2, <2>3, <1>3, <1>4
  <2>5. g + 1 <= Len(newest') /\ newest'[Len(newest')] = c /\
        \A i \in 1..g : newest'[Len(newest') - (g + 1) + i] = newest[L - g + i]
    <3>1. CASE L = RX_BUFF_SIZE
      <4>1. newest' = Append(Tail(newest), c) BY <3>1 DEF rx_store
      <4>2. newest # <<>> BY <3>1, <1>0
      <4>3. Len(newest') = L /\ newest'[L] = c /\ \A j \in 1..(L - 1) : newest'[j] = newest[j + 1]
        BY <4>1, <4>2, <1>1
      <4>4. \A i \in 1..g : L - (g + 1) + i \in 1..(L - 1) /\ L - (g + 1) + i + 1 = L - g + i
        BY <2>3, <3>1, <1>1, <1>3
      <4> QED BY <4>3, <4>4, <2>3, <3>1
    <3>2. CASE L # RX_BUFF_SIZE
      <4>1. newest' = Append(newest, c) BY <3>2 DEF rx_store
      <4>2. Len(newest') = L + 1 /\ newest'[L + 1] = c /\ \A j \in 1..L : newest'[j] = newest[j]
        BY <4>1, <1>1
      <4>3. \A i \in 1..g : L - g + i \in 1..L /\ L + 1 - (g + 1) + i = L - g + i
        BY <1>1, <1>3, <1>4
      <4> QED BY <4>2, <4>3, <1>1, <1>3, <1>4
    <3> QED BY <3>1, <3>2
  <2>6. Len(newest') \in Nat BY DEF TypeOK
  <2>7. ASSUME NEW i \in 1..(g + 1)
        PROVE  buf'[Ahead(r, i - 1)] = newest'[Len(newest') - (g + 1) + i]
    <3>1. CASE i = g + 1
      <4> HIDE DEF g
      <4>1. i - 1 = g /\ Len(newest') - (g + 1) + i = Len(newest')
        <5>1. g \in Int BY <1>3
        <5> QED BY <5>1, <3>1, <2>6
      <4>2. Ahead(r, i - 1) = w BY <4>1, <1>3
      <4> QED BY <4>1, <4>2, <1>6, <2>5
    <3>2. CASE i # g + 1
      <4>1. i \in 1..g BY <3>2, <1>3
      <4> QED BY <4>1, <1>4, <1>6, <2>5
    <3> QED BY <3>1, <3>2
  <2>8. NextPos(w) # r BY <1>8
  <2> QED BY <2>1, <2>4, <2>5, <2>7, <2>8, <1>5 DEF Holds
<1>9. CASE NextPos(w) = r
  <2>1. /\ g = RX_BUFF_SIZE /\ pReadPos' = NextPos(r) /\ pWritePos' = r
        /\ Gap(r, NextPos(r)) = RX_BUFF_SIZE /\ NextPos(r) # r
    <3>1. pReadPos' = NextPos(r) /\ pWritePos' = r BY <1>5, <1>9 DEF Pushed
    <3>2. g = RX_BUFF_SIZE /\ Gap(NextPos(w), NextPos(r)) = RX_BUFF_SIZE BY <1>0, <1>9, Positions
    <3>3. NextPos(r) # r BY <1>0, Positions
    <3> QED BY <3>1, <3>2, <3>3, <1>9
  <2>2. L = RX_BUFF_SIZE BY <2>1, <1>1, <1>4, <1>0
  <2>3. newest' = Append(Tail(newest), c) /\ newest # <<>> BY <2>2, <1>0 DEF rx_store
  <2>4. Len(newest') = L /\ newest'[L] = c /\ \A j \in 1..(L - 1) : newest'[j] = newest[j + 1]
    BY <2>3, <1>1
  <2>5. ASSUME NEW i \in 1..RX_BUFF_SIZE
        PROVE  buf'[Ahead(NextPos(r), i - 1)] = newest'[Len(newest') - RX_BUFF_SIZE + i]
    <3>1. Ahead(NextPos(r), i - 1) = Ahead(r, i) BY <1>0, Positions
    <3>2. Len(newest') - RX_BUFF_SIZE + i = i BY <2>2, <2>4, <1>0
    <3>3. CASE i = RX_BUFF_SIZE
      <4>1. Ahead(r, i) = w BY <3>3, <2>1, <1>3
      <4> QED BY <4>1, <3>1, <3>2, <3>3, <1>6, <2>2, <2>4
    <3>4. CASE i # RX_BUFF_SIZE
      <4>1. i + 1 \in 1..g /\ i \in 1..(L - 1) /\ i + 1 - 1 = i /\ L - g + (i + 1) = i + 1
        BY <3>4, <2>1, <2>2, <1>0
      <4>2. buf'[Ahead(r, i)] = buf[Ahead(r, i)] /\ buf[Ahead(r, i)] = newest[i + 1]
        BY <4>1, <1>4, <1>6
      <4> QED BY <4>1, <4>2, <3>1, <3>2, <2>4
    <3> QED BY <3>3, <3>4
  <2> QED BY <2>1, <2>2, <2>4, <2>5, <1>0 DEF Holds
<1> QED BY <1>8, <1>9

\* The task takes the oldest character.
LEMMA GetcRing ==
  ASSUME TypeOK, TypeOK', RingHoldsNewest, TakeInv, NEW c \in Char, Getc(c)
  PROVE  RingHoldsNewest'
<1> DEFINE w == pWritePos
           r == pReadPos
           g == Gap(w, r)
           L == Len(newest)
<1>0. w \in 0..RX_BUFF_SIZE /\ r \in 0..RX_BUFF_SIZE /\ RX_BUFF_SIZE \in Nat \ {0} /\ L \in Nat
  BY SizeAssumption DEF TypeOK
<1>1. Holds(buf, w, r, newest, skipped) BY <1>0, HoldsNow
<1>2. g <= L /\ (\A i \in 1..g : buf[Ahead(r, i - 1)] = newest[L - g + i])
  BY <1>1 DEF Holds
<1>3. w # r BY DEF TakeInv, Getc
<1>4. g \in 0..RX_BUFF_SIZE /\ g # 0 /\ Gap(w, NextPos(r)) = g - 1
  <2>1. g \in 0..RX_BUFF_SIZE BY <1>0, Positions
  <2>2. g # 0 BY <1>0, <1>3, Positions
  <2>3. Gap(w, NextPos(r)) = g - 1 BY <1>0, <1>3, Positions
  <2> QED BY <2>1, <2>2, <2>3
<1>5. UNCHANGED <<buf, pWritePos, newest>> /\ pReadPos' = NextPos(r) /\ skipped' = FALSE
  BY DEF Getc
<1>6. ASSUME NEW i \in 1..(g - 1)
      PROVE  buf[Ahead(NextPos(r), i - 1)] = newest[L - (g - 1) + i]
  <2>1. Ahead(NextPos(r), i - 1) = Ahead(r, i)
    <3>1. i \in 1..RX_BUFF_SIZE BY <1>0, <1>4
    <3> QED BY <3>1, <1>0, Positions
  <2>2. i + 1 \in 1..g /\ i + 1 - 1 = i /\ L - g + (i + 1) = L - (g - 1) + i BY <1>0, <1>4
  <2> QED BY <2>1, <2>2, <1>2
<1>7. g - 1 <= L BY <1>0, <1>2, <1>4
<1>8. Holds(buf', pWritePos', pReadPos', newest', skipped')
  BY <1>4, <1>5, <1>6, <1>7 DEF Holds
<1>9. pWritePos' \in 0..RX_BUFF_SIZE /\ pReadPos' \in 0..RX_BUFF_SIZE BY DEF TypeOK
<1> QED BY <1>8, <1>9, HoldsNext

\* Everything else leaves the ring alone.
LEMMA RingStep ==
  ASSUME TypeOK, TypeOK', RingHoldsNewest, TakeInv, [Next]_vars
  PROVE  RingHoldsNewest' /\ TakeInv'
<1>1. ASSUME NEW c \in Char, rx_store(c) PROVE RingHoldsNewest' /\ TakeInv'
  <2>1. RingHoldsNewest' /\ pWritePos' # pReadPos' BY <1>1, StoreRing
  <2>2. UNCHANGED <<at, task>> BY <1>1 DEF rx_store
  <2> QED BY <2>1, <2>2 DEF TakeInv
<1>2. ASSUME NEW c \in Char, TakeChar(c) PROVE RingHoldsNewest' /\ TakeInv'
  <2>1. Getc(c) /\ at' # "take"
    BY <1>2 DEF TakeChar, Pair, Backspace, EndOfLine, Ordinary, EachChar, Collect, LineDone, Callback
  <2> QED BY <2>1, GetcRing DEF TakeInv
<1>3. ASSUME UNCHANGED <<buf, pWritePos, pReadPos, newest, skipped>> PROVE RingHoldsNewest'
  BY <1>3 DEF RingHoldsNewest, Used, Unread
<1>4. CASE rx_signal \/ OtherTask \/ OtherPosted
  BY <1>3, <1>4 DEF rx_signal, OtherTask, OtherPosted, ring, TakeInv
<1>5. CASE input_handler BY <1>3, <1>5 DEF input_handler, ring, TakeInv
<1>6. CASE uart_getc_test BY <1>3, <1>6 DEF uart_getc_test, ring, TakeInv
<1>7. CASE CallbackReturns BY <1>3, <1>7 DEF CallbackReturns, LineDone, ring, TakeInv
<1>8. ASSUME NEW reg \in Registrations, l_uart_on(reg) PROVE RingHoldsNewest' /\ TakeInv'
  BY <1>3, <1>8 DEF l_uart_on, ring, TakeInv
<1>9. CASE UNCHANGED vars BY <1>3, <1>9 DEF vars, TakeInv
<1> QED BY <1>1, <1>2, <1>4, <1>5, <1>6, <1>7, <1>8, <1>9 DEF Next

-----------------------------------------------------------------------------
(* The latch. *)

\* Requests when a task is posted, and when the first one is taken.
LEMMA RequestsAppend ==
  ASSUME queue \in Seq({0, 1, Other}), NEW x \in {0, 1, Other}, queue' = Append(queue, x)
  PROVE  /\ x = Other => Requests' = Requests
         /\ x # Other => Requests' = Requests \cup {Len(queue) + 1}
         /\ queue'[Len(queue) + 1] = x
         /\ \A i \in Requests : queue'[i] = queue[i]
<1>1. DOMAIN queue = 1..Len(queue) /\ Len(queue) \in Nat OBVIOUS
<1>2. DOMAIN queue' = 1..(Len(queue) + 1) OBVIOUS
<1>3. queue'[Len(queue) + 1] = x /\ \A i \in 1..Len(queue) : queue'[i] = queue[i] OBVIOUS
<1>4. \A i \in 1..(Len(queue) + 1) : i \in 1..Len(queue) \/ i = Len(queue) + 1 BY <1>1
<1>5. Len(queue) + 1 \in 1..(Len(queue) + 1) /\ 1..Len(queue) \subseteq 1..(Len(queue) + 1) BY <1>1
<1>6. Requests' = {i \in 1..(Len(queue) + 1) : queue'[i] # Other} BY <1>2 DEF Requests, Other
<1>7. Requests = {i \in 1..Len(queue) : queue[i] # Other} BY <1>1 DEF Requests
<1> QED BY <1>3, <1>4, <1>5, <1>6, <1>7

\* The others move up by one.
LEMMA RequestsTail ==
  ASSUME queue \in Seq({0, 1, Other}), queue # <<>>, queue' = Tail(queue)
  PROVE  /\ 1 \in Requests <=> Head(queue) # Other
         /\ Head(queue) = queue[1]
         /\ \A i : i \in Requests' <=> i \in Nat \ {0} /\ i + 1 \in Requests
         /\ \A i \in Requests' : queue'[i] = queue[i + 1]
<1>1. DOMAIN queue = 1..Len(queue) /\ Len(queue) \in Nat \ {0} OBVIOUS
<1>2. DOMAIN queue' = 1..(Len(queue) - 1) OBVIOUS
<1>3. Head(queue) = queue[1] /\ \A i \in 1..(Len(queue) - 1) : queue'[i] = queue[i + 1] OBVIOUS
<1>4. Requests' = {i \in 1..(Len(queue) - 1) : queue'[i] # Other} BY <1>2 DEF Requests, Other
<1>5. Requests = {i \in 1..Len(queue) : queue[i] # Other} BY <1>1 DEF Requests
<1>6. 1 \in 1..Len(queue) BY <1>1
<1>7. \A i : i \in 1..(Len(queue) - 1) <=> i \in Nat \ {0} /\ i + 1 \in 1..Len(queue) BY <1>1
<1> QED BY <1>3, <1>4, <1>5, <1>6, <1>7

\* The latch is kept by every step: the interrupt handler posts only when there
\* is no request, and the task that takes one takes over its flag.
LEMMA LatchStep ==
  ASSUME TypeOK, LatchInv, [Next]_vars
  PROVE  LatchInv'
<1>0. queue \in Seq({0, 1, Other}) /\ isr_flag \in {0, 1} /\ input_sig_flag \in {0, 1} BY DEF TypeOK
<1>1. ASSUME UNCHANGED <<isr_flag, input_sig_flag, queue, failed>>,
             pWritePos' # pReadPos' => got_input' \/ task' # "none" \/ isr_flag # input_sig_flag
      PROVE  LatchInv'
  BY <1>1 DEF LatchInv, Requests, OneRequestQueued, Other
<1>2. ASSUME NEW c \in Char, rx_store(c) PROVE LatchInv'
  BY <1>1, <1>2 DEF rx_store, latch
<1>3. ASSUME NEW c \in Char, TakeChar(c) PROVE LatchInv'
  <2>1. task' # "none"
    BY <1>3 DEF TakeChar, Pair, Backspace, EndOfLine, Ordinary, EachChar, Collect, LineDone, Branch
  <2>2. Getc(c) BY <1>3 DEF TakeChar, Pair, Backspace, EndOfLine, Ordinary, EachChar, Collect
  <2> QED BY <1>1, <2>1, <2>2 DEF Getc, latch
<1>4. CASE rx_signal
  <2>1. UNCHANGED <<input_sig_flag, pWritePos, pReadPos, task>> BY <1>4 DEF rx_signal, ring
  <2>2. CASE ~MayPost
    <3>1. UNCHANGED <<isr_flag, queue, failed>> BY <2>2, <1>4 DEF rx_signal
    <3> QED BY <1>1, <2>1, <2>2, <3>1 DEF MayPost
  <2>3. CASE MayPost
    <3>1. Requests = {} /\ isr_flag = input_sig_flag BY <2>3 DEF LatchInv, MayPost
    <3>2. isr_flag' = 1 - isr_flag BY <2>3, <1>4 DEF rx_signal
    <3>3. isr_flag' # input_sig_flag' BY <2>1, <3>1, <3>2, <1>0
    <3>4. CASE Len(queue) < QueueLen
      <4>1. queue' = Append(queue, 1 - isr_flag) BY <2>3, <3>4, <1>4 DEF rx_signal
      <4>2. 1 - isr_flag \in {0, 1, Other} /\ 1 - isr_flag # Other BY <1>0 DEF Other
      <4>3. Requests' = {Len(queue) + 1} /\ queue'[Len(queue) + 1] = isr_flag'
        BY <1>0, <3>1, <3>2, <4>1, <4>2, RequestsAppend
      <4> QED BY <3>3, <4>3 DEF LatchInv, OneRequestQueued
    <3>5. CASE ~(Len(queue) < QueueLen)
      <4>1. queue' = queue /\ failed' BY <2>3, <3>5, <1>4 DEF rx_signal
      <4>2. Requests' = {} BY <3>1, <4>1 DEF Requests, Other
      <4> QED BY <3>3, <4>1, <4>2 DEF LatchInv, OneRequestQueued
    <3> QED BY <3>4, <3>5
  <2> QED BY <2>2, <2>3
<1>5. CASE input_handler
  <2>1. queue # <<>> /\ Head(queue) # Other /\ queue' = Tail(queue) /\ input_sig_flag' = Head(queue)
        /\ UNCHANGED isr_flag
    BY <1>5 DEF input_handler
  <2>2. 1 \in Requests /\ Head(queue) = queue[1] BY <1>0, <2>1, RequestsTail
  <2>3. Head(queue) = isr_flag BY <2>2 DEF LatchInv
  <2>4. Requests' = {}
    <3>1. \A i \in Requests' : i \in Nat \ {0} /\ i + 1 \in Requests BY <1>0, <2>1, RequestsTail
    <3>2. \A i \in Requests : i = 1 BY <2>2 DEF LatchInv, OneRequestQueued
    <3> QED BY <3>1, <3>2
  <2>5. task' # "none" BY <1>5 DEF input_handler, Branch
  <2> QED BY <2>1, <2>3, <2>4, <2>5 DEF LatchInv, OneRequestQueued
<1>6. CASE OtherTask
  <2>1. queue # <<>> /\ Head(queue) = Other /\ queue' = Tail(queue)
        /\ UNCHANGED <<isr_flag, input_sig_flag, failed, pWritePos, pReadPos, got_input, task>>
    BY <1>6 DEF OtherTask, ring
  <2>2. /\ 1 \notin Requests
        /\ \A i : i \in Requests' <=> i \in Nat \ {0} /\ i + 1 \in Requests
        /\ \A i \in Requests' : queue'[i] = queue[i + 1]
    BY <1>0, <2>1, RequestsTail
  <2>3. Requests \subseteq Nat \ {0} BY <1>0 DEF Requests
  <2>4. \A i \in Requests : i - 1 \in Nat \ {0} /\ (i - 1) + 1 = i BY <2>2, <2>3
  <2>5. Requests = {} <=> Requests' = {} BY <2>2, <2>4
  <2>6. \A i, j \in Requests' : i = j
    <3>1. \A i, j \in Requests' : i + 1 = j + 1 /\ i \in Nat /\ j \in Nat BY <2>2 DEF LatchInv, OneRequestQueued
    <3> QED BY <3>1
  <2> QED BY <2>1, <2>2, <2>5, <2>6 DEF LatchInv, OneRequestQueued
<1>7. CASE OtherPosted
  <2>1. queue' = Append(queue, Other)
        /\ UNCHANGED <<isr_flag, input_sig_flag, failed, pWritePos, pReadPos, got_input, task>>
    BY <1>7 DEF OtherPosted, ring
  <2>2. Requests' = Requests /\ \A i \in Requests : queue'[i] = queue[i]
    <3>1. Other \in {0, 1, Other} OBVIOUS
    <3> QED BY <3>1, <1>0, <2>1, RequestsAppend
  <2> QED BY <2>1, <2>2 DEF LatchInv, OneRequestQueued
<1>8. CASE uart_getc_test BY <1>1, <1>8 DEF uart_getc_test, ring, latch
<1>9. CASE CallbackReturns
  <2>1. task' # "none" BY <1>9 DEF CallbackReturns, LineDone, Branch
  <2> QED BY <1>1, <1>9, <2>1 DEF CallbackReturns, latch
<1>10. ASSUME NEW reg \in Registrations, l_uart_on(reg) PROVE LatchInv'
  BY <1>1, <1>10 DEF l_uart_on, ring, latch, LatchInv
<1>11. CASE UNCHANGED vars BY <1>1, <1>11 DEF vars, LatchInv
<1> QED BY <1>2, <1>3, <1>4, <1>5, <1>6, <1>7, <1>8, <1>9, <1>10, <1>11 DEF Next

-----------------------------------------------------------------------------
(* Chunks. *)

\* The empty line begins every chunk.
LEMMA EmptyBegun == ASSUME TypeOK, Branch(ins) = "collect" PROVE Begun(<<>>)
<1>1. ins.data_len \in Int BY DEF TypeOK, Registration
<1>2. ins.data_len # 0 BY DEF Branch
<1>3. Len(<<>>) = 0 OBVIOUS
<1> QED BY <1>1, <1>2, <1>3 DEF Begun

\* One more character makes a chunk or leaves it begun.
LEMMA CollectChunk ==
  ASSUME TypeOK, RoomInv, ChunkInv, NEW c \in Char, Collect(c), ~stale
  PROVE  /\ at' = "call" => Asked(line')
         /\ at' = "look" => Begun(line')
         /\ at' # "look" => chunk' = line'
<1>1. /\ line' = Append(line, c) /\ task = "collect" /\ at = "take"
      /\ Complete(line', c) => at' # "look" /\ chunk' = line'
      /\ ~Complete(line', c) => at' = "look"
  BY DEF Collect, Getc, Callback
<1>2. Branch(ins) = "collect" /\ Begun(line) BY <1>1 DEF ChunkInv
<1>3. ins.data_len \in Int /\ ins.data_len # 0 /\ ins.data_len < MaxInput
  BY <1>2 DEF TypeOK, Registration, Branch, ChunkInv
<1>4. line \in Seq(Char) /\ Len(line) \in Nat /\ Len(line) < MaxInput /\ MaxInput \in Nat
  BY <1>1, SizeAssumption DEF TypeOK, RoomInv
<1>5. /\ Len(line') = Len(line) + 1 /\ line'[Len(line) + 1] = c
      /\ \A i \in 1..Len(line) : line'[i] = line[i]
  BY <1>1, <1>4
<1>6. CASE ins.data_len >= 0
  <2>1. Len(line) < ins.data_len BY <1>2, <1>6 DEF Begun
  <2>2. Complete(line', c) <=> Len(line') >= ins.data_len
    BY <1>3, <1>4, <1>5, <1>6 DEF Complete
  <2>3. Len(line') >= ins.data_len => Asked(line')
    BY <2>1, <1>3, <1>4, <1>5, <1>6 DEF Asked
  <2>4. ~(Len(line') >= ins.data_len) => Begun(line') BY <1>3, <1>4, <1>5, <1>6 DEF Begun
  <2> QED BY <2>2, <2>3, <2>4, <1>1
<1>7. CASE ~(ins.data_len >= 0)
  <2>1. \A i \in 1..Len(line) : line[i] # ins.end_char BY <1>2, <1>7 DEF Begun
  <2>2. ins.data_len < 0 BY <1>3, <1>7
  <2>3. Complete(line', c) <=> Len(line') >= MaxInput \/ c = ins.end_char
    BY <2>2, <1>7 DEF Complete
  <2>4. \A i \in 1..(Len(line') - 1) : line'[i] # ins.end_char BY <2>1, <1>4, <1>5
  <2>5. Complete(line', c) => Asked(line')
    <3>1. Len(line') >= MaxInput => Len(line') = MaxInput BY <1>4, <1>5
    <3> QED BY <2>3, <2>4, <3>1, <1>5, <1>7 DEF Asked
  <2>6. ~Complete(line', c) => Begun(line')
    <3>1. \A i \in 1..Len(line') : i \in 1..Len(line) \/ i = Len(line) + 1 BY <1>4, <1>5
    <3> QED BY <2>1, <2>3, <3>1, <1>5, <1>7 DEF Begun
  <2> QED BY <2>5, <2>6, <1>1
<1> QED BY <1>6, <1>7

\* Every step keeps what is collected in line with what was asked for.
LEMMA ChunkStep ==
  ASSUME TypeOK, RoomInv, ChunkInv, [Next]_vars
  PROVE  ChunkInv'
<1>0. ins.data_len < MaxInput BY DEF ChunkInv
<1>1. ASSUME UNCHANGED <<ins, line, task, at, chunk, stale>> PROVE ChunkInv'
  BY <1>1 DEF ChunkInv, Begun, Asked, Branch
\* What is left to show of a step that is not uart.on().
<1>2. ASSUME UNCHANGED ins,
             ~stale' /\ task' # "none" => task' = Branch(ins),
             ~stale' /\ Branch(ins) = "collect" /\ at' # "call" /\ at' # "crash" => Begun(line'),
             ~stale' /\ at' = "call" /\ task' \in {"each", "collect"} => Asked(chunk'),
             at' \in {"call", "crash"} => task' # "none"
      PROVE  ChunkInv'
  BY <1>0, <1>2 DEF ChunkInv, Begun, Asked, Branch
<1>3. CASE input_handler
  <2>1. UNCHANGED <<ins, line, stale>> /\ task = "none" /\ task' = Branch(ins) /\ at' = "look"
    BY <1>3 DEF input_handler
  <2>2. ~stale' /\ Branch(ins) = "collect" => Begun(line') BY <2>1 DEF ChunkInv
  <2> QED BY <1>2, <2>1, <2>2
<1>4. CASE uart_getc_test
  <2>1. UNCHANGED <<ins, line, chunk>> /\ at = "look" /\ task # "none" /\ at' \in {"look", "take"}
    BY <1>4 DEF uart_getc_test
  <2>2. /\ task' # "none" => task' = task /\ stale' = stale
        /\ ~stale' => ~stale \/ line = <<>>
    BY <1>4 DEF uart_getc_test
  <2>3. ~stale' /\ Branch(ins) = "collect" => Begun(line') BY <2>1, <2>2, EmptyBegun DEF ChunkInv
  <2>4. ~stale' /\ task' # "none" => task' = Branch(ins) BY <2>2 DEF ChunkInv
  <2> QED BY <1>2, <2>1, <2>3, <2>4
<1>5. CASE CallbackReturns
  <2>1. UNCHANGED <<ins, stale>> /\ at = "call" /\ at' = "look" BY <1>5 DEF CallbackReturns, LineDone
  <2>2. ~stale' => task = Branch(ins) BY <2>1 DEF ChunkInv
  <2>3. task' \in {task, Branch(ins)} /\ (line' = <<>> \/ task = "each")
    BY <1>5 DEF CallbackReturns, LineDone
  <2>4. ~stale' /\ Branch(ins) = "collect" => Begun(line') BY <2>2, <2>3, EmptyBegun
  <2> QED BY <1>2, <2>1, <2>2, <2>3, <2>4
<1>6. ASSUME NEW reg \in Registrations, l_uart_on(reg) PROVE ChunkInv'
  <2>1. /\ ins' = reg /\ UNCHANGED <<line, task, at>>
        /\ ~stale' => task = "none" /\ line = <<>>
    BY <1>6 DEF l_uart_on
  <2>2. reg.data_len \in Int /\ reg.data_len < MaxInput
    BY RegistrationAssumption DEF Registration
  <2>3. Len(<<>>) = 0 OBVIOUS
  <2>4. ~stale' /\ Branch(ins)' = "collect" => Begun(line)' BY <2>1, <2>2, <2>3 DEF Branch, Begun
  <2> QED BY <2>1, <2>2, <2>4 DEF ChunkInv
<1>7. ASSUME NEW c \in Char, TakeChar(c) PROVE ChunkInv'
  <2>1. Getc(c) BY <1>7 DEF TakeChar, Pair, Backspace, EndOfLine, Ordinary, EachChar, Collect
  <2>2. UNCHANGED <<ins, stale>> /\ at = "take" /\ task # "none" BY <2>1 DEF Getc
  <2>3. ~stale => task = Branch(ins) BY <2>2 DEF ChunkInv
  <2>4. CASE Pair(c) \/ Backspace(c) \/ EndOfLine(c) \/ Ordinary(c)
    <3>1. /\ task = "interactive" /\ task' \in {task, Branch(ins)}
          /\ at' \in {"look", "call"} /\ (at' = "call" => task' = task)
      BY <2>4 DEF Pair, Backspace, EndOfLine, Ordinary, LineDone
    <3>2. Branch(ins) # "none" BY DEF Branch
    <3> QED BY <1>2, <2>2, <2>3, <3>1, <3>2
  <2>5. CASE EachChar(c)
    <3>1. task = "each" /\ task' = task /\ chunk' = <<c>> BY <2>5 DEF EachChar, Callback
    <3>2. ~stale => ins.data_len = 0 BY <2>3, <3>1 DEF Branch
    <3>3. Len(chunk') = 1 BY <3>1
    <3>4. ~stale => Asked(chunk') BY <3>2, <3>3 DEF Asked
    <3> QED BY <1>2, <2>2, <2>3, <3>1, <3>4
  <2>6. CASE Collect(c)
    <3>1. task = "collect" /\ task' = task /\ at' \in {"look", "call", "crash"}
      BY <2>6 DEF Collect, Callback
    <3>2. ~stale => /\ at' = "call" => Asked(chunk')
                    /\ at' = "look" => Begun(line')
      <4>1. ~stale => /\ at' = "call" => Asked(line')
                      /\ at' = "look" => Begun(line')
                      /\ at' # "look" => chunk' = line'
        BY <2>6, CollectChunk
      <4> QED BY <4>1
    <3> QED BY <1>2, <2>2, <2>3, <3>1, <3>2
  <2> QED BY <1>7, <2>4, <2>5, <2>6 DEF TakeChar
<1>8. ASSUME NEW c \in Char, rx_store(c) PROVE ChunkInv' BY <1>1, <1>8 DEF rx_store
<1>9. CASE rx_signal \/ OtherTask \/ OtherPosted BY <1>1, <1>9 DEF rx_signal, OtherTask, OtherPosted
<1>10. CASE UNCHANGED vars BY <1>1, <1>10 DEF vars
<1> QED BY <1>3, <1>4, <1>5, <1>6, <1>7, <1>8, <1>9, <1>10 DEF Next

-----------------------------------------------------------------------------
(* The theorems. *)

\* The invariant holds when input_setup() has run.
LEMMA InitIInv == Init => IInv
<1> SUFFICES ASSUME Init PROVE IInv OBVIOUS
<1> USE SizeAssumption
<1>0. <<>> \in Seq(Char) /\ <<>> \in Seq({0, 1, Other}) /\ Len(<<>>) = 0 /\ DOMAIN <<>> = {} OBVIOUS
<1>1. ins = Off /\ Off \in Registration /\ Off.data_len = 0 /\ Branch(Off) = "interactive"
  BY DEF Init, Off, Registration, Branch
<1>2. buf \in [0..RX_BUFF_SIZE -> Char \cup {"NUL"}] /\ pWritePos = 0 /\ pReadPos = 0 BY DEF Init
<1>3. TypeOK BY <1>0, <1>1, <1>2 DEF Init, TypeOK
<1>4. RoomInv BY <1>0 DEF Init, RoomInv
<1>5. RingHoldsNewest
  <2>1. Gap(0, 0) = 0 /\ 0 \in 0..RX_BUFF_SIZE BY DEF Gap
  <2>2. newest = <<>> /\ skipped = FALSE BY DEF Init
  <2>3. Holds(buf, 0, 0, newest, skipped) BY <2>1, <2>2, <1>0 DEF Holds
  <2> QED BY <1>2, <2>1, <2>3, HoldsNow
<1>6. TakeInv BY DEF Init, TakeInv
<1>7. LatchInv
  <2>1. Requests = {} BY <1>0 DEF Init, Requests
  <2> QED BY <2>1 DEF Init, LatchInv, OneRequestQueued
<1>8. ChunkInv BY <1>1 DEF Init, ChunkInv
<1> QED BY <1>3, <1>4, <1>5, <1>6, <1>7, <1>8 DEF IInv

\* The inductive invariant.
LEMMA InvHolds == Spec => []IInv
<1>1. IInv /\ [Next]_vars => IInv' BY TypeStep, RingStep, LatchStep, ChunkStep DEF IInv
<1> QED BY <1>1, InitIInv, PTL DEF Spec

\* Every variable keeps its type; ins.data is never overrun, whatever mode the
\* line was begun in and whoever called uart.on() since.
THEOREM TypeHolds == Spec => []TypeOK
<1>1. IInv => TypeOK BY DEF IInv
<1> QED BY <1>1, InvHolds, PTL

\* The receive ring holds the newest characters in order, whenever the
\* interrupt handler comes between the test and the read of uart_getc().
THEOREM RingIsRight == Spec => []RingHoldsNewest
<1>1. IInv => RingHoldsNewest BY DEF IInv
<1> QED BY <1>1, InvHolds, PTL

\* The latch between uart0_rx_intr_handler() and input_handler() loses no
\* request and never has two in the queue, unless a post was refused.
THEOREM LatchIsRight == Spec => []LatchHolds
<1>1. IInv => LatchHolds BY DEF IInv, LatchInv, LatchHolds, InputSignalled
<1> QED BY <1>1, InvHolds, PTL

\* The callback of uart.on() gets chunks of the length, or up to the character,
\* that it was registered for.
THEOREM ChunksAreRight == Spec => []ChunkAsAsked
<1>1. IInv => ChunkAsAsked BY DEF IInv, ChunkInv, Asked, ChunkAsAsked
<1> QED BY <1>1, InvHolds, PTL
=============================================================================
