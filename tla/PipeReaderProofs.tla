-------------------------- MODULE PipeReaderProofs --------------------------
(***************************************************************************)
(* For any queue length, any number of other tasks and any writes: the     *)
(* reader task of a pipe loses no wake-up unless the task queue was full,  *)
(* and while the callback does not itself write to the pipe, at most one   *)
(* reader task is ever in the queue.  The other parts are about the chunks *)
(* of module PipeBuffer: they stay within their buffers, and are one queue *)
(* of bytes.                                                               *)
(***************************************************************************)
EXTENDS PipeReader, PipeBuffer, Integers, SequenceTheorems, FunctionTheorems, FiniteSetTheorems, TLAPS

\* A raised flag has its task, also while the callback runs: it may fail, and
\* leave the state as it is.
Wake == updated /\ ~lost => pending > 0

SafeInv == TypeOK /\ Wake

\* Initially nothing is queued and every flag is down.
LEMMA InitTypes == Init => TypeOK
<1>1. Init => FlagTypes
  BY DEF Init, FlagTypes
<1>2. Init => CounterTypes
  BY ReaderAssumption DEF Init, CounterTypes
<1>3. QED
  BY <1>1, <1>2 DEF TypeOK

\* Every step keeps the flag and its task together, whatever the callback does.
LEMMA SafeNext == SafeInv /\ [Next]_vars => SafeInv'
<1> SUFFICES ASSUME SafeInv, [Next]_vars PROVE SafeInv'
  OBVIOUS
<1> USE ReaderAssumption
<1>0. FlagTypes /\ CounterTypes /\ Wake
  BY DEF SafeInv, TypeOK
<1>1. ASSUME NEW k \in 1..MaxLen, pipe_write(k) PROVE SafeInv'
  <2>1. FlagTypes'
    BY <1>0, <1>1 DEF FlagTypes, pipe_write, Store, MayWrite, Posts, Flags, PostGuard
  <2>2. CounterTypes'
    BY <1>0, <1>1 DEF CounterTypes, QueueFull, pipe_write, Store, MayWrite, Posts, Flags, PostGuard
  <2>3. Wake'
    BY <1>0, <1>1 DEF Wake, FlagTypes, CounterTypes, QueueFull, pipe_write, Store, MayWrite, Posts, Flags, PostGuard
  <2>4. QED
    BY <2>1, <2>2, <2>3 DEF SafeInv, TypeOK
<1>2. ASSUME NEW k \in 1..MaxLen, pipe_write_overflow(k) PROVE SafeInv'
  <2>1. FlagTypes'
    BY <1>0, <1>2 DEF FlagTypes, pipe_write_overflow, Store, MayWrite, Posts, Flags, PostReader
  <2>2. CounterTypes'
    BY <1>0, <1>2 DEF CounterTypes, QueueFull, pipe_write_overflow, Store, MayWrite, Posts, Flags, PostReader
  <2>3. Wake'
    BY <1>0, <1>2 DEF Wake, FlagTypes, CounterTypes, QueueFull, pipe_write_overflow, Store, MayWrite, Posts, Flags, PostReader
  <2>4. QED
    BY <2>1, <2>2, <2>3 DEF SafeInv, TypeOK
<1>3. ASSUME NEW k \in 1..MaxLen, pipe_read_some(k) PROVE SafeInv'
  <2>1. FlagTypes'
    BY <1>0, <1>3 DEF FlagTypes, pipe_read_some
  <2>2. CounterTypes'
    BY <1>0, <1>3 DEF CounterTypes, QueueFull, pipe_read_some
  <2>3. Wake'
    BY <1>0, <1>3 DEF Wake, FlagTypes, CounterTypes, QueueFull, pipe_read_some
  <2>4. QED
    BY <2>1, <2>2, <2>3 DEF SafeInv, TypeOK
<1>4. CASE ReaderTask
  <2>1. FlagTypes'
    BY <1>0, <1>4 DEF FlagTypes, ReaderTask
  <2>2. CounterTypes'
    BY <1>0, <1>4 DEF CounterTypes, QueueFull, ReaderTask
  <2>3. Wake'
    BY <1>0, <1>4 DEF Wake, FlagTypes, CounterTypes, QueueFull, ReaderTask
  <2>4. QED
    BY <2>1, <2>2, <2>3 DEF SafeInv, TypeOK
<1>5. ASSUME NEW r \in Returns, CBReturns(r) PROVE SafeInv'
  <2>1. FlagTypes'
    BY <1>0, <1>5 DEF FlagTypes, CBReturns, PostReader, Repost
  <2>2. CounterTypes'
    BY <1>0, <1>5 DEF CounterTypes, QueueFull, CBReturns, PostReader, Repost
  <2>3. Wake'
    <3>1. CASE ~Repost(r)
      BY <1>5, <3>1 DEF Wake, CBReturns
    <3>2. CASE Repost(r) /\ QueueFull
      BY <1>5, <3>2 DEF Wake, CBReturns, PostReader
    <3>3. CASE Repost(r) /\ ~QueueFull
      <4>1. pending' = pending + 1
        BY <1>5, <3>3 DEF CBReturns, PostReader
      <4>2. pending' > 0
        BY <1>0, <4>1 DEF CounterTypes
      <4>3. QED
        BY <4>2 DEF Wake
    <3>4. QED
      BY <3>1, <3>2, <3>3
  <2>4. QED
    BY <2>1, <2>2, <2>3 DEF SafeInv, TypeOK
<1>6. CASE CBFails
  <2>1. FlagTypes'
    BY <1>0, <1>6 DEF FlagTypes, CBFails
  <2>2. CounterTypes'
    BY <1>0, <1>6 DEF CounterTypes, QueueFull, CBFails
  <2>3. Wake'
    BY <1>0, <1>6 DEF Wake, FlagTypes, CounterTypes, QueueFull, CBFails
  <2>4. QED
    BY <2>1, <2>2, <2>3 DEF SafeInv, TypeOK
<1>7. CASE OtherPosted \/ OtherTask
  <2>1. FlagTypes'
    BY <1>0, <1>7 DEF FlagTypes, OtherPosted, OtherTask
  <2>2. CounterTypes'
    BY <1>0, <1>7 DEF CounterTypes, QueueFull, OtherPosted, OtherTask
  <2>3. Wake'
    BY <1>0, <1>7 DEF Wake, FlagTypes, CounterTypes, QueueFull, OtherPosted, OtherTask
  <2>4. QED
    BY <2>1, <2>2, <2>3 DEF SafeInv, TypeOK
<1>8. CASE UNCHANGED vars
  <2>1. FlagTypes'
    BY <1>0, <1>8 DEF FlagTypes, vars
  <2>2. CounterTypes'
    BY <1>0, <1>8 DEF CounterTypes, QueueFull, vars
  <2>3. Wake'
    BY <1>0, <1>8 DEF Wake, FlagTypes, CounterTypes, QueueFull, vars
  <2>4. QED
    BY <2>1, <2>2, <2>3 DEF SafeInv, TypeOK
<1>9. QED
  BY <1>1, <1>2, <1>3, <1>4, <1>5, <1>6, <1>7, <1>8 DEF Next, Write

\* So they are together in every behaviour.
LEMMA SafeAlways == Spec => []SafeInv
<1>1. Init => SafeInv
  <2>1. Init => Wake
    BY DEF Init, Wake
  <2>2. QED
    BY <2>1, InitTypes DEF SafeInv
<1>2. QED
  BY <1>1, SafeNext, PTL DEF Spec

\* The queue never holds more than its length.
THEOREM ReaderTypes == Spec => []TypeOK
<1>1. SafeInv => TypeOK
  BY DEF SafeInv
<1>2. QED
  BY SafeAlways, <1>1, PTL

\* No wake-up of the reader is lost but by a post that failed on a full queue.
THEOREM NoLostWakeUp == Spec => []UpdatedMeansPending
<1>1. SafeInv => UpdatedMeansPending
  BY DEF SafeInv, Wake, UpdatedMeansPending
<1>2. QED
  BY SafeAlways, <1>1, PTL

-----------------------------------------------------------------------------
\* Between two runs of the callback a queued reader task has raised the flag
\* that keeps writes from posting another; while it runs none is queued.
Single ==
  /\ pending <= 1
  /\ running => pending = 0
  /\ ~running /\ pending > 0 => updated

SingleInv == TypeOK /\ Single

\* A second task is never posted when the callback does not write.
LEMMA SingleNext == ~CBWrites /\ SingleInv /\ [Next]_vars => SingleInv'
<1> SUFFICES ASSUME ~CBWrites, SingleInv, [Next]_vars PROVE SingleInv'
  OBVIOUS
<1> USE ReaderAssumption
<1>0. FlagTypes /\ CounterTypes /\ Single
  BY DEF SingleInv, TypeOK
<1>1. ASSUME NEW k \in 1..MaxLen, pipe_write(k) PROVE SingleInv'
  <2>1. FlagTypes'
    BY <1>0, <1>1 DEF FlagTypes, pipe_write, Store, MayWrite, Posts, Flags, PostGuard
  <2>2. CounterTypes'
    BY <1>0, <1>1 DEF CounterTypes, QueueFull, pipe_write, Store, MayWrite, Posts, Flags, PostGuard
  <2>3. Single'
    <3>1. ~running /\ ~running'
      BY <1>1 DEF pipe_write, Store, MayWrite
    <3>2. CASE Flags
      <4>1. pending = 0
        BY <1>0, <3>1, <3>2 DEF Single, Flags, CounterTypes
      <4>2. pending' = 1
        BY <1>1, <3>2, <4>1 DEF pipe_write, Posts, PostGuard
      <4>3. updated'
        <5>1. updated' = (updated \/ Flags)
          BY <1>1 DEF pipe_write
        <5>2. QED
          BY <3>2, <5>1, Zenon
      <4>4. QED
        BY <3>1, <4>2, <4>3 DEF Single
    <3>3. CASE ~Flags
      <4>1. pending' = pending /\ updated' = updated
        BY <1>0, <1>1, <3>3 DEF pipe_write, Posts, FlagTypes
      <4>2. QED
        BY <1>0, <3>1, <4>1 DEF Single
    <3>4. QED
      BY <3>2, <3>3
  <2>4. QED
    BY <2>1, <2>2, <2>3 DEF SingleInv, TypeOK
<1>2. ASSUME NEW k \in 1..MaxLen, pipe_write_overflow(k) PROVE SingleInv'
  <2>1. FlagTypes'
    BY <1>0, <1>2 DEF FlagTypes, pipe_write_overflow, Store, MayWrite, Posts, Flags, PostReader
  <2>2. CounterTypes'
    BY <1>0, <1>2 DEF CounterTypes, QueueFull, pipe_write_overflow, Store, MayWrite, Posts, Flags, PostReader
  <2>3. Single'
    BY <1>0, <1>2 DEF Single, FlagTypes, CounterTypes, QueueFull, pipe_write_overflow, Store, MayWrite, Posts, Flags, PostReader
  <2>4. QED
    BY <2>1, <2>2, <2>3 DEF SingleInv, TypeOK
<1>3. ASSUME NEW k \in 1..MaxLen, pipe_read_some(k) PROVE SingleInv'
  <2>1. FlagTypes'
    BY <1>0, <1>3 DEF FlagTypes, pipe_read_some
  <2>2. CounterTypes'
    BY <1>0, <1>3 DEF CounterTypes, QueueFull, pipe_read_some
  <2>3. Single'
    BY <1>0, <1>3 DEF Single, FlagTypes, CounterTypes, QueueFull, pipe_read_some
  <2>4. QED
    BY <2>1, <2>2, <2>3 DEF SingleInv, TypeOK
<1>4. CASE ReaderTask
  <2>1. FlagTypes'
    BY <1>0, <1>4 DEF FlagTypes, ReaderTask
  <2>2. CounterTypes'
    BY <1>0, <1>4 DEF CounterTypes, QueueFull, ReaderTask
  <2>3. Single'
    BY <1>0, <1>4 DEF Single, FlagTypes, CounterTypes, QueueFull, ReaderTask
  <2>4. QED
    BY <2>1, <2>2, <2>3 DEF SingleInv, TypeOK
<1>5. ASSUME NEW r \in Returns, CBReturns(r) PROVE SingleInv'
  <2>1. FlagTypes'
    BY <1>0, <1>5 DEF FlagTypes, CBReturns, PostReader, Repost
  <2>2. CounterTypes'
    BY <1>0, <1>5 DEF CounterTypes, QueueFull, CBReturns, PostReader, Repost
  <2>3. Single'
    <3>1. pending = 0 /\ ~running' /\ updated' = Repost(r)
      BY <1>0, <1>5 DEF Single, CBReturns
    <3>2. CASE ~Repost(r)
      <4>1. pending' = 0
        BY <1>5, <3>1, <3>2 DEF CBReturns
      <4>2. QED
        BY <4>1 DEF Single
    <3>3. CASE Repost(r)
      <4>1. pending' \in {0, 1}
        BY <1>5, <3>1, <3>3 DEF CBReturns, PostReader
      <4>2. QED
        BY <3>1, <3>3, <4>1 DEF Single
    <3>4. QED
      BY <3>2, <3>3
  <2>4. QED
    BY <2>1, <2>2, <2>3 DEF SingleInv, TypeOK
<1>6. CASE CBFails
  <2>1. FlagTypes'
    BY <1>0, <1>6 DEF FlagTypes, CBFails
  <2>2. CounterTypes'
    BY <1>0, <1>6 DEF CounterTypes, QueueFull, CBFails
  <2>3. Single'
    BY <1>0, <1>6 DEF Single, FlagTypes, CounterTypes, QueueFull, CBFails
  <2>4. QED
    BY <2>1, <2>2, <2>3 DEF SingleInv, TypeOK
<1>7. CASE OtherPosted \/ OtherTask
  <2>1. FlagTypes'
    BY <1>0, <1>7 DEF FlagTypes, OtherPosted, OtherTask
  <2>2. CounterTypes'
    BY <1>0, <1>7 DEF CounterTypes, QueueFull, OtherPosted, OtherTask
  <2>3. Single'
    BY <1>0, <1>7 DEF Single, FlagTypes, CounterTypes, QueueFull, OtherPosted, OtherTask
  <2>4. QED
    BY <2>1, <2>2, <2>3 DEF SingleInv, TypeOK
<1>8. CASE UNCHANGED vars
  <2>1. FlagTypes'
    BY <1>0, <1>8 DEF FlagTypes, vars
  <2>2. CounterTypes'
    BY <1>0, <1>8 DEF CounterTypes, QueueFull, vars
  <2>3. Single'
    BY <1>0, <1>8 DEF Single, FlagTypes, CounterTypes, QueueFull, vars
  <2>4. QED
    BY <2>1, <2>2, <2>3 DEF SingleInv, TypeOK
<1>9. QED
  BY <1>1, <1>2, <1>3, <1>4, <1>5, <1>6, <1>7, <1>8 DEF Next, Write

\* While only other tasks write to the pipe, at most one reader task is queued.
THEOREM SingleReader == ASSUME ~CBWrites PROVE Spec => []AtMostOnePending
<1>1. Init => SingleInv
  <2>1. Init => Single
    BY DEF Init, Single
  <2>2. QED
    BY <2>1, InitTypes DEF SingleInv
<1>2. SingleInv /\ [Next]_vars => SingleInv'
  BY SingleNext
<1>3. SingleInv => AtMostOnePending
  BY DEF SingleInv, Single, AtMostOnePending
<1>4. QED
  BY <1>1, <1>2, <1>3, PTL DEF Spec

(***************************************************************************)
(* The chunks of a pipe, module PipeBuffer, for any buffer size, any bytes *)
(* and strings of any length: no chunk ever leaves its buffer or is empty, *)
(* and however the bytes are cut, they are those of a queue.               *)
(***************************************************************************)

Chunk == [start : Nat, data : Seq(Bytes)]

\* A chunk within its buffer, and one that holds something.
Fits(ud) == ud \in Chunk /\ ud.start + Len(ud.data) <= LUAL_BUFFERSIZE
Holds(ud) == Fits(ud) /\ Len(ud.data) >= 1

Tables == {T \in Seq(Chunk) : \A i \in 1..Len(T) : Holds(T[i])}

\* Induction up to n: otherwise the numbers below an exception, a finite set,
\* would be mapped one to one into themselves without zero.
LEMMA CountingTo ==
  ASSUME NEW n \in Nat, NEW I, 0 \in I, \A i \in 1..n : i - 1 \in I => i \in I
  PROVE  \A k \in 0..n : k \in I
<1> SUFFICES ASSUME NEW k \in 0..n, k \notin I PROVE FALSE
  OBVIOUS
<1> DEFINE A == {i \in 0..(k - 1) : i \in I}
           f == [i \in A |-> i + 1]
<1>1. k # 0 /\ 0 \in A BY SMT
<1>2. IsFiniteSet(A)
  <2>1. IsFiniteSet(0..(k - 1)) BY FS_Interval
  <2> QED BY <2>1, FS_Subset
<1>3. IsFiniteSet(A \ {0}) /\ Cardinality(A \ {0}) = Cardinality(A) - 1
  BY <1>1, <1>2, FS_RemoveElement
<1>4. Cardinality(A) \in Nat BY <1>2, FS_CardinalityType
<1>5. f \in [A -> A \ {0}]
  <2> SUFFICES ASSUME NEW i \in A PROVE i + 1 \in A \ {0} OBVIOUS
  <2>1. i \in Nat /\ i <= k - 1 /\ i \in I /\ i + 1 \in 1..n /\ (i + 1) - 1 = i BY SMT
  <2>2. i + 1 \in I BY <2>1
  <2>3. i + 1 # k BY <2>2
  <2> QED BY <2>1, <2>2, <2>3
<1> HIDE DEF A
<1>6. Cardinality(A \ {0}) < Cardinality(A) BY <1>3, <1>4
<1>7. PICK x, y \in A : x # y /\ f[x] = f[y]
  <2> HIDE DEF f
  <2> QED BY <1>2, <1>3, <1>5, <1>6, FS_PigeonHole
<1>8. x \in Int /\ y \in Int BY DEF A
<1> QED BY <1>7, <1>8

\* f holds the state of a loop after each of n rounds G, from x on.
Rounds(S, G, x, n, f) ==
  f \in [0..n -> S] /\ f[0] = x /\ \A i \in 1..n : f[i] = G[f[i - 1]]

\* A loop whose rounds stay within S has a state after each round.
LEMMA RoundsExist ==
  ASSUME NEW S, NEW G \in [S -> S], NEW x \in S, NEW n \in Nat
  PROVE  \E f : Rounds(S, G, x, n, f)
<1> DEFINE Is(f, k) == f \in [0..k -> S] /\ f[0] = x /\ \A i \in 1..k : f[i] = G[f[i - 1]]
           I == {k \in 0..n : \E f : Is(f, k)}
<1>1. 0 \in I
  <2> DEFINE h == [i \in 0..0 |-> x]
  <2>1. h \in [0..0 -> S] /\ h[0] = x OBVIOUS
  <2>2. 1..0 = {} OBVIOUS
  <2> HIDE DEF h
  <2>3. Is(h, 0) BY <2>1, <2>2
  <2> QED BY <2>3
<1>2. ASSUME NEW k \in 1..n, k - 1 \in I PROVE k \in I
  <2>1. PICK f : Is(f, k - 1) BY <1>2
  <2> DEFINE h == [i \in 0..k |-> IF i = k THEN G[f[k - 1]] ELSE f[i]]
  <2>2. f[k - 1] \in S BY <2>1
  <2>3. G[f[k - 1]] \in S BY <2>2
  <2>4. h \in [0..k -> S] BY <2>1, <2>3
  <2>5. h[0] = x BY <2>1
  <2>6. ASSUME NEW i \in 1..k PROVE h[i] = G[h[i - 1]]
    <3>1. i - 1 \in 0..k /\ i - 1 # k /\ h[i - 1] = f[i - 1] OBVIOUS
    <3>2. CASE i = k BY <3>1, <3>2
    <3>3. CASE i # k
      <4>1. i \in 1..(k - 1) BY <3>3
      <4> QED BY <2>1, <3>1, <3>3, <4>1
    <3> QED BY <3>2, <3>3
  <2> HIDE DEF h
  <2>7. Is(h, k) BY <2>4, <2>5, <2>6
  <2> QED BY <2>7
<1> HIDE DEF I
<1>3. n \in I BY <1>1, <1>2, CountingTo
<1>4. PICK f : Is(f, n) BY <1>3 DEF I
<1> QED BY <1>4 DEF Rounds

\* Replacing a chunk leaves the others alone.
LEMMA ReplaceChunk ==
  ASSUME NEW T \in Seq(Chunk), NEW k \in 1..Len(T), NEW u \in Chunk
  PROVE  /\ [T EXCEPT ![k] = u] \in Seq(Chunk)
         /\ Len([T EXCEPT ![k] = u]) = Len(T)
         /\ [T EXCEPT ![k] = u][k] = u
         /\ \A i \in 1..Len(T) : i # k => [T EXCEPT ![k] = u][i] = T[i]
<1>1. [T EXCEPT ![k] = u] \in Seq(Chunk) /\ Len([T EXCEPT ![k] = u]) = Len(T)
  BY ExceptSeq
<1>2. DOMAIN T = 1..Len(T) /\ k \in DOMAIN T BY LenProperties
<1> QED BY <1>1, <1>2

(* The bytes of a pipe: Content() takes the chunks one after the other.    *)

\* Concatenation, whose definition is only used for these facts.
Cat(s, t) == s \o t

\* Strings of bytes make a monoid.
LEMMA CatIs ==
  /\ <<>> \in Seq(Bytes)
  /\ \A s, t \in Seq(Bytes) : Cat(s, t) \in Seq(Bytes) /\ Len(Cat(s, t)) = Len(s) + Len(t)
  /\ \A s \in Seq(Bytes) : Cat(s, <<>>) = s /\ Cat(<<>>, s) = s
  /\ \A s, t, u \in Seq(Bytes) : Cat(Cat(s, t), u) = Cat(s, Cat(t, u))
<1>1. <<>> \in Seq(Bytes) BY EmptySeq
<1>2. ASSUME NEW s \in Seq(Bytes), NEW t \in Seq(Bytes)
      PROVE Cat(s, t) \in Seq(Bytes) /\ Len(Cat(s, t)) = Len(s) + Len(t)
  BY ConcatProperties DEF Cat
<1>3. ASSUME NEW s \in Seq(Bytes) PROVE Cat(s, <<>>) = s /\ Cat(<<>>, s) = s
  BY ConcatEmptySeq DEF Cat
<1>4. ASSUME NEW s \in Seq(Bytes), NEW t \in Seq(Bytes), NEW u \in Seq(Bytes)
      PROVE Cat(Cat(s, t), u) = Cat(s, Cat(t, u))
  BY ConcatAssociative DEF Cat
<1> QED BY <1>1, <1>2, <1>3, <1>4

\* The two parts of a string.
LEMMA Parts ==
  ASSUME NEW s \in Seq(Bytes), NEW n \in 0..Len(s)
  PROVE  /\ SubSeq(s, 1, n) \in Seq(Bytes) /\ Len(SubSeq(s, 1, n)) = n
         /\ SubSeq(s, n + 1, Len(s)) \in Seq(Bytes) /\ Len(SubSeq(s, n + 1, Len(s))) = Len(s) - n
         /\ Cat(SubSeq(s, 1, n), SubSeq(s, n + 1, Len(s))) = s
<1>1. Len(s) \in Nat /\ n \in Nat OBVIOUS
<1>2. \A i \in 1..n : s[i] \in Bytes BY <1>1
<1>3. \A i \in (n + 1)..Len(s) : s[i] \in Bytes BY <1>1
<1>4. SubSeq(s, 1, n) \in Seq(Bytes) /\ Len(SubSeq(s, 1, n)) = IF 1 <= n THEN n - 1 + 1 ELSE 0
  BY <1>1, <1>2, SubSeqProperties
<1>5. /\ SubSeq(s, n + 1, Len(s)) \in Seq(Bytes)
      /\ Len(SubSeq(s, n + 1, Len(s))) = IF n + 1 <= Len(s) THEN Len(s) - (n + 1) + 1 ELSE 0
  BY <1>1, <1>3, SubSeqProperties
<1>6. Cat(SubSeq(s, 1, n), SubSeq(s, n + 1, Len(s))) = s
  <2>1. 1 \in 1..(Len(s) + 1) /\ n \in (1 - 1)..Len(s) /\ Len(s) \in n..Len(s) BY <1>1
  <2>2. SubSeq(s, 1, n) \o SubSeq(s, n + 1, Len(s)) = SubSeq(s, 1, Len(s))
    BY <2>1, ConcatAdjacentSubSeq
  <2> QED BY <2>2, SubSeqFull DEF Cat
<1> QED BY <1>1, <1>4, <1>5, <1>6

\* The bytes of a concatenation, and its parts.
LEMMA CatAt ==
  ASSUME NEW s \in Seq(Bytes), NEW t \in Seq(Bytes)
  PROVE  /\ \A i \in 1..Len(s) : Cat(s, t)[i] = s[i]
         /\ \A i \in 1..Len(t) : Cat(s, t)[Len(s) + i] = t[i]
         /\ \A k \in 0..Len(s) : SubSeq(Cat(s, t), 1, k) = SubSeq(s, 1, k)
         /\ SubSeq(Cat(s, t), Len(s) + 1, Len(Cat(s, t))) = t
<1> DEFINE c == Cat(s, t)
<1>1. /\ c \in Seq(Bytes) /\ Len(c) = Len(s) + Len(t) /\ Len(s) \in Nat /\ Len(t) \in Nat
      /\ \A i \in 1..(Len(s) + Len(t)) : c[i] = IF i <= Len(s) THEN s[i] ELSE t[i - Len(s)]
  BY ConcatProperties DEF Cat
<1> HIDE DEF c
<1>2. \A i \in 1..Len(s) : c[i] = s[i] BY <1>1
<1>3. ASSUME NEW i \in 1..Len(t) PROVE c[Len(s) + i] = t[i]
  <2>1. Len(s) + i \in 1..(Len(s) + Len(t)) /\ ~(Len(s) + i <= Len(s)) /\ (Len(s) + i) - Len(s) = i
    BY <1>1
  <2> QED BY <1>1, <2>1
<1>4. ASSUME NEW k \in 0..Len(s) PROVE SubSeq(c, 1, k) = SubSeq(s, 1, k)
  <2> DEFINE a == SubSeq(c, 1, k)
             b == SubSeq(s, 1, k)
  <2>1. k \in 0..Len(c) /\ k \in Nat BY <1>1
  <2>2. a \in Seq(Bytes) /\ Len(a) = k /\ b \in Seq(Bytes) /\ Len(b) = k BY <1>1, <2>1, Parts
  <2>3. ASSUME NEW i \in 1..k PROVE a[i] = c[i] /\ b[i] = s[i] /\ c[i] = s[i]
    <3>1. i \in 1..Len(s) /\ i \in 1..Len(c) BY <1>1, <2>1
    <3> QED BY <1>2, <3>1
  <2> HIDE DEF a, b
  <2> QED BY <2>2, <2>3, SeqEqual DEF a, b
<1>5. SubSeq(c, Len(s) + 1, Len(c)) = t
  <2> DEFINE a == SubSeq(c, Len(s) + 1, Len(c))
  <2>1. Len(s) \in 0..Len(c) BY <1>1
  <2>2. a \in Seq(Bytes) /\ Len(a) = Len(c) - Len(s) BY <1>1, <2>1, Parts
  <2>3. ASSUME NEW i \in 1..Len(t) PROVE a[i] = t[i]
    <3>1. Len(s) + i \in 1..Len(c) /\ i \in 1..(Len(c) - Len(s)) BY <1>1
    <3>2. a[i] = c[Len(s) + i]
      <4>1. i \in 1..(Len(c) - (Len(s) + 1) + 1) BY <1>1
      <4>2. \A j \in (Len(s) + 1)..Len(c) : c[j] \in Bytes BY <1>1
      <4>3. \A j \in 1..(Len(c) - (Len(s) + 1) + 1) : a[j] = c[(Len(s) + 1) + j - 1]
        BY <1>1, <4>2, SubSeqProperties
      <4>4. (Len(s) + 1) + i - 1 = Len(s) + i BY <1>1
      <4> QED BY <4>1, <4>3, <4>4
    <3> QED BY <1>3, <3>2
  <2>4. Len(a) = Len(t) BY <1>1, <2>2
  <2> HIDE DEF a
  <2> QED BY <2>2, <2>3, <2>4, SeqEqual DEF a
<1> QED BY <1>2, <1>3, <1>4, <1>5 DEF c

\* The chunks of a table, by position.
LEMMA TableIs ==
  ASSUME NEW T \in Seq(Chunk)
  PROVE  /\ Len(T) \in Nat /\ DOMAIN T = 1..Len(T)
         /\ \A i \in 1..Len(T) : T[i] \in Chunk /\ T[i].data \in Seq(Bytes)
<1>1. Len(T) \in Nat /\ DOMAIN T = 1..Len(T) BY LenProperties
<1>2. \A i \in 1..Len(T) : T[i] \in Chunk BY ElementOfSeq
<1>3. \A u \in Chunk : u.data \in Seq(Bytes) BY DEF Chunk
<1> QED BY <1>1, <1>2, <1>3

\* P holds the bytes of the first k chunks.
JoinedUpto(P, D, k) ==
  /\ P \in [0..k -> Seq(Bytes)] /\ P[0] = <<>>
  /\ \A i \in 1..k : P[i] = Cat(P[i - 1], D[i])

\* They can be put together.
LEMMA JoinExists ==
  ASSUME NEW n \in Nat, NEW D \in [1..n -> Seq(Bytes)] PROVE \E P : JoinedUpto(P, D, n)
<1> DEFINE I == {k \in 0..n : \E P : JoinedUpto(P, D, k)}
<1>1. 0 \in I
  <2> DEFINE h == [i \in 0..0 |-> <<>>]
  <2>1. h \in [0..0 -> Seq(Bytes)] /\ h[0] = <<>> BY CatIs
  <2>2. 1..0 = {} OBVIOUS
  <2> HIDE DEF h
  <2>3. JoinedUpto(h, D, 0) BY <2>1, <2>2 DEF JoinedUpto
  <2>4. 0 \in 0..n OBVIOUS
  <2> QED BY <2>3, <2>4, Zenon
<1>2. ASSUME NEW k \in 1..n, k - 1 \in I PROVE k \in I
  <2>1. PICK P : JoinedUpto(P, D, k - 1) BY <1>2
  <2> DEFINE h == [i \in 0..k |-> IF i = k THEN Cat(P[k - 1], D[k]) ELSE P[i]]
  <2>2. /\ P \in [0..(k - 1) -> Seq(Bytes)] /\ P[0] = <<>>
        /\ \A i \in 1..(k - 1) : P[i] = Cat(P[i - 1], D[i])
    BY <2>1 DEF JoinedUpto
  <2>3. P[k - 1] \in Seq(Bytes) BY <2>2
  <2>4. Cat(P[k - 1], D[k]) \in Seq(Bytes) BY <2>3, CatIs
  <2>5. h \in [0..k -> Seq(Bytes)] BY <2>2, <2>4
  <2>6. h[0] = <<>> BY <2>2
  <2>7. ASSUME NEW i \in 1..k PROVE h[i] = Cat(h[i - 1], D[i])
    <3>1. i - 1 \in 0..k /\ i - 1 # k /\ h[i - 1] = P[i - 1] OBVIOUS
    <3>2. CASE i = k BY <3>1, <3>2
    <3>3. CASE i # k
      <4>1. i \in 1..(k - 1) /\ h[i] = P[i] BY <3>3
      <4> HIDE DEF h
      <4> QED BY <2>2, <3>1, <4>1
    <3> QED BY <3>2, <3>3
  <2> HIDE DEF h
  <2>8. JoinedUpto(h, D, k) BY <2>5, <2>6, <2>7 DEF JoinedUpto
  <2>9. k \in 0..n OBVIOUS
  <2> QED BY <2>8, <2>9, Zenon
<1> HIDE DEF I
<1>3. n \in I
  <2>1. n \in 0..n OBVIOUS
  <2> QED BY <1>1, <1>2, <2>1, CountingTo
<1> QED BY <1>3 DEF I

\* FlattenSeq() does so.
LEMMA FlattenIs ==
  ASSUME NEW n \in Nat, NEW D \in [1..n -> Seq(Bytes)], NEW P, JoinedUpto(P, D, n)
  PROVE  FlattenSeq(D) = P[n] /\ P[n] \in Seq(Bytes)
<1>1. D \in Seq(Seq(Bytes)) /\ Len(D) = n OBVIOUS
<1>2. P \in [0..n -> Seq(Bytes)] /\ P[0] = <<>> /\ \A i \in 1..n : P[i] = Cat(P[i - 1], D[i])
  BY DEF JoinedUpto
<1>3. P[n] \in Seq(Bytes) BY <1>2
<1>4. n # 0 => P[1] = D[1]
  <2> SUFFICES ASSUME n # 0 PROVE P[1] = D[1] OBVIOUS
  <2>1. 1 \in 1..n /\ 1 - 1 = 0 OBVIOUS
  <2>2. P[1] = Cat(<<>>, D[1]) BY <1>2, <2>1
  <2> QED BY <2>1, <2>2, CatIs
<1> DEFINE F(f) == [i \in 1..Len(D) |-> IF i = 1 THEN D[i] ELSE f[i - 1] \o D[i]]
           c == CHOOSE f : f = F(f)
           h == [i \in 1..n |-> P[i]]
<1>5. FlattenSeq(D) = IF Len(D) = 0 THEN D ELSE c[Len(D)] BY DEF FlattenSeq
<1>6. CASE n = 0
  <2>1. D = <<>> BY <1>1, <1>6, EmptySeq
  <2> HIDE DEF c
  <2> QED BY <1>1, <1>2, <1>3, <1>5, <1>6, <2>1
<1>7. CASE n # 0
  <2> DEFINE E(f) == [i \in 1..n |-> IF i = 1 THEN D[i] ELSE Cat(f[i - 1], D[i])]
  <2>1. \A f : F(f) = E(f) BY <1>1 DEF Cat
  <2>2. h = E(h)
    <3>1. ASSUME NEW i \in 1..n PROVE P[i] = IF i = 1 THEN D[i] ELSE Cat(h[i - 1], D[i])
      <4>1. CASE i = 1 BY <1>4, <1>7, <4>1
      <4>2. CASE i # 1
        <5>1. i - 1 \in 1..n BY <4>2
        <5>2. h[i - 1] = P[i - 1] BY <5>1
        <5> HIDE DEF h
        <5> QED BY <1>2, <4>2, <5>2
      <4> QED BY <4>1, <4>2
    <3> QED BY <3>1
  <2>3. h = F(h) BY <2>1, <2>2
  <2>4. c = F(c)
    <3> HIDE DEF h
    <3> QED BY <2>3, Zenon
  <2>5. c = E(c) BY <2>1, <2>4
  <2> HIDE DEF c, F
  <2>6. c[1] = D[1] /\ \A i \in 1..n : i # 1 => c[i] = Cat(c[i - 1], D[i])
    <3>1. 1 \in 1..n BY <1>7
    <3>2. ASSUME NEW i \in 1..n PROVE c[i] = IF i = 1 THEN D[i] ELSE Cat(c[i - 1], D[i])
      BY <2>5
    <3> QED BY <3>1, <3>2
  <2> HIDE DEF E
  <2> DEFINE I == {i \in 0..n : i = 0 \/ c[i] = P[i]}
  <2>7. 0 \in I OBVIOUS
  <2>8. ASSUME NEW i \in 1..n, i - 1 \in I PROVE i \in I
    <3>1. CASE i = 1
      <4>1. c[i] = P[i] BY <1>4, <1>7, <2>6, <3>1
      <4> QED BY <4>1
    <3>2. CASE i # 1
      <4>1. i - 1 # 0 BY <3>2
      <4>2. c[i - 1] = P[i - 1] BY <2>8, <4>1
      <4>3. c[i] = P[i] BY <1>2, <2>6, <3>2, <4>2
      <4> QED BY <4>3
    <3> QED BY <3>1, <3>2
  <2> HIDE DEF I
  <2>9. n \in I
    <3>1. n \in 0..n OBVIOUS
    <3> QED BY <2>7, <2>8, <3>1, CountingTo
  <2>10. c[n] = P[n] BY <1>7, <2>9 DEF I
  <2> QED BY <1>1, <1>3, <1>5, <1>7, <2>10
<1> QED BY <1>6, <1>7

\* What Content() computes.
LEMMA ContentIs ==
  ASSUME NEW T \in Seq(Chunk)
  PROVE  /\ Content(T) \in Seq(Bytes)
         /\ \E P : /\ JoinedUpto(P, [i \in 1..Len(T) |-> T[i].data], Len(T))
                   /\ Content(T) = P[Len(T)]
<1> DEFINE D == [i \in 1..Len(T) |-> T[i].data]
           n == Len(T)
<1>1. n \in Nat /\ DOMAIN T = 1..n BY TableIs
<1>2. D \in [1..n -> Seq(Bytes)] BY TableIs
<1>3. Content(T) = FlattenSeq(D) BY <1>1 DEF Content
<1> HIDE DEF D, n
<1>4. PICK P : JoinedUpto(P, D, n) BY <1>1, <1>2, JoinExists
<1>5. FlattenSeq(D) = P[n] /\ P[n] \in Seq(Bytes) BY <1>1, <1>2, <1>4, FlattenIs
<1>6. Content(T) \in Seq(Bytes) /\ JoinedUpto(P, D, n) /\ Content(T) = P[n] BY <1>3, <1>4, <1>5
<1> QED BY <1>6 DEF D, n

\* P joins all n chunks of T.
JoinsAll(P, T, n) == n = Len(T) /\ JoinedUpto(P, [i \in 1..n |-> T[i].data], n)

\* It is what any way of joining the chunks computes.
LEMMA ContentOnly ==
  ASSUME NEW T \in Seq(Chunk), NEW n, NEW P, JoinsAll(P, T, n)
  PROVE  Content(T) = P[n]
<1> DEFINE D == [i \in 1..n |-> T[i].data]
<1>0. n = Len(T) /\ JoinedUpto(P, D, n) BY DEF JoinsAll
<1>1. n \in Nat /\ DOMAIN T = 1..n BY <1>0, TableIs
<1>2. D \in [1..n -> Seq(Bytes)] BY <1>0, TableIs
<1>3. Content(T) = FlattenSeq(D) BY <1>0, <1>1 DEF Content
<1> HIDE DEF D
<1> QED BY <1>0, <1>1, <1>2, <1>3, FlattenIs

\* A pipe without chunks has no bytes.
LEMMA ContentEmpty == Content(<<>>) = <<>>
<1>1. <<>> \in Seq(Chunk) /\ Len(<<>>) = 0 OBVIOUS
<1>2. PICK P : JoinedUpto(P, [i \in 1..0 |-> <<>>[i].data], 0) /\ Content(<<>>) = P[0]
  BY <1>1, ContentIs
<1> QED BY <1>2 DEF JoinedUpto

\* A chunk at the end.
LEMMA ContentAppend ==
  ASSUME NEW T \in Seq(Chunk), NEW u \in Chunk
  PROVE  Content(Append(T, u)) = Cat(Content(T), u.data)
<1> DEFINE n == Len(T)
           A == Append(T, u)
           D == [i \in 1..n |-> T[i].data]
           B == [i \in 1..(n + 1) |-> A[i].data]
<1>1. PICK P : JoinedUpto(P, D, n) /\ Content(T) = P[n] BY ContentIs
<1> DEFINE Q == [i \in 0..(n + 1) |-> IF i = n + 1 THEN Cat(P[n], u.data) ELSE P[i]]
<1>2. n \in Nat /\ A \in Seq(Chunk) /\ Len(A) = n + 1 /\ A[n + 1] = u /\ \A i \in 1..n : A[i] = T[i]
  BY AppendProperties
<1>3. P \in [0..n -> Seq(Bytes)] /\ P[0] = <<>> /\ \A i \in 1..n : P[i] = Cat(P[i - 1], D[i])
  BY <1>1 DEF JoinedUpto
<1> HIDE DEF A
<1>4. B[n + 1] = u.data /\ \A i \in 1..n : B[i] = D[i] BY <1>2
<1>5. Cat(P[n], u.data) \in Seq(Bytes)
  <2>1. u.data \in Seq(Bytes) BY DEF Chunk
  <2>2. P[n] \in Seq(Bytes) BY <1>2, <1>3
  <2> QED BY <2>1, <2>2, CatIs
<1> HIDE DEF D, n
<1>6. JoinedUpto(Q, B, n + 1)
  <2>1. Q \in [0..(n + 1) -> Seq(Bytes)] /\ Q[0] = <<>> BY <1>2, <1>3, <1>5
  <2>2. ASSUME NEW i \in 1..(n + 1) PROVE Q[i] = Cat(Q[i - 1], B[i])
    <3> HIDE DEF B
    <3>1. i - 1 \in 0..(n + 1) /\ i - 1 # n + 1 /\ Q[i - 1] = P[i - 1] BY <1>2
    <3>2. CASE i = n + 1
      <4>1. i - 1 = n /\ Q[i] = Cat(P[n], u.data) BY <1>2, <3>2
      <4> HIDE DEF Q
      <4> QED BY <1>4, <3>1, <3>2, <4>1
    <3>3. CASE i # n + 1
      <4>1. i \in 1..n /\ Q[i] = P[i] BY <1>2, <3>3
      <4> HIDE DEF Q
      <4> QED BY <1>3, <1>4, <3>1, <4>1
    <3> QED BY <3>2, <3>3
  <2> HIDE DEF Q, B
  <2> QED BY <2>1, <2>2 DEF JoinedUpto
<1>7. Q[n + 1] = Cat(P[n], u.data) BY <1>2
<1> HIDE DEF Q
<1>8. Content(A) = Q[n + 1]
  <2>1. n + 1 = Len(A) BY <1>2
  <2> PICK k : k = n + 1 OBVIOUS
  <2>2. JoinsAll(Q, A, k) BY <1>6, <2>1 DEF JoinsAll
  <2> HIDE DEF B
  <2> QED BY <1>2, <2>2, ContentOnly
<1> QED BY <1>1, <1>7, <1>8 DEF A

\* A chunk at the head.
LEMMA ContentPrepend ==
  ASSUME NEW T \in Seq(Chunk), NEW u \in Chunk
  PROVE  Content(<<u>> \o T) = Cat(u.data, Content(T))
<1> DEFINE n == Len(T)
           a == <<u>>
           A == a \o T
           D == [i \in 1..n |-> T[i].data]
           B == [i \in 1..(n + 1) |-> A[i].data]
<1>1. PICK P : JoinedUpto(P, D, n) /\ Content(T) = P[n] BY ContentIs
<1> DEFINE Q == [i \in 0..(n + 1) |-> IF i = 0 THEN <<>> ELSE Cat(u.data, P[i - 1])]
<1>2. a \in Seq(Chunk) /\ Len(a) = 1 /\ a[1] = u OBVIOUS
<1> HIDE DEF a
<1>3. /\ A \in Seq(Chunk) /\ Len(A) = Len(a) + Len(T)
      /\ \A i \in 1..(Len(a) + Len(T)) : A[i] = IF i <= Len(a) THEN a[i] ELSE T[i - Len(a)]
  BY <1>2, ConcatProperties
<1> HIDE DEF A
<1>4. n \in Nat /\ Len(A) = n + 1 /\ A[1] = u /\ \A i \in 1..n : A[i + 1] = T[i]
  <2>1. n \in Nat /\ Len(A) = n + 1 BY <1>2, <1>3
  <2>2. A[1] = u BY <1>2, <1>3, <2>1
  <2>3. ASSUME NEW i \in 1..n PROVE A[i + 1] = T[i]
    <3>1. i + 1 \in 1..(1 + n) /\ ~(i + 1 <= 1) /\ (i + 1) - 1 = i BY <2>1
    <3> QED BY <1>2, <1>3, <3>1
  <2> QED BY <2>1, <2>2, <2>3
<1>5. P \in [0..n -> Seq(Bytes)] /\ P[0] = <<>> /\ \A i \in 1..n : P[i] = Cat(P[i - 1], D[i])
  BY <1>1 DEF JoinedUpto
<1>6. B[1] = u.data /\ \A i \in 1..n : B[i + 1] = D[i]
  <2>1. 1 \in 1..(n + 1) BY <1>4
  <2>2. ASSUME NEW i \in 1..n PROVE i + 1 \in 1..(n + 1) BY <1>4
  <2> QED BY <1>4, <2>1, <2>2
<1>7. u.data \in Seq(Bytes) /\ \A i \in 1..n : D[i] \in Seq(Bytes)
  <2>1. u.data \in Seq(Bytes) BY DEF Chunk
  <2> QED BY <2>1, TableIs
<1> HIDE DEF D, n
<1>8. JoinedUpto(Q, B, n + 1)
  <2> HIDE DEF B
  <2>1. ASSUME NEW i \in 1..(n + 1) PROVE Cat(u.data, P[i - 1]) \in Seq(Bytes)
    <3>1. i - 1 \in 0..n BY <1>4
    <3>2. P[i - 1] \in Seq(Bytes) BY <1>5, <3>1
    <3> QED BY <1>7, <3>2, CatIs
  <2>2. Q \in [0..(n + 1) -> Seq(Bytes)] /\ Q[0] = <<>>
    <3>1. ASSUME NEW i \in 0..(n + 1) PROVE (IF i = 0 THEN <<>> ELSE Cat(u.data, P[i - 1])) \in Seq(Bytes)
      <4>1. CASE i = 0 BY <4>1, CatIs
      <4>2. CASE i # 0
        <5>1. i \in 1..(n + 1) BY <1>4, <4>2
        <5> QED BY <2>1, <4>2, <5>1
      <4> QED BY <4>1, <4>2
    <3>2. 0 \in 0..(n + 1) BY <1>4
    <3> QED BY <3>1, <3>2
  <2>3. \A i \in 1..(n + 1) : i \in 0..(n + 1) /\ Q[i] = Cat(u.data, P[i - 1]) BY <1>4
  <2> HIDE DEF Q
  <2>4. ASSUME NEW i \in 1..(n + 1) PROVE Q[i] = Cat(Q[i - 1], B[i])
    <3>1. CASE i = 1
      <4>1. Q[i - 1] = <<>> /\ Q[i] = Cat(u.data, <<>>) BY <1>5, <2>2, <2>3, <3>1
      <4>2. Cat(u.data, <<>>) = u.data /\ Cat(<<>>, u.data) = u.data BY <1>7, CatIs
      <4> QED BY <1>6, <3>1, <4>1, <4>2
    <3>2. CASE i # 1
      <4>0. PICK j \in 1..n : i = j + 1 /\ i - 1 = j
        <5>1. i - 1 \in 1..n /\ i = (i - 1) + 1 BY <1>4, <3>2
        <5> QED BY <5>1
      <4>1. j - 1 \in 0..n /\ j \in 1..(n + 1) BY <1>4
      <4>2. Q[j] = Cat(u.data, P[j - 1]) BY <2>3, <4>1
      <4>3. P[j] = Cat(P[j - 1], D[j]) BY <1>5
      <4>4. P[j - 1] \in Seq(Bytes) /\ D[j] \in Seq(Bytes) BY <1>5, <1>7, <4>1
      <4>5. Cat(Cat(u.data, P[j - 1]), D[j]) = Cat(u.data, Cat(P[j - 1], D[j])) BY <1>7, <4>4, CatIs
      <4>6. Q[i] = Cat(u.data, P[j]) BY <2>3, <4>0
      <4>7. B[i] = D[j] BY <1>6, <4>0
      <4> QED BY <4>0, <4>2, <4>3, <4>5, <4>6, <4>7
    <3> QED BY <3>1, <3>2
  <2> QED BY <2>2, <2>4 DEF JoinedUpto
<1>9. Q[n + 1] = Cat(u.data, P[n])
  <2>1. n + 1 \in 0..(n + 1) /\ n + 1 # 0 /\ (n + 1) - 1 = n BY <1>4
  <2> QED BY <2>1
<1> HIDE DEF Q
<1>10. Content(A) = Q[n + 1]
  <2>1. n + 1 = Len(A) BY <1>4
  <2> PICK k : k = n + 1 OBVIOUS
  <2>2. JoinsAll(Q, A, k) BY <1>8, <2>1 DEF JoinsAll
  <2> HIDE DEF B
  <2>3. A \in Seq(Chunk) BY <1>3
  <2>4. Content(A) = Q[k] BY <2>2, <2>3, ContentOnly
  <2> QED BY <2>4
<1> QED BY <1>1, <1>9, <1>10 DEF A, a

\* What the last chunk is replaced by follows the bytes of the others.
LEMMA ContentLast ==
  ASSUME NEW T \in Seq(Chunk), Len(T) >= 1, NEW u \in Chunk
  PROVE  \E s \in Seq(Bytes) : /\ Content(T) = Cat(s, T[Len(T)].data)
                               /\ Content([T EXCEPT ![Len(T)] = u]) = Cat(s, u.data)
<1> DEFINE n == Len(T)
           R == [T EXCEPT ![n] = u]
<1>1. n \in Nat /\ n \in 1..n BY TableIs
<1>2. T # <<>> BY <1>1, EmptySeq
<1>3. PICK f \in Seq(Chunk), e \in Chunk : T = Append(f, e) BY <1>2, SequenceEmptyOrAppend
<1>4. Len(f) \in Nat /\ n = Len(f) + 1 /\ T[n] = e /\ \A i \in 1..Len(f) : T[i] = f[i]
  BY <1>3, AppendProperties
<1>5. R \in Seq(Chunk) /\ Len(R) = n /\ R[n] = u /\ \A i \in 1..n : i # n => R[i] = T[i]
  BY <1>1, ReplaceChunk
<1> DEFINE A == Append(f, u)
<1>6. A \in Seq(Chunk) /\ Len(A) = Len(f) + 1 /\ A[Len(f) + 1] = u /\ \A i \in 1..Len(f) : A[i] = f[i]
  BY AppendProperties
<1> HIDE DEF A, R, n
<1>7. R = A
  <2>1. ASSUME NEW i \in 1..n PROVE R[i] = A[i]
    <3>1. CASE i = n BY <1>4, <1>5, <1>6, <3>1
    <3>2. CASE i # n
      <4>1. i \in 1..Len(f) BY <1>4, <3>2
      <4> QED BY <1>4, <1>5, <1>6, <3>2, <4>1
    <3> QED BY <3>1, <3>2
  <2> QED BY <1>4, <1>5, <1>6, <2>1, SeqEqual
<1>8. Content(f) \in Seq(Bytes) BY ContentIs
<1>9. Content(T) = Cat(Content(f), e.data) BY <1>3, ContentAppend
<1>10. Content(R) = Cat(Content(f), u.data) BY <1>7, ContentAppend DEF A
<1> QED BY <1>4, <1>8, <1>9, <1>10 DEF R, n

\* What the first chunk is replaced by precedes the bytes of the others.
LEMMA ContentHead ==
  ASSUME NEW T \in Seq(Chunk), Len(T) >= 1, NEW u \in Chunk
  PROVE  /\ Content(Tail(T)) \in Seq(Bytes)
         /\ Content(T) = Cat(T[1].data, Content(Tail(T)))
         /\ Content([T EXCEPT ![1] = u]) = Cat(u.data, Content(Tail(T)))
<1> DEFINE n == Len(T)
           t == Tail(T)
<1>1. n \in Nat /\ 1 \in 1..n /\ T[1] \in Chunk BY TableIs
<1>2. T # <<>> BY <1>1, EmptySeq
<1>3. t \in Seq(Chunk) /\ Len(t) = n - 1 /\ \A i \in 1..Len(t) : t[i] = T[i + 1]
  BY <1>2, HeadTailProperties
<1> HIDE DEF t, n
<1>4. ASSUME NEW v \in Chunk, NEW R \in Seq(Chunk), Len(R) = n, R[1] = v, \A i \in 1..n : i # 1 => R[i] = T[i]
      PROVE  Content(R) = Cat(v.data, Content(t))
  <2> DEFINE a == <<v>>
             A == a \o t
  <2>1. a \in Seq(Chunk) /\ Len(a) = 1 /\ a[1] = v OBVIOUS
  <2> HIDE DEF a
  <2>2. /\ A \in Seq(Chunk) /\ Len(A) = Len(a) + Len(t)
        /\ \A i \in 1..(Len(a) + Len(t)) : A[i] = IF i <= Len(a) THEN a[i] ELSE t[i - Len(a)]
    <3>1. a \in Seq(Chunk) /\ t \in Seq(Chunk) BY <1>3, <2>1
    <3> QED BY ONLY <3>1, ConcatProperties
  <2> HIDE DEF A
  <2>3. Len(A) = n BY <1>1, <1>3, <2>1, <2>2
  <2>4. ASSUME NEW i \in 1..n PROVE R[i] = A[i]
    <3>1. CASE i = 1 BY <1>1, <1>3, <1>4, <2>1, <2>2, <3>1
    <3>2. CASE i # 1
      <4>1. i - 1 \in 1..Len(t) /\ (i - 1) + 1 = i /\ ~(i <= 1) BY <1>1, <1>3, <3>2
      <4>2. A[i] = t[i - 1] BY <1>1, <1>3, <2>1, <2>2, <4>1
      <4>3. t[i - 1] = T[i] BY <1>3, <4>1
      <4> QED BY <1>4, <3>2, <4>2, <4>3
    <3> QED BY <3>1, <3>2
  <2>5. R = A BY <1>4, <2>2, <2>3, <2>4, SeqEqual
  <2> QED BY <1>3, <2>5, ContentPrepend DEF A, a
<1>5. Content(T) = Cat(T[1].data, Content(t)) BY <1>1, <1>4 DEF n
<1>6. Content([T EXCEPT ![1] = u]) = Cat(u.data, Content(t))
  <2> DEFINE R == [T EXCEPT ![1] = u]
  <2>1. R \in Seq(Chunk) /\ Len(R) = n /\ R[1] = u /\ \A i \in 1..n : i # 1 => R[i] = T[i]
    BY <1>1, ReplaceChunk DEF n
  <2> HIDE DEF R
  <2>2. Content(R) = Cat(u.data, Content(t)) BY <1>4, <2>1
  <2> QED BY <2>2 DEF R
<1>7. Content(t) \in Seq(Bytes) BY <1>3, ContentIs
<1> QED BY <1>5, <1>6, <1>7 DEF t

\* A chunk without bytes.
LEMMA NewChunk ==
  /\ newPipeUD \in Chunk /\ newPipeUD.data = <<>> /\ newPipeUD.start = 0
  /\ Len(newPipeUD.data) = 0
<1>1. newPipeUD = [start |-> 0, data |-> <<>>] BY DEF newPipeUD
<1>2. <<>> \in Seq(Bytes) /\ Len(<<>>) = 0 BY EmptySeq
<1> QED BY <1>1, <1>2 DEF Chunk

\* The states of the loop of pipe_write_aux(): only the last chunk may be empty,
\* and only while bytes are left for it.
WriteStates ==
  {w \in [table : Seq(Chunk), rest : Seq(Bytes)] :
     /\ Len(w.table) >= 1
     /\ \A i \in 1..Len(w.table) : Fits(w.table[i]) /\ (i < Len(w.table) => Holds(w.table[i]))
     /\ w.rest = <<>> => Holds(w.table[Len(w.table)])}

\* The last chunk has room, and a string that fits in one piece fits where it is.
LEMMA TailHasRoom ==
  ASSUME LUAL_BUFFERSIZE \in Nat \ {0}, NEW T \in Seq(Chunk), NEW l \in Nat, l >= 1, Len(T) >= 1,
         \A i \in 1..Len(T) : Fits(T[i]) /\ (i < Len(T) => Holds(T[i]))
  PROVE  LET R == TailReady(T, l)
             ud == R[Len(R)]
         IN /\ R \in Seq(Chunk) /\ Len(R) >= 1 /\ Content(R) = Content(T)
            /\ \A i \in 1..Len(R) : i < Len(R) => Holds(R[i])
            /\ Fits(ud) /\ Len(ud.data) < LUAL_BUFFERSIZE
            /\ ud.start = 0 \/ ud.start + Len(ud.data) + l <= LUAL_BUFFERSIZE
<1> DEFINE R == TailReady(T, l)
           last == T[Len(T)]
           Goal == /\ R \in Seq(Chunk) /\ Len(R) >= 1 /\ Content(R) = Content(T)
                   /\ \A i \in 1..Len(R) : i < Len(R) => Holds(R[i])
                   /\ Fits(R[Len(R)]) /\ Len(R[Len(R)].data) < LUAL_BUFFERSIZE
                   /\ \/ R[Len(R)].start = 0
                      \/ R[Len(R)].start + Len(R[Len(R)].data) + l <= LUAL_BUFFERSIZE
<1> SUFFICES Goal OBVIOUS
<1>1. Len(T) \in Nat /\ Len(T) \in 1..Len(T) OBVIOUS
<1>2. Fits(last) BY <1>1
<1>3. last \in Chunk /\ last.start \in Nat /\ last.data \in Seq(Bytes) /\ Len(last.data) \in Nat
      /\ last.start + Len(last.data) <= LUAL_BUFFERSIZE
  BY <1>2 DEF Fits, Chunk
<1>4. R = CASE Len(last.data) = LUAL_BUFFERSIZE -> Append(T, newPipeUD)
            [] LUAL_BUFFERSIZE - (last.start + Len(last.data)) < l /\ Len(last.data) # LUAL_BUFFERSIZE ->
                 [T EXCEPT ![Len(T)].start = 0]
            [] OTHER -> T
  BY DEF TailReady, Last, Used, End
<1> HIDE DEF R, last
<1>5. CASE Len(last.data) = LUAL_BUFFERSIZE
  <2> DEFINE new == newPipeUD
  <2>1. new \in Chunk /\ new.start = 0 /\ new.data = <<>> /\ Len(new.data) = 0
    BY NewChunk
  <2>2. Fits(new) BY <2>1 DEF Fits
  <2>3. Holds(last) BY <1>2, <1>5 DEF Holds
  <2>4. R = Append(T, new) BY <1>4, <1>5
  <2> HIDE DEF new
  <2>5. R \in Seq(Chunk) /\ Len(R) = Len(T) + 1 /\ R[Len(T) + 1] = new
        /\ \A i \in 1..Len(T) : R[i] = T[i]
    BY <2>1, <2>4, AppendProperties
  <2>6. ASSUME NEW i \in 1..Len(R), i < Len(R) PROVE Holds(R[i])
    <3>1. i \in 1..Len(T) /\ R[i] = T[i] BY <1>1, <2>5, <2>6
    <3>2. CASE i < Len(T) BY <3>1, <3>2
    <3>3. CASE i = Len(T) BY <2>3, <3>1, <3>3 DEF last
    <3> QED BY <1>1, <3>1, <3>2, <3>3
  <2>7. Content(R) = Content(T)
    <3>1. Content(R) = Cat(Content(T), <<>>) BY <2>1, <2>4, ContentAppend
    <3>2. Content(T) \in Seq(Bytes) BY ContentIs
    <3> QED BY <3>1, <3>2, CatIs
  <2> QED BY <1>1, <2>1, <2>2, <2>5, <2>6, <2>7
<1>6. CASE Len(last.data) # LUAL_BUFFERSIZE /\ LUAL_BUFFERSIZE - (last.start + Len(last.data)) < l
  <2> DEFINE u == [last EXCEPT !.start = 0]
  <2>1. u \in Chunk /\ u.start = 0 /\ u.data = last.data BY <1>3 DEF Chunk
  <2>2. Fits(u) /\ Len(u.data) < LUAL_BUFFERSIZE BY <1>3, <1>6, <2>1 DEF Fits
  <2>3. R = [T EXCEPT ![Len(T)] = u] BY <1>4, <1>6 DEF last
  <2> HIDE DEF u
  <2>4. R \in Seq(Chunk) /\ Len(R) = Len(T) /\ R[Len(T)] = u
        /\ \A i \in 1..Len(T) : i # Len(T) => R[i] = T[i]
    BY <1>1, <2>1, <2>3, ReplaceChunk
  <2>5. ASSUME NEW i \in 1..Len(R), i < Len(R) PROVE Holds(R[i])
    <3>1. i \in 1..Len(T) /\ i < Len(T) /\ R[i] = T[i] BY <1>1, <2>4, <2>5
    <3> QED BY <3>1
  <2>6. Content(R) = Content(T)
    <3>1. PICK x \in Seq(Bytes) : Content(T) = Cat(x, last.data) /\ Content(R) = Cat(x, u.data)
      BY <2>1, <2>3, ContentLast DEF last
    <3> QED BY <2>1, <3>1
  <2> QED BY <1>1, <2>1, <2>2, <2>4, <2>5, <2>6
<1>7. CASE Len(last.data) # LUAL_BUFFERSIZE /\ ~(LUAL_BUFFERSIZE - (last.start + Len(last.data)) < l)
  <2>1. R = T BY <1>4, <1>7
  <2>2. Len(last.data) < LUAL_BUFFERSIZE /\ last.start + Len(last.data) + l <= LUAL_BUFFERSIZE
    BY <1>3, <1>7
  <2> QED BY <1>1, <1>2, <2>1, <2>2 DEF last
<1> QED BY <1>5, <1>6, <1>7

\* What fits into a chunk is a byte at least, and not more than there is.
LEMMA FittingIs ==
  ASSUME LUAL_BUFFERSIZE \in Nat \ {0}, NEW ud \in Chunk, Len(ud.data) < LUAL_BUFFERSIZE,
         NEW l \in Nat, l >= 1
  PROVE  /\ Fitting(ud, l) \in 1..l
         /\ Len(ud.data) + Fitting(ud, l) <= LUAL_BUFFERSIZE
<1>1. Len(ud.data) \in Nat BY DEF Chunk
<1> PICK k \in Nat : k = Len(ud.data) BY <1>1
<1>2. Fitting(ud, l) = IF l <= LUAL_BUFFERSIZE - k THEN l ELSE LUAL_BUFFERSIZE - k
  BY DEF Fitting, Used
<1>3. k < LUAL_BUFFERSIZE OBVIOUS
<1>4. CASE l <= LUAL_BUFFERSIZE - k
  <2>1. Fitting(ud, l) = l BY <1>2, <1>4
  <2> QED BY <1>3, <1>4, <2>1
<1>5. CASE ~(l <= LUAL_BUFFERSIZE - k)
  <2>1. Fitting(ud, l) = LUAL_BUFFERSIZE - k BY <1>2, <1>5
  <2> QED BY <1>3, <1>5, <2>1
<1> QED BY <1>4, <1>5

\* A round of the loop of pipe_write_aux() takes a byte at least.
LEMMA WriteRound ==
  ASSUME LUAL_BUFFERSIZE \in Nat \ {0}, NEW w \in WriteStates
  PROVE  /\ WriteStep(w) \in WriteStates
         /\ Cat(Content(WriteStep(w).table), WriteStep(w).rest) = Cat(Content(w.table), w.rest)
         /\ w.rest # <<>> => Len(WriteStep(w).rest) < Len(w.rest)
         /\ w.rest = <<>> => WriteStep(w) = w
<1>1. CASE w.rest = <<>> BY <1>1 DEF WriteStep
<1>2. CASE w.rest # <<>>
  <2> DEFINE T == w.table
             s == w.rest
             R == TailReady(T, Len(s))
             ud == R[Len(R)]
             n == Fitting(ud, Len(s))
             p == SubSeq(s, 1, n)
             q == SubSeq(s, n + 1, Len(s))
             u == [ud EXCEPT !.data = ud.data \o p]
             P == [R EXCEPT ![Len(R)] = u]
  <2>1. /\ T \in Seq(Chunk) /\ s \in Seq(Bytes) /\ Len(T) >= 1
        /\ \A i \in 1..Len(T) : Fits(T[i]) /\ (i < Len(T) => Holds(T[i]))
    BY DEF WriteStates
  <2>2. Len(s) \in Nat /\ Len(s) >= 1 BY <1>2, <2>1, EmptySeq
  <2>3. WriteStep(w) = [table |-> P, rest |-> q]
    BY <1>2 DEF WriteStep, PutTail, Last
  <2> HIDE DEF T, s
  <2>4. /\ R \in Seq(Chunk) /\ Len(R) >= 1 /\ Content(R) = Content(T)
        /\ \A i \in 1..Len(R) : i < Len(R) => Holds(R[i])
        /\ Fits(ud) /\ Len(ud.data) < LUAL_BUFFERSIZE
        /\ ud.start = 0 \/ ud.start + Len(ud.data) + Len(s) <= LUAL_BUFFERSIZE
    BY <2>1, <2>2, TailHasRoom
  <2> HIDE DEF R
  <2>5. Len(R) \in Nat /\ Len(R) \in 1..Len(R) /\ Len(R) >= 1 BY <2>4
  <2>6. ud \in Chunk /\ ud.start \in Nat /\ ud.data \in Seq(Bytes) /\ Len(ud.data) \in Nat
        /\ ud.start + Len(ud.data) <= LUAL_BUFFERSIZE
    BY <2>4 DEF Fits, Chunk
  <2> HIDE DEF ud
  <2>7. n \in 1..Len(s) /\ Len(ud.data) + n <= LUAL_BUFFERSIZE BY <2>2, <2>4, <2>6, FittingIs
  <2> HIDE DEF n
  <2>8. n \in 0..Len(s) /\ n \in Nat BY <2>2, <2>7
  <2>9. p \in Seq(Bytes) /\ Len(p) = n /\ q \in Seq(Bytes) /\ Len(q) = Len(s) - n /\ Cat(p, q) = s
    BY <2>1, <2>8, Parts
  <2> HIDE DEF p, q
  <2>10. ud.data \o p \in Seq(Bytes) /\ Len(ud.data \o p) = Len(ud.data) + n
    BY <2>6, <2>9, ConcatProperties
  <2>11. u \in Chunk /\ u.start = ud.start /\ u.data = ud.data \o p BY <2>6, <2>10 DEF Chunk
  <2> HIDE DEF u
  <2>12. Holds(u)
    <3>1. u.start + Len(u.data) <= LUAL_BUFFERSIZE
      BY <2>2, <2>4, <2>6, <2>7, <2>8, <2>10, <2>11
    <3>2. Len(u.data) >= 1 BY <2>6, <2>7, <2>8, <2>10, <2>11
    <3> QED BY <2>11, <3>1, <3>2 DEF Holds, Fits
  <2>13. P \in Seq(Chunk) /\ Len(P) = Len(R) /\ P[Len(R)] = u
         /\ \A i \in 1..Len(R) : i # Len(R) => P[i] = R[i]
    BY <2>4, <2>5, <2>11, ReplaceChunk
  <2>14. Cat(Content(P), q) = Cat(Content(T), s)
    <3>1. PICK x \in Seq(Bytes) : Content(R) = Cat(x, ud.data) /\ Content(P) = Cat(x, u.data)
      BY <2>4, <2>11, ContentLast DEF ud
    <3>2. u.data = Cat(ud.data, p) BY <2>11 DEF Cat
    <3> PICK e \in Seq(Bytes) : e = ud.data BY <2>6
    <3> HIDE DEF P
    <3>3. Cat(Cat(x, Cat(e, p)), q) = Cat(x, Cat(Cat(e, p), q))
      <4>1. Cat(e, p) \in Seq(Bytes) BY <2>9, CatIs
      <4> QED BY <2>9, <4>1, CatIs
    <3>4. Cat(Cat(e, p), q) = Cat(e, Cat(p, q)) BY ONLY <2>9, e \in Seq(Bytes), CatIs
    <3>5. Cat(Cat(x, e), s) = Cat(x, Cat(e, s)) BY ONLY <2>1, <3>1, e \in Seq(Bytes), CatIs
    <3> QED BY <2>4, <2>9, <3>1, <3>2, <3>3, <3>4, <3>5
  <2> HIDE DEF P
  <2>15. ASSUME NEW i \in 1..Len(P) PROVE Holds(P[i])
    <3>1. CASE i = Len(R) BY <2>12, <2>13, <3>1
    <3>2. CASE i # Len(R)
      <4>1. i \in 1..Len(R) /\ i < Len(R) BY <2>5, <2>13, <3>2
      <4> QED BY <2>4, <2>13, <3>2, <4>1
    <3> QED BY <3>1, <3>2
  <2>16. [table |-> P, rest |-> q] \in WriteStates
    <3>1. Len(P) \in 1..Len(P) BY <2>5, <2>13
    <3> QED BY <2>5, <2>9, <2>13, <2>15, <3>1 DEF WriteStates, Holds
  <2>17. Len(q) < Len(s) BY <2>2, <2>7, <2>9
  <2> QED BY <1>2, <2>3, <2>14, <2>16, <2>17 DEF s, T
<1> QED BY <1>1, <1>2

\* pipe_write_aux() leaves chunks that hold something, within their buffers.
LEMMA WriteKeeps ==
  ASSUME LUAL_BUFFERSIZE \in Nat \ {0}, NEW T, NEW s, [table |-> T, rest |-> s] \in WriteStates
  PROVE  WriteLoop(T, s) \in Tables /\ Content(WriteLoop(T, s)) = Cat(Content(T), s)
<1> DEFINE n == Len(s)
           x == [table |-> T, rest |-> s]
           F(f) == [i \in 0..Len(s) |-> IF i = 0 THEN [table |-> T, rest |-> s] ELSE WriteStep(f[i - 1])]
           c == CHOOSE f : f = F(f)
           G == [w \in WriteStates |-> WriteStep(w)]
<1>1. WriteLoop(T, s) = c[n].table BY DEF WriteLoop
<1>2. s \in Seq(Bytes) /\ n \in Nat BY DEF WriteStates
<1>3. \E f : f = F(f)
  <2>1. G \in [WriteStates -> WriteStates] BY WriteRound
  <2>2. PICK f : Rounds(WriteStates, G, x, n, f)
    <3> HIDE DEF G, n, x
    <3>1. x \in WriteStates BY DEF x
    <3> QED BY <1>2, <2>1, <3>1, RoundsExist
  <2>3. f \in [0..n -> WriteStates] /\ f[0] = x /\ \A i \in 1..n : f[i] = G[f[i - 1]]
    BY <2>2 DEF Rounds
  <2>4. ASSUME NEW i \in 0..n PROVE f[i] = IF i = 0 THEN x ELSE WriteStep(f[i - 1])
    <3>1. CASE i # 0
      <4>1. i - 1 \in 0..n /\ i \in 1..n BY <1>2, <3>1
      <4>2. f[i - 1] \in WriteStates BY <2>3, <4>1
      <4> QED BY <2>3, <3>1, <4>1, <4>2
    <3> QED BY <2>3, <3>1
  <2>5. f = F(f) BY <2>3, <2>4
  <2> QED BY <2>5
<1>4. c = F(c) BY <1>3, Zenon
<1> HIDE DEF c
<1>5. c[0] = x /\ \A i \in 1..n : c[i] = WriteStep(c[i - 1])
  BY <1>2, <1>4
<1> DEFINE I == {i \in 0..n : c[i] \in WriteStates /\ Len(c[i].rest) <= n - i
                               /\ Cat(Content(c[i].table), c[i].rest) = Cat(Content(T), s)}
<1>6. 0 \in I BY <1>2, <1>5
<1>7. ASSUME NEW i \in 1..n, i - 1 \in I PROVE i \in I
  <2> DEFINE w == c[i - 1]
  <2>1. /\ w \in WriteStates /\ Len(w.rest) <= n - (i - 1) /\ c[i] = WriteStep(w)
        /\ Cat(Content(w.table), w.rest) = Cat(Content(T), s)
    BY <1>5, <1>7
  <2>2. Len(w.rest) \in Nat /\ i \in Nat BY <2>1 DEF WriteStates
  <2> HIDE DEF w
  <2>3. c[i] \in WriteStates /\ Cat(Content(c[i].table), c[i].rest) = Cat(Content(T), s)
    BY <2>1, WriteRound
  <2>4. Len(c[i].rest) \in Nat BY <2>3 DEF WriteStates
  <2>5. CASE w.rest = <<>>
    <3>1. c[i] = w /\ Len(w.rest) = 0 BY <2>1, <2>5, WriteRound
    <3> QED BY <1>2, <2>3, <3>1
  <2>6. CASE w.rest # <<>>
    <3>1. Len(c[i].rest) < Len(w.rest) BY <2>1, <2>6, WriteRound
    <3> QED BY <1>2, <2>1, <2>2, <2>3, <2>4, <3>1
  <2> QED BY <2>5, <2>6
<1> HIDE DEF I, n
<1>8. n \in I
  <2>1. n \in 0..n BY <1>2
  <2> QED BY <1>2, <1>6, <1>7, <2>1, CountingTo
<1>9. c[n] \in WriteStates /\ Len(c[n].rest) <= 0 /\ Cat(Content(c[n].table), c[n].rest) = Cat(Content(T), s)
  BY <1>2, <1>8 DEF I
<1>10. c[n].rest = <<>>
  <2>1. c[n].rest \in Seq(Bytes) BY <1>9 DEF WriteStates
  <2> QED BY <1>9, <2>1, EmptySeq
<1>11. c[n].table \in Tables
  <2> DEFINE P == c[n].table
  <2>1. P \in Seq(Chunk) /\ Len(P) >= 1 /\ Holds(P[Len(P)])
        /\ \A i \in 1..Len(P) : i < Len(P) => Holds(P[i])
    BY <1>9, <1>10 DEF WriteStates
  <2> HIDE DEF P
  <2>2. ASSUME NEW i \in 1..Len(P) PROVE Holds(P[i])
    <3>1. i < Len(P) \/ i = Len(P) BY <2>1
    <3> QED BY <2>1, <3>1
  <2>3. P \in Tables BY <2>1, <2>2 DEF Tables
  <2> QED BY <2>3 DEF P
<1>12. Content(c[n].table) = Cat(Content(T), s)
  <2>1. Content(c[n].table) \in Seq(Bytes) BY <1>11, ContentIs DEF Tables
  <2> QED BY <1>9, <1>10, <2>1, CatIs
<1> QED BY <1>1, <1>11, <1>12

\* The states of the loop of pipe_unread(): only the first chunk may be empty,
\* and only while bytes are left for it.
UnreadStates ==
  {w \in [table : Seq(Chunk), rest : Seq(Bytes)] :
     /\ Len(w.table) >= 1
     /\ \A i \in 1..Len(w.table) : Fits(w.table[i]) /\ (i > 1 => Holds(w.table[i]))
     /\ w.rest = <<>> => Holds(w.table[1])}

\* The first chunk has room, and it is before its bytes: enough, or all there is.
LEMMA HeadHasRoom ==
  ASSUME LUAL_BUFFERSIZE \in Nat \ {0}, NEW T \in Seq(Chunk), NEW l \in Nat, l >= 1, Len(T) >= 1,
         \A i \in 1..Len(T) : Fits(T[i]) /\ (i > 1 => Holds(T[i]))
  PROVE  LET R == HeadReady(T, l)
             ud == R[1]
         IN /\ R \in Seq(Chunk) /\ Len(R) >= 1 /\ Content(R) = Content(T)
            /\ \A i \in 1..Len(R) : i > 1 => Holds(R[i])
            /\ Fits(ud) /\ Len(ud.data) < LUAL_BUFFERSIZE
            /\ ud.start >= l \/ ud.start + Len(ud.data) = LUAL_BUFFERSIZE
<1> DEFINE R == HeadReady(T, l)
           head == T[1]
           Goal == /\ R \in Seq(Chunk) /\ Len(R) >= 1 /\ Content(R) = Content(T)
                   /\ \A i \in 1..Len(R) : i > 1 => Holds(R[i])
                   /\ Fits(R[1]) /\ Len(R[1].data) < LUAL_BUFFERSIZE
                   /\ R[1].start >= l \/ R[1].start + Len(R[1].data) = LUAL_BUFFERSIZE
<1> SUFFICES Goal OBVIOUS
<1>1. Len(T) \in Nat /\ 1 \in 1..Len(T) OBVIOUS
<1>2. Fits(head) BY <1>1
<1>3. head \in Chunk /\ head.start \in Nat /\ head.data \in Seq(Bytes) /\ Len(head.data) \in Nat
      /\ head.start + Len(head.data) <= LUAL_BUFFERSIZE
  BY <1>2 DEF Fits, Chunk
<1> DEFINE new == [newPipeUD EXCEPT !.start = LUAL_BUFFERSIZE]
<1>4. R = CASE Len(head.data) = LUAL_BUFFERSIZE -> <<new>> \o T
            [] head.start < l /\ Len(head.data) # LUAL_BUFFERSIZE ->
                 [T EXCEPT ![1].start = LUAL_BUFFERSIZE - Len(head.data)]
            [] OTHER -> T
  <2>1. Head(T) = head OBVIOUS
  <2> QED BY <2>1 DEF HeadReady, Used
<1>5. new \in Chunk /\ new.start = LUAL_BUFFERSIZE /\ new.data = <<>> /\ Len(new.data) = 0
  <2>1. <<>> \in Seq(Bytes) /\ Len(<<>>) = 0 OBVIOUS
  <2>2. new = [start |-> LUAL_BUFFERSIZE, data |-> <<>>] BY DEF newPipeUD
  <2> HIDE DEF new
  <2> QED BY <2>1, <2>2 DEF Chunk
<1> HIDE DEF R, head, new
<1>6. CASE Len(head.data) = LUAL_BUFFERSIZE
  <2>1. Fits(new) BY <1>5 DEF Fits
  <2>2. Holds(head) BY <1>2, <1>6 DEF Holds
  <2>3. R = <<new>> \o T BY <1>4, <1>6
  <2>4. <<new>> \in Seq(Chunk) /\ Len(<<new>>) = 1 /\ <<new>>[1] = new BY <1>5
  <2>5. R \in Seq(Chunk) /\ Len(R) = 1 + Len(T) /\ R[1] = new
        /\ \A i \in 1..Len(R) : i > 1 => R[i] = T[i - 1]
    <3> HIDE DEF Goal
    <3> DEFINE a == <<new>>
    <3>1. a \in Seq(Chunk) /\ Len(a) = 1 /\ a[1] = new BY <2>4
    <3> HIDE DEF a
    <3>2. R = a \o T BY <2>3 DEF a
    <3>3. /\ a \o T \in Seq(Chunk) /\ Len(a \o T) = Len(a) + Len(T)
          /\ \A i \in 1..(Len(a) + Len(T)) :
               (a \o T)[i] = IF i <= Len(a) THEN a[i] ELSE T[i - Len(a)]
      BY <3>1, ConcatProperties
    <3> QED BY <1>1, <3>1, <3>2, <3>3
  <2>6. ASSUME NEW i \in 1..Len(R), i > 1 PROVE Holds(R[i])
    <3>1. i - 1 \in 1..Len(T) /\ R[i] = T[i - 1] BY <1>1, <2>5, <2>6
    <3>2. CASE i - 1 > 1 BY <3>1, <3>2
    <3>3. CASE i - 1 = 1 BY <2>2, <3>1, <3>3 DEF head
    <3> QED BY <1>1, <3>1, <3>2, <3>3
  <2>7. Content(R) = Content(T)
    <3>1. Content(R) = Cat(<<>>, Content(T)) BY <1>5, <2>3, ContentPrepend
    <3>2. Content(T) \in Seq(Bytes) BY ContentIs
    <3> QED BY <3>1, <3>2, CatIs
  <2> QED BY <1>1, <1>5, <2>1, <2>5, <2>6, <2>7
<1>7. CASE Len(head.data) # LUAL_BUFFERSIZE /\ head.start < l
  <2> DEFINE u == [head EXCEPT !.start = LUAL_BUFFERSIZE - Len(head.data)]
  <2>1. LUAL_BUFFERSIZE - Len(head.data) \in Nat BY <1>3
  <2>2. u \in Chunk /\ u.start = LUAL_BUFFERSIZE - Len(head.data) /\ u.data = head.data
    BY <1>3, <2>1 DEF Chunk
  <2>3. /\ Fits(u) /\ Len(u.data) < LUAL_BUFFERSIZE
        /\ u.start + Len(u.data) = LUAL_BUFFERSIZE
    BY <1>3, <1>7, <2>2 DEF Fits
  <2>4. R = [T EXCEPT ![1] = u] BY <1>4, <1>7 DEF head
  <2> HIDE DEF u
  <2>5. R \in Seq(Chunk) /\ Len(R) = Len(T) /\ R[1] = u
        /\ \A i \in 1..Len(T) : i # 1 => R[i] = T[i]
    BY <1>1, <2>2, <2>4, ReplaceChunk
  <2>6. ASSUME NEW i \in 1..Len(R), i > 1 PROVE Holds(R[i])
    <3>1. i \in 1..Len(T) /\ R[i] = T[i] BY <1>1, <2>5, <2>6
    <3> QED BY <2>6, <3>1
  <2>7. Content(R) = Content(T) BY <2>2, <2>4, ContentHead DEF head
  <2> QED BY <1>1, <2>2, <2>3, <2>5, <2>6, <2>7
<1>8. CASE Len(head.data) # LUAL_BUFFERSIZE /\ ~(head.start < l)
  <2>1. R = T BY <1>4, <1>8
  <2>2. Len(head.data) < LUAL_BUFFERSIZE /\ head.start >= l BY <1>3, <1>8
  <2> QED BY <1>1, <1>2, <2>1, <2>2 DEF head
<1> QED BY <1>6, <1>7, <1>8

\* A round of the loop of pipe_unread() takes a byte at least.
LEMMA UnreadRound ==
  ASSUME LUAL_BUFFERSIZE \in Nat \ {0}, NEW w \in UnreadStates
  PROVE  /\ UnreadStep(w) \in UnreadStates
         /\ Cat(UnreadStep(w).rest, Content(UnreadStep(w).table)) = Cat(w.rest, Content(w.table))
         /\ w.rest # <<>> => Len(UnreadStep(w).rest) < Len(w.rest)
         /\ w.rest = <<>> => UnreadStep(w) = w
<1>1. CASE w.rest = <<>> BY <1>1 DEF UnreadStep
<1>2. CASE w.rest # <<>>
  <2> DEFINE T == w.table
             s == w.rest
             R == HeadReady(T, Len(s))
             ud == R[1]
             n == Fitting(ud, Len(s))
             l == Len(s) - n
             p == SubSeq(s, l + 1, Len(s))
             q == SubSeq(s, 1, l)
             u == [start |-> ud.start - Len(p), data |-> p \o ud.data]
             P == [R EXCEPT ![1] = u]
  <2>1. /\ T \in Seq(Chunk) /\ s \in Seq(Bytes) /\ Len(T) >= 1
        /\ \A i \in 1..Len(T) : Fits(T[i]) /\ (i > 1 => Holds(T[i]))
    BY DEF UnreadStates
  <2>2. Len(s) \in Nat /\ Len(s) >= 1 BY <1>2, <2>1, EmptySeq
  <2> HIDE DEF T, s
  <2>3. /\ R \in Seq(Chunk) /\ Len(R) >= 1 /\ Content(R) = Content(T)
        /\ \A i \in 1..Len(R) : i > 1 => Holds(R[i])
        /\ Fits(ud) /\ Len(ud.data) < LUAL_BUFFERSIZE
        /\ ud.start >= Len(s) \/ ud.start + Len(ud.data) = LUAL_BUFFERSIZE
    BY <2>1, <2>2, HeadHasRoom
  <2>4. UnreadStep(w) = [table |-> P, rest |-> q]
    <3>1. Head(R) = R[1] BY <2>3
    <3>2. UnreadStep(w) =
            [table |-> PutHead(R, SubSeq(s, (Len(s) - Fitting(Head(R), Len(s))) + 1, Len(s))),
             rest |-> SubSeq(s, 1, Len(s) - Fitting(Head(R), Len(s)))]
      BY <1>2 DEF UnreadStep, T, s
    <3> QED BY <3>1, <3>2 DEF PutHead
  <2> HIDE DEF R
  <2>5. Len(R) \in Nat /\ 1 \in 1..Len(R) /\ Len(R) >= 1 BY <2>3
  <2>6. ud \in Chunk /\ ud.start \in Nat /\ ud.data \in Seq(Bytes) /\ Len(ud.data) \in Nat
        /\ ud.start + Len(ud.data) <= LUAL_BUFFERSIZE
    BY <2>3 DEF Fits, Chunk
  <2> HIDE DEF ud
  <2>7. n \in 1..Len(s) /\ Len(ud.data) + n <= LUAL_BUFFERSIZE BY <2>2, <2>3, <2>6, FittingIs
  <2> HIDE DEF n
  <2>8. l \in 0..Len(s) /\ n \in Nat /\ Len(s) - l = n /\ l < Len(s) BY <2>2, <2>7
  <2> HIDE DEF l
  <2>9. p \in Seq(Bytes) /\ Len(p) = n /\ q \in Seq(Bytes) /\ Len(q) = l /\ Cat(q, p) = s
    BY <2>1, <2>8, Parts
  <2> HIDE DEF p, q
  <2>10. p \o ud.data \in Seq(Bytes) /\ Len(p \o ud.data) = n + Len(ud.data)
    BY <2>6, <2>9, ConcatProperties
  <2>11. ud.start - n \in Nat BY <2>2, <2>3, <2>6, <2>7, <2>8
  <2>12. u \in Chunk /\ u.start = ud.start - n /\ u.data = p \o ud.data
    BY <2>9, <2>10, <2>11 DEF Chunk
  <2> HIDE DEF u
  <2>13. Holds(u)
    <3>1. u.start + Len(u.data) <= LUAL_BUFFERSIZE BY <2>6, <2>8, <2>10, <2>12
    <3>2. Len(u.data) >= 1 BY <2>6, <2>7, <2>8, <2>10, <2>12
    <3> QED BY <2>12, <3>1, <3>2 DEF Holds, Fits
  <2>14. P \in Seq(Chunk) /\ Len(P) = Len(R) /\ P[1] = u
         /\ \A i \in 1..Len(R) : i # 1 => P[i] = R[i]
    BY <2>3, <2>5, <2>12, ReplaceChunk
  <2>15. Cat(q, Content(P)) = Cat(s, Content(T))
    <3> DEFINE x == Content(Tail(R))
    <3>1. x \in Seq(Bytes) /\ Content(R) = Cat(ud.data, x) /\ Content(P) = Cat(u.data, x)
      BY <2>3, <2>12, ContentHead DEF ud
    <3>2. u.data = Cat(p, ud.data) BY <2>12 DEF Cat
    <3> HIDE DEF x
    <3>3. Cat(Cat(p, ud.data), x) = Cat(p, Cat(ud.data, x)) BY <2>6, <2>9, <3>1, CatIs
    <3>4. Cat(ud.data, x) \in Seq(Bytes) BY <2>6, <3>1, CatIs
    <3>5. Cat(q, Cat(p, Cat(ud.data, x))) = Cat(s, Cat(ud.data, x)) BY <2>9, <3>4, CatIs
    <3> QED BY <2>3, <3>1, <3>2, <3>3, <3>5
  <2> HIDE DEF P
  <2>16. ASSUME NEW i \in 1..Len(P) PROVE Holds(P[i])
    <3>1. CASE i = 1 BY <2>13, <2>14, <3>1
    <3>2. CASE i # 1
      <4>1. i \in 1..Len(R) /\ i > 1 BY <2>5, <2>14, <3>2
      <4> QED BY <2>3, <2>14, <3>2, <4>1
    <3> QED BY <3>1, <3>2
  <2>17. [table |-> P, rest |-> q] \in UnreadStates
    <3>1. 1 \in 1..Len(P) BY <2>5, <2>14
    <3> QED BY <2>5, <2>9, <2>14, <2>16, <3>1 DEF UnreadStates, Holds
  <2>18. Len(q) < Len(s) BY <2>8, <2>9
  <2> QED BY <1>2, <2>4, <2>15, <2>17, <2>18 DEF s, T
<1> QED BY <1>1, <1>2

\* pipe_unread() leaves chunks that hold something, within their buffers.
LEMMA UnreadKeeps ==
  ASSUME LUAL_BUFFERSIZE \in Nat \ {0}, NEW T, NEW s, [table |-> T, rest |-> s] \in UnreadStates
  PROVE  UnreadLoop(T, s) \in Tables /\ Content(UnreadLoop(T, s)) = Cat(s, Content(T))
<1> DEFINE n == Len(s)
           x == [table |-> T, rest |-> s]
           F(f) == [i \in 0..Len(s) |-> IF i = 0 THEN [table |-> T, rest |-> s] ELSE UnreadStep(f[i - 1])]
           c == CHOOSE f : f = F(f)
           G == [w \in UnreadStates |-> UnreadStep(w)]
<1>1. UnreadLoop(T, s) = c[n].table BY DEF UnreadLoop
<1>2. s \in Seq(Bytes) /\ n \in Nat BY DEF UnreadStates
<1>3. \E f : f = F(f)
  <2>1. G \in [UnreadStates -> UnreadStates] BY UnreadRound
  <2>2. PICK f : Rounds(UnreadStates, G, x, n, f)
    <3> HIDE DEF G, n, x
    <3>1. x \in UnreadStates BY DEF x
    <3> QED BY <1>2, <2>1, <3>1, RoundsExist
  <2>3. f \in [0..n -> UnreadStates] /\ f[0] = x /\ \A i \in 1..n : f[i] = G[f[i - 1]]
    BY <2>2 DEF Rounds
  <2>4. ASSUME NEW i \in 0..n PROVE f[i] = IF i = 0 THEN x ELSE UnreadStep(f[i - 1])
    <3>1. CASE i # 0
      <4>1. i - 1 \in 0..n /\ i \in 1..n BY <1>2, <3>1
      <4>2. f[i - 1] \in UnreadStates BY <2>3, <4>1
      <4> QED BY <2>3, <3>1, <4>1, <4>2
    <3> QED BY <2>3, <3>1
  <2>5. f = F(f) BY <2>3, <2>4
  <2> QED BY <2>5
<1>4. c = F(c) BY <1>3, Zenon
<1> HIDE DEF c
<1>5. c[0] = x /\ \A i \in 1..n : c[i] = UnreadStep(c[i - 1])
  BY <1>2, <1>4
<1> DEFINE I == {i \in 0..n : c[i] \in UnreadStates /\ Len(c[i].rest) <= n - i
                               /\ Cat(c[i].rest, Content(c[i].table)) = Cat(s, Content(T))}
<1>6. 0 \in I BY <1>2, <1>5
<1>7. ASSUME NEW i \in 1..n, i - 1 \in I PROVE i \in I
  <2> DEFINE w == c[i - 1]
  <2>1. /\ w \in UnreadStates /\ Len(w.rest) <= n - (i - 1) /\ c[i] = UnreadStep(w)
        /\ Cat(w.rest, Content(w.table)) = Cat(s, Content(T))
    BY <1>5, <1>7
  <2>2. Len(w.rest) \in Nat /\ i \in Nat BY <2>1 DEF UnreadStates
  <2> HIDE DEF w
  <2>3. c[i] \in UnreadStates /\ Cat(c[i].rest, Content(c[i].table)) = Cat(s, Content(T))
    BY <2>1, UnreadRound
  <2>4. Len(c[i].rest) \in Nat BY <2>3 DEF UnreadStates
  <2>5. CASE w.rest = <<>>
    <3>1. c[i] = w /\ Len(w.rest) = 0 BY <2>1, <2>5, UnreadRound
    <3> QED BY <1>2, <2>3, <3>1
  <2>6. CASE w.rest # <<>>
    <3>1. Len(c[i].rest) < Len(w.rest) BY <2>1, <2>6, UnreadRound
    <3> QED BY <1>2, <2>1, <2>2, <2>3, <2>4, <3>1
  <2> QED BY <2>5, <2>6
<1> HIDE DEF I, n
<1>8. n \in I
  <2>1. n \in 0..n BY <1>2
  <2> QED BY <1>2, <1>6, <1>7, <2>1, CountingTo
<1>9. c[n] \in UnreadStates /\ Len(c[n].rest) <= 0 /\ Cat(c[n].rest, Content(c[n].table)) = Cat(s, Content(T))
  BY <1>2, <1>8 DEF I
<1>10. c[n].rest = <<>>
  <2>1. c[n].rest \in Seq(Bytes) BY <1>9 DEF UnreadStates
  <2> QED BY <1>9, <2>1, EmptySeq
<1>11. c[n].table \in Tables
  <2> DEFINE P == c[n].table
  <2>1. P \in Seq(Chunk) /\ Len(P) >= 1 /\ Holds(P[1])
        /\ \A i \in 1..Len(P) : i > 1 => Holds(P[i])
    BY <1>9, <1>10 DEF UnreadStates
  <2> HIDE DEF P
  <2>2. ASSUME NEW i \in 1..Len(P) PROVE Holds(P[i])
    <3>1. i > 1 \/ i = 1 BY <2>1
    <3> QED BY <2>1, <3>1
  <2>3. P \in Tables BY <2>1, <2>2 DEF Tables
  <2> QED BY <2>3 DEF P
<1>12. Content(c[n].table) = Cat(s, Content(T))
  <2>1. Content(c[n].table) \in Seq(Bytes) BY <1>11, ContentIs DEF Tables
  <2> QED BY <1>9, <1>10, <2>1, CatIs
<1> QED BY <1>1, <1>11, <1>12

\* The first delimiter of a chunk that has one is one of its bytes.
LEMMA FirstHitIs ==
  ASSUME NEW d \in Seq(Bytes), Hits(d) # {}
  PROVE  /\ FirstHit(d) \in 1..Len(d) /\ d[FirstHit(d)] = Delim
         /\ \A j \in 1..Len(d) : j < FirstHit(d) => d[j] # Delim
<1> DEFINE H == Hits(d)
           Least(i) == \A j \in H : i <= j
<1>1. \A i \in H : i \in 1..Len(d) /\ d[i] = Delim BY DEF Hits
<1>2. Len(d) \in Nat OBVIOUS
<1>3. \E i \in H : Least(i)
  <2> SUFFICES ASSUME \A i \in H : ~Least(i) PROVE FALSE OBVIOUS
  <2> HIDE DEF H
  <2> DEFINE I == {k \in 0..Len(d) : \A j \in H : k < j}
  <2>1. 0 \in I BY <1>1, <1>2
  <2>2. ASSUME NEW k \in 1..Len(d), k - 1 \in I PROVE k \in I
    <3>1. \A j \in H : k - 1 < j /\ j \in Int BY <1>1, <2>2
    <3>2. \A j \in H : k <= j BY <3>1
    <3>3. k \notin H BY <3>2
    <3>4. \A j \in H : k < j BY <3>1, <3>2, <3>3
    <3> QED BY <1>2, <3>4
  <2> HIDE DEF I
  <2>3. Len(d) \in I
    <3>1. Len(d) \in 0..Len(d) BY <1>2
    <3> QED BY <1>2, <2>1, <2>2, <3>1, CountingTo
  <2>4. PICK j \in H : TRUE BY DEF H
  <2>5. Len(d) < j BY <2>3 DEF I
  <2> QED BY <1>1, <1>2, <2>5
<1>4. FirstHit(d) = CHOOSE i \in H : Least(i) BY DEF FirstHit
<1> HIDE DEF H, Least
<1>5. FirstHit(d) \in H /\ Least(FirstHit(d)) BY <1>3, <1>4, Zenon
<1>6. ASSUME NEW j \in 1..Len(d), j < FirstHit(d) PROVE d[j] # Delim
  <2> SUFFICES ASSUME d[j] = Delim PROVE FALSE OBVIOUS
  <2>1. j \in H BY DEF H, Hits
  <2>2. FirstHit(d) <= j BY <1>5, <2>1 DEF Least
  <2> QED BY <1>1, <1>2, <1>5, <1>6, <2>2
<1> QED BY <1>1, <1>5, <1>6

\* A round takes at least one byte of its chunk, and all of them at most.
LEMMA TakenIs ==
  ASSUME NEW d \in Seq(Bytes), Len(d) >= 1, NEW n \in Int, n # 0
  PROVE  Taken(d, n) \in 1..Len(d) /\ Remaining(d, n) \in Int
<1>1. Len(d) \in Nat /\ Len(d) \in 1..Len(d) OBVIOUS
<1>2. CASE n < 0
  <2>1. CASE Hits(d) = {}
    BY <1>1, <1>2, <2>1 DEF Taken, Remaining
  <2>2. CASE Hits(d) # {}
    <3>1. Taken(d, n) = FirstHit(d) BY <1>2, <2>2 DEF Taken
    <3>2. Remaining(d, n) = 0 BY <1>2, <2>2 DEF Remaining
    <3> QED BY <2>2, <3>1, <3>2, FirstHitIs
  <2> QED BY <2>1, <2>2
<1>3. CASE ~(n < 0)
  <2>1. Taken(d, n) = IF n < Len(d) THEN n ELSE Len(d) BY <1>3 DEF Taken
  <2>2. Remaining(d, n) = n - Taken(d, n) BY <1>3 DEF Remaining
  <2>3. Taken(d, n) \in 1..Len(d)
    <3>1. CASE n < Len(d) BY <1>1, <1>3, <2>1, <3>1
    <3>2. CASE ~(n < Len(d)) BY <1>1, <2>1, <3>2
    <3> QED BY <3>1, <3>2
  <2> QED BY <1>1, <2>2, <2>3
<1> QED BY <1>2, <1>3

\* Bytes without a delimiter, and bytes up to the first one.
NoDelim(u) == \A i \in 1..Len(u) : u[i] # Delim
Line(u) == Len(u) >= 1 /\ u[Len(u)] = Delim /\ \A i \in 1..Len(u) : i < Len(u) => u[i] # Delim

\* What read(m) has taken from the pipe, u, what it still asks for, n, and the
\* record it has put together.
Asked(u, n, rec, m) ==
  \/ m > 0 /\ n >= 0 /\ Len(u) + n = m /\ rec = u
  \/ m < 0 /\ n = m /\ rec = u /\ NoDelim(u)
  \/ m < 0 /\ n = 0 /\ Line(u) /\ rec = IF m = CHAR_DELIM THEN SubSeq(u, 1, Len(u) - 1) ELSE u

\* A round goes on with what was asked for.
LEMMA AskedRound ==
  ASSUME NEW u \in Seq(Bytes), NEW d \in Seq(Bytes), Len(d) >= 1, NEW m \in Int,
         NEW n \in Int, n # 0, NEW rec, Asked(u, n, rec, m)
  PROVE  Asked(Cat(u, SubSeq(d, 1, Taken(d, n))), Remaining(d, n),
               Cat(rec, SubSeq(d, 1, Wanted(d, n))), m)
<1> DEFINE t == Taken(d, n)
           p == SubSeq(d, 1, t)
           v == Cat(u, p)
           rem == Remaining(d, n)
           k == Wanted(d, n)
<1>1. t \in 1..Len(d) BY TakenIs
<1>2. Len(d) \in Nat /\ Len(u) \in Nat /\ t \in 0..Len(d) BY <1>1
<1>3. p \in Seq(Bytes) /\ Len(p) = t BY <1>2, Parts
<1>4. v \in Seq(Bytes) /\ Len(v) = Len(u) + t
  <2> HIDE DEF p, t
  <2>1. Cat(u, p) \in Seq(Bytes) /\ Len(Cat(u, p)) = Len(u) + Len(p)
    BY ONLY <1>3, u \in Seq(Bytes), CatIs
  <2> QED BY <1>3, <2>1
<1>5. /\ \A i \in 1..Len(u) : v[i] = u[i]
      /\ \A i \in 1..t : v[Len(u) + i] = d[i]
  <2>1. ASSUME NEW i \in 1..t PROVE p[i] = d[i] BY <1>2
  <2> HIDE DEF p
  <2> QED BY <1>3, <2>1, CatAt
<1>6. rec = u BY DEF Asked
<1>7. ASSUME NEW i \in 1..Len(v) PROVE i \in 1..Len(u) \/ \E j \in 1..t : i = Len(u) + j
  <2> HIDE DEF v, t
  <2>1. CASE i <= Len(u) BY <1>2, <1>4, <2>1
  <2>2. CASE ~(i <= Len(u))
    <3>1. i - Len(u) \in 1..t /\ i = Len(u) + (i - Len(u)) BY <1>2, <1>4, <2>2
    <3> QED BY <3>1
  <2> QED BY <2>1, <2>2
<1>8. CASE m > 0
  <2>1. n >= 0 /\ Len(u) + n = m BY <1>8 DEF Asked
  <2>2. t = (IF n < Len(d) THEN n ELSE Len(d)) /\ rem = n - t BY <2>1 DEF Taken, Remaining
  <2>3. k = t BY <2>1 DEF Wanted, CHAR_DELIM
  <2> HIDE DEF t, p, v, rem, k
  <2>4. rem >= 0 /\ Len(v) + rem = m
    <3>1. t \in Nat /\ t <= n BY <1>2, <2>1, <2>2
    <3>2. rem = n - t /\ Len(v) = Len(u) + t BY <1>4, <2>2
    <3> QED BY <1>2, <2>1, <3>1, <3>2
  <2>5. Cat(rec, SubSeq(d, 1, k)) = v BY <1>6, <2>3 DEF p, v
  <2>6. Asked(v, rem, v, m) BY <1>8, <2>4 DEF Asked
  <2> QED BY <2>4, <2>5, <2>6 DEF t, p, v, rem, k
<1>9. CASE ~(m > 0)
  <2>1. m < 0 /\ n = m /\ NoDelim(u) BY <1>9 DEF Asked
  <2>2. CASE Hits(d) = {}
    <3>1. t = Len(d) /\ rem = n BY <2>1, <2>2 DEF Taken, Remaining
    <3>2. k = t BY <2>2 DEF Wanted
    <3>3. \A i \in 1..Len(d) : d[i] # Delim BY <2>2 DEF Hits
    <3> HIDE DEF t, v, rem, k
    <3>4. NoDelim(v) BY <1>5, <1>7, <2>1, <3>1, <3>3 DEF NoDelim
    <3>5. Cat(rec, SubSeq(d, 1, k)) = v BY <1>6, <3>2 DEF v
    <3>6. Asked(v, rem, v, m) BY <2>1, <3>1, <3>4 DEF Asked
    <3> QED BY <3>1, <3>5, <3>6 DEF t, v, rem, k
  <2>3. CASE Hits(d) # {}
    <3>1. t = FirstHit(d) /\ rem = 0 BY <2>1, <2>3 DEF Taken, Remaining
    <3>2. k = IF m = CHAR_DELIM THEN t - 1 ELSE t BY <2>1, <2>3 DEF Wanted
    <3>3. d[t] = Delim /\ \A j \in 1..Len(d) : j < t => d[j] # Delim BY <2>3, <3>1, FirstHitIs
    <3> HIDE DEF t, rem, k
    <3>4. Line(v)
      <4>1. Len(v) >= 1 /\ t \in 1..t BY <1>1, <1>2, <1>4
      <4>2. v[Len(v)] = Delim BY <1>4, <1>5, <3>3, <4>1
      <4>3. ASSUME NEW i \in 1..Len(v), i < Len(v) PROVE v[i] # Delim
        <5> HIDE DEF v
        <5>1. CASE i \in 1..Len(u) BY <1>5, <2>1, <5>1 DEF NoDelim
        <5>2. CASE \E j \in 1..t : i = Len(u) + j
          <6>1. PICK j \in 1..t : i = Len(u) + j BY <5>2
          <6>2. j < t /\ j \in 1..Len(d) BY <1>1, <1>2, <1>4, <4>3, <6>1
          <6> QED BY <1>5, <3>3, <6>1, <6>2
        <5> QED BY <1>7, <5>1, <5>2
      <4> QED BY <4>1, <4>2, <4>3 DEF Line
    <3>5. Cat(rec, SubSeq(d, 1, k)) = IF m = CHAR_DELIM THEN SubSeq(v, 1, Len(v) - 1) ELSE v
      <4>1. CASE m # CHAR_DELIM BY <1>6, <3>2, <4>1
      <4>2. CASE m = CHAR_DELIM
        <5> DEFINE a == SubSeq(d, 1, t - 1)
                   b == SubSeq(p, 1, t - 1)
                   e == SubSeq(p, t, t)
        <5>1. t - 1 \in 0..t /\ t - 1 \in 0..Len(d) /\ (t - 1) + 1 = t BY <1>1, <1>2
        <5>2. a \in Seq(Bytes) /\ Len(a) = t - 1 BY <5>1, Parts
        <5>3. b \in Seq(Bytes) /\ e \in Seq(Bytes) /\ Cat(b, e) = p /\ Len(b) = t - 1
          <6> HIDE DEF p, v
          <6>1. t - 1 \in 0..Len(p) BY <1>3, <5>1
          <6>2. /\ SubSeq(p, 1, t - 1) \in Seq(Bytes) /\ Len(SubSeq(p, 1, t - 1)) = t - 1
                /\ SubSeq(p, (t - 1) + 1, Len(p)) \in Seq(Bytes)
                /\ Cat(SubSeq(p, 1, t - 1), SubSeq(p, (t - 1) + 1, Len(p))) = p
            BY <1>3, <6>1, Parts
          <6> QED BY <1>3, <5>1, <6>2
        <5>4. a = b
          <6>1. ASSUME NEW i \in 1..(t - 1) PROVE a[i] = d[i] /\ b[i] = p[i] /\ p[i] = d[i]
            <7>1. i \in 1..t /\ i \in Nat BY <1>1, <1>2
            <7>2. p[i] = d[i] BY <1>2, <7>1
            <7>3. a[i] = d[i] BY <1>2, <5>1
            <7> HIDE DEF p, v
            <7>4. b[i] = p[i] BY <1>3, <1>2, <5>1
            <7> QED BY <7>2, <7>3, <7>4
          <6> HIDE DEF a, b
          <6> QED BY <5>2, <5>3, <6>1, SeqEqual
        <5> HIDE DEF p, a, b, e
        <5>5. v = Cat(Cat(u, b), e) BY ONLY <1>3, <5>3, CatIs, u \in Seq(Bytes), v = Cat(u, p)
        <5>6. Cat(u, b) \in Seq(Bytes) /\ Len(Cat(u, b)) = Len(u) + (t - 1)
          <6>1. Cat(u, b) \in Seq(Bytes) /\ Len(Cat(u, b)) = Len(u) + Len(b)
            BY ONLY <5>3, u \in Seq(Bytes), CatIs
          <6> QED BY <5>3, <6>1
        <5>7. Len(v) - 1 = Len(Cat(u, b)) /\ Len(Cat(u, b)) \in 0..Len(Cat(u, b))
          <6> HIDE DEF v
          <6> QED BY <1>1, <1>2, <1>4, <5>6
        <5>8. SubSeq(Cat(u, b), 1, Len(Cat(u, b))) = Cat(u, b) BY <5>6, SubSeqFull
        <5>9. SubSeq(Cat(Cat(u, b), e), 1, Len(Cat(u, b))) = Cat(u, b)
          <6> PICK w \in Seq(Bytes) : w = Cat(u, b) BY <5>6
          <6> QED BY <5>3, <5>7, <5>8, CatAt
        <5>10. SubSeq(v, 1, Len(v) - 1) = Cat(u, a)
          <6> HIDE DEF v
          <6> QED BY <5>4, <5>5, <5>7, <5>9
        <5>11. SubSeq(d, 1, k) = a BY <3>2, <4>2 DEF a
        <5> HIDE DEF v
        <5> QED BY <1>6, <4>2, <5>10, <5>11
      <4> QED BY <4>1, <4>2
    <3> HIDE DEF v
    <3>6. Asked(v, rem, Cat(rec, SubSeq(d, 1, k)), m) BY <2>1, <3>1, <3>4, <3>5 DEF Asked
    <3> QED BY <3>1, <3>6 DEF t, v, rem, k
  <2> QED BY <2>2, <2>3
<1> QED BY <1>8, <1>9

\* A chunk that is read in part moves its start; one that is read whole goes.
LEMMA ConsumeKeeps ==
  ASSUME LUAL_BUFFERSIZE \in Nat \ {0}, NEW T \in Tables, T # <<>>, NEW used \in 1..Len(T[1].data)
  PROVE  /\ Consume(T, used) \in Tables
         /\ Content(T) = Cat(SubSeq(T[1].data, 1, used), Content(Consume(T, used)))
         /\ used = Len(T[1].data) => Len(Consume(T, used)) = Len(T) - 1
<1>1. T \in Seq(Chunk) /\ \A i \in 1..Len(T) : Holds(T[i]) BY DEF Tables
<1>2. Len(T) \in Nat /\ Len(T) >= 1 /\ 1 \in 1..Len(T) /\ Head(T) = T[1] BY <1>1, EmptySeq
<1> DEFINE ud == T[1]
<1>3. Holds(ud) BY <1>1, <1>2
<1>4. ud \in Chunk /\ ud.start \in Nat /\ ud.data \in Seq(Bytes) /\ Len(ud.data) \in Nat
      /\ ud.start + Len(ud.data) <= LUAL_BUFFERSIZE
  BY <1>3 DEF Holds, Fits, Chunk
<1>5. CASE used = Len(ud.data)
  <2>1. Consume(T, used) = Tail(T) BY <1>2, <1>5 DEF Consume, Used
  <2>2. /\ Tail(T) \in Seq(Chunk) /\ Len(Tail(T)) = Len(T) - 1
        /\ \A i \in 1..(Len(T) - 1) : Tail(T)[i] = T[i + 1]
    BY <1>1, <1>2, HeadTailProperties
  <2>3. ASSUME NEW i \in 1..Len(Tail(T)) PROVE Holds(Tail(T)[i])
    <3>1. i \in 1..(Len(T) - 1) /\ i + 1 \in 1..Len(T) BY <1>2, <2>2
    <3> QED BY <1>1, <2>2, <3>1
  <2>4. Content(T) = Cat(ud.data, Content(Tail(T))) BY <1>1, <1>2, <1>4, ContentHead
  <2>5. SubSeq(ud.data, 1, used) = ud.data BY <1>4, <1>5, SubSeqFull
  <2>6. Tail(T) \in Tables BY <2>2, <2>3 DEF Tables
  <2> QED BY <1>5, <2>1, <2>2, <2>4, <2>5, <2>6
<1>6. CASE used # Len(ud.data)
  <2> DEFINE u == [start |-> ud.start + used, data |-> SubSeq(ud.data, used + 1, Len(ud.data))]
             R == [T EXCEPT ![1] = u]
  <2>1. Consume(T, used) = R BY <1>2, <1>6 DEF Consume, Used
  <2> HIDE DEF ud
  <2>2. used \in 0..Len(ud.data) /\ used \in Nat /\ used < Len(ud.data)
    BY <1>4, <1>6 DEF ud
  <2>3. /\ SubSeq(ud.data, used + 1, Len(ud.data)) \in Seq(Bytes)
        /\ Len(SubSeq(ud.data, used + 1, Len(ud.data))) = Len(ud.data) - used
    BY <1>4, <2>2, Parts
  <2>4. u \in Chunk /\ u.start = ud.start + used /\ Len(u.data) = Len(ud.data) - used
    BY <1>4, <2>2, <2>3 DEF Chunk
  <2> HIDE DEF u
  <2>5. Holds(u) BY <1>4, <2>2, <2>4 DEF Holds, Fits
  <2>6. R \in Seq(Chunk) /\ Len(R) = Len(T) /\ R[1] = u
        /\ \A i \in 1..Len(T) : i # 1 => R[i] = T[i]
    BY <1>1, <1>2, <2>4, ReplaceChunk
  <2> HIDE DEF R
  <2>7. ASSUME NEW i \in 1..Len(R) PROVE Holds(R[i])
    BY <1>1, <2>5, <2>6
  <2>8. R \in Tables BY <2>6, <2>7 DEF Tables
  <2>9. Content(T) = Cat(SubSeq(ud.data, 1, used), Content(R))
    <3> DEFINE p == SubSeq(ud.data, 1, used)
               q == SubSeq(ud.data, used + 1, Len(ud.data))
               z == Content(Tail(T))
    <3>1. p \in Seq(Bytes) /\ q \in Seq(Bytes) /\ Cat(p, q) = ud.data BY <1>4, <2>2, Parts
    <3>2. u.data = q BY DEF u
    <3>3. z \in Seq(Bytes) /\ Content(T) = Cat(ud.data, z) /\ Content(R) = Cat(u.data, z)
      BY <1>1, <1>2, <2>4, ContentHead DEF R, ud
    <3> HIDE DEF p, q, z
    <3>4. Cat(Cat(p, q), z) = Cat(p, Cat(q, z)) BY <3>1, <3>3, CatIs
    <3> QED BY <3>1, <3>2, <3>3, <3>4 DEF p
  <2> QED BY <1>6, <2>1, <2>8, <2>9 DEF ud
<1> QED BY <1>5, <1>6

\* The states of the loop of pipe_read().
ReadStates == [table : Tables, n : Int, rec : Seq(Bytes)]

\* Of the bytes C that were in the pipe, those that the table does not hold any
\* more are what read(m) has taken.
ReadSoFar(r, C, m) ==
  \E u \in Seq(Bytes) : Cat(u, Content(r.table)) = C /\ Asked(u, r.n, r.rec, m)

\* A round of pipe_read() reads bytes of the first chunk.
LEMMA ReadRound ==
  ASSUME LUAL_BUFFERSIZE \in Nat \ {0}, NEW r \in ReadStates
  PROVE  /\ ReadStep(r) \in ReadStates
         /\ \A C, m : m \in Int /\ ReadSoFar(r, C, m) => ReadSoFar(ReadStep(r), C, m)
         /\ (r.table = <<>> \/ r.n = 0) => ReadStep(r) = r
         /\ (r.table # <<>> /\ r.n # 0) =>
               ReadStep(r).n = 0 \/ Len(ReadStep(r).table) < Len(r.table)
<1> DEFINE T == r.table
           d == Head(T).data
           t == Taken(d, r.n)
           k == Wanted(d, r.n)
<1>1. T \in Tables /\ r.n \in Int /\ r.rec \in Seq(Bytes) BY DEF ReadStates
<1>2. CASE T = <<>> \/ r.n = 0 BY <1>2 DEF ReadStep
<1>3. CASE ~(T = <<>> \/ r.n = 0)
  <2>1. ReadStep(r) = [table |-> Consume(T, t), n |-> Remaining(d, r.n),
                              rec |-> r.rec \o SubSeq(d, 1, k)]
    BY <1>3 DEF ReadStep
  <2> HIDE DEF T
  <2>2. T \in Seq(Chunk) /\ Len(T) \in Nat /\ Len(T) >= 1 /\ 1 \in 1..Len(T) /\ Head(T) = T[1]
    BY <1>1, <1>3, EmptySeq DEF Tables
  <2>3. Holds(T[1]) BY <1>1, <2>2 DEF Tables
  <2>4. d = T[1].data /\ d \in Seq(Bytes) /\ Len(d) \in Nat /\ Len(d) >= 1
    BY <2>2, <2>3 DEF Holds, Fits, Chunk
  <2> HIDE DEF d
  <2>5. t \in 1..Len(d) /\ Remaining(d, r.n) \in Int BY <1>1, <1>3, <2>4, TakenIs
  <2>6. k \in 0..Len(d)
    <3>1. k = t \/ k = t - 1 BY DEF Wanted
    <3> HIDE DEF t, k
    <3> QED BY <2>4, <2>5, <3>1
  <2> HIDE DEF t, k
  <2>7. /\ Consume(T, t) \in Tables
        /\ Content(T) = Cat(SubSeq(d, 1, t), Content(Consume(T, t)))
        /\ t = Len(d) => Len(Consume(T, t)) = Len(T) - 1
    BY <1>1, <1>3, <2>4, <2>5, ConsumeKeeps
  <2>8. SubSeq(d, 1, k) \in Seq(Bytes) BY <2>4, <2>6, Parts
  <2>9. r.rec \o SubSeq(d, 1, k) \in Seq(Bytes) BY <1>1, <2>8, ConcatProperties
  <2>10. ReadStep(r) \in ReadStates BY <2>1, <2>5, <2>7, <2>9 DEF ReadStates
  <2> DEFINE z == Content(Consume(T, t))
             p == SubSeq(d, 1, t)
             N == ReadStep(r)
  <2>11. N.table = Consume(T, t) /\ N.n = Remaining(d, r.n) /\ N.rec = Cat(r.rec, SubSeq(d, 1, k))
    <3> DEFINE y == r.rec \o SubSeq(d, 1, k)
               e == Consume(T, t)
               g == Remaining(d, r.n)
    <3>1. N = [table |-> e, n |-> g, rec |-> y] BY <2>1
    <3>2. y = Cat(r.rec, SubSeq(d, 1, k)) BY DEF Cat
    <3> HIDE DEF N, y, e, g
    <3>3. N.table = e /\ N.n = g /\ N.rec = y BY <3>1
    <3> QED BY <3>2, <3>3 DEF e, g
  <2> HIDE DEF N
  <2>12. z \in Seq(Bytes) /\ p \in Seq(Bytes)
    <3>1. Consume(T, t) \in Seq(Chunk) BY <2>7 DEF Tables
    <3>2. t \in 0..Len(d) BY <2>4, <2>5
    <3> QED BY <2>4, <3>1, <3>2, ContentIs, Parts
  <2> HIDE DEF z, p
  <2>13. ASSUME NEW C, NEW m \in Int, ReadSoFar(r, C, m)
         PROVE  ReadSoFar(N, C, m)
    <3>1. PICK u \in Seq(Bytes) : Cat(u, Content(T)) = C /\ Asked(u, r.n, r.rec, m)
      BY <2>13 DEF ReadSoFar, T
    <3>2. Asked(Cat(u, p), Remaining(d, r.n), Cat(r.rec, SubSeq(d, 1, k)), m)
      BY <1>1, <1>3, <2>4, <3>1, AskedRound DEF t, k, p
    <3>3. Content(T) = Cat(p, z) BY <2>7 DEF p, z
    <3>4. Cat(Cat(u, p), z) = Cat(u, Cat(p, z)) /\ Cat(u, p) \in Seq(Bytes)
      BY ONLY <2>12, <3>1, CatIs
    <3>5. Cat(Cat(u, p), Content(N.table)) = C BY <2>11, <3>1, <3>3, <3>4 DEF z
    <3> QED BY <2>11, <3>2, <3>4, <3>5 DEF ReadSoFar
  <2>14. t = Len(d) \/ Remaining(d, r.n) = 0
    <3>1. CASE r.n < 0 BY <2>4, <3>1 DEF t, Taken, Remaining
    <3>2. CASE ~(r.n < 0) /\ r.n < Len(d) BY <1>1, <2>4, <3>2 DEF t, Taken, Remaining
    <3>3. CASE ~(r.n < 0) /\ ~(r.n < Len(d)) BY <3>3 DEF t, Taken
    <3> QED BY <3>1, <3>2, <3>3
  <2>15. N.n = 0 \/ Len(N.table) < Len(T) BY <2>2, <2>7, <2>11, <2>14
  <2> QED BY <1>3, <2>10, <2>13, <2>15 DEF N, T
<1> QED BY <1>2, <1>3

\* pipe_read() leaves chunks that hold something, within their buffers, and ends
\* when it has what was asked for or the pipe is empty.
LEMMA ReadKeeps ==
  ASSUME LUAL_BUFFERSIZE \in Nat \ {0}, NEW T \in Tables, NEW m \in Int, m # 0
  PROVE  /\ ReadLoop(T, m) \in ReadStates
         /\ ReadSoFar(ReadLoop(T, m), Content(T), m)
         /\ ReadLoop(T, m).n = 0 \/ ReadLoop(T, m).table = <<>>
<1> DEFINE n == Len(T)
           x == [table |-> T, n |-> m, rec |-> <<>>]
           F(f) == [i \in 0..Len(T) |->
                      IF i = 0 THEN [table |-> T, n |-> m, rec |-> <<>>] ELSE ReadStep(f[i - 1])]
           c == CHOOSE f : f = F(f)
           G == [r \in ReadStates |-> ReadStep(r)]
<1>1. ReadLoop(T, m) = c[n] BY DEF ReadLoop
<1>2. n \in Nat /\ x \in ReadStates
  <2>1. <<>> \in Seq(Bytes) OBVIOUS
  <2> QED BY <2>1 DEF Tables, ReadStates
<1>3. \E f : f = F(f)
  <2>1. G \in [ReadStates -> ReadStates] BY ReadRound
  <2>2. PICK f : Rounds(ReadStates, G, x, n, f)
    <3> HIDE DEF G, n, x
    <3> QED BY <1>2, <2>1, RoundsExist
  <2>3. f \in [0..n -> ReadStates] /\ f[0] = x /\ \A i \in 1..n : f[i] = G[f[i - 1]]
    BY <2>2 DEF Rounds
  <2>4. ASSUME NEW i \in 0..n PROVE f[i] = IF i = 0 THEN x ELSE ReadStep(f[i - 1])
    <3>1. CASE i # 0
      <4>1. i - 1 \in 0..n /\ i \in 1..n BY <1>2, <3>1
      <4>2. f[i - 1] \in ReadStates BY <2>3, <4>1
      <4> QED BY <2>3, <3>1, <4>1, <4>2
    <3> QED BY <2>3, <3>1
  <2>5. f = F(f) BY <2>3, <2>4
  <2> QED BY <2>5
<1>4. c = F(c) BY <1>3, Zenon
<1> HIDE DEF c
<1>5. c[0] = x /\ \A i \in 1..n : c[i] = ReadStep(c[i - 1]) BY <1>2, <1>4
<1>6. ReadSoFar(x, Content(T), m)
  <2>1. T \in Seq(Chunk) /\ Content(T) \in Seq(Bytes) BY ContentIs DEF Tables
  <2>2. <<>> \in Seq(Bytes) /\ Len(<<>>) = 0 BY EmptySeq
  <2>3. Cat(<<>>, Content(T)) = Content(T) BY <2>1, CatIs
  <2>4. Asked(<<>>, m, <<>>, m)
    <3>1. CASE m > 0 BY <2>2, <3>1 DEF Asked
    <3>2. CASE m < 0
      <4>1. NoDelim(<<>>) BY <2>2 DEF NoDelim
      <4> QED BY <3>2, <4>1 DEF Asked
    <3> QED BY <3>1, <3>2
  <2> QED BY <2>2, <2>3, <2>4 DEF ReadSoFar
<1> HIDE DEF x
<1> DEFINE I == {i \in 0..n : /\ c[i] \in ReadStates /\ ReadSoFar(c[i], Content(T), m)
                              /\ c[i].n = 0 \/ c[i].table = <<>> \/ Len(c[i].table) <= n - i}
<1>7. 0 \in I
  <2>1. Len(x.table) <= n - 0 BY <1>2 DEF x
  <2> QED BY <1>2, <1>5, <1>6, <2>1
<1>8. ASSUME NEW i \in 1..n, i - 1 \in I PROVE i \in I
  <2> DEFINE r == c[i - 1]
  <2>1. /\ r \in ReadStates /\ ReadSoFar(r, Content(T), m) /\ c[i] = ReadStep(r)
        /\ r.n = 0 \/ r.table = <<>> \/ Len(r.table) <= n - (i - 1)
    BY <1>5, <1>8
  <2> HIDE DEF r
  <2>2. c[i] \in ReadStates /\ ReadSoFar(c[i], Content(T), m) BY <2>1, ReadRound
  <2>3. CASE r.n = 0 \/ r.table = <<>>
    <3>1. c[i] = r BY <2>1, <2>3, ReadRound
    <3> QED BY <1>2, <2>2, <2>3, <3>1
  <2>4. CASE ~(r.n = 0 \/ r.table = <<>>)
    <3>1. c[i].n = 0 \/ Len(c[i].table) < Len(r.table) BY <2>1, <2>4, ReadRound
    <3>2. Len(r.table) \in Nat /\ Len(c[i].table) \in Nat BY <2>1, <2>2 DEF ReadStates, Tables
    <3> QED BY <1>2, <2>1, <2>2, <2>4, <3>1, <3>2
  <2> QED BY <2>3, <2>4
<1> HIDE DEF I, n
<1>9. n \in I
  <2>1. n \in 0..n BY <1>2
  <2> QED BY <1>2, <1>7, <1>8, <2>1, CountingTo
<1>10. /\ c[n] \in ReadStates /\ ReadSoFar(c[n], Content(T), m)
       /\ c[n].n = 0 \/ c[n].table = <<>> \/ Len(c[n].table) <= 0
  BY <1>2, <1>9 DEF I
<1>11. c[n].n = 0 \/ c[n].table = <<>>
  <2>1. c[n].table \in Seq(Chunk) BY <1>10 DEF ReadStates, Tables
  <2> QED BY <1>10, <2>1, EmptySeq
<1> QED BY <1>1, <1>10, <1>11

\* The loops start from a table that is not empty.
LEMMA LoopsStart ==
  ASSUME LUAL_BUFFERSIZE \in Nat \ {0}, NEW T \in Tables, NEW s \in Seq(Bytes), s # <<>>
  PROVE  /\ [table |-> NonEmptyTable(T), rest |-> s] \in WriteStates
         /\ [table |-> NonEmptyTable(T), rest |-> s] \in UnreadStates
<1> DEFINE N == NonEmptyTable(T)
<1>1. N \in Seq(Chunk) /\ Len(N) >= 1 /\ \A i \in 1..Len(N) : Fits(N[i]) /\ (Len(N) > 1 => Holds(N[i]))
  <2>1. CASE T = <<>>
    <3> DEFINE new == newPipeUD
    <3>1. new \in Chunk /\ new.start = 0 /\ new.data = <<>> /\ Len(new.data) = 0
      BY DEF newPipeUD, Chunk
    <3>2. Fits(new) BY <3>1 DEF Fits
    <3>3. N = <<new>> BY <2>1 DEF NonEmptyTable
    <3> HIDE DEF N, new
    <3>4. N \in Seq(Chunk) /\ Len(N) = 1 /\ N[1] = new BY <3>1, <3>3
    <3> QED BY <3>2, <3>4
  <2>2. CASE T # <<>>
    <3>1. N = T BY <2>2 DEF NonEmptyTable
    <3>2. T \in Seq(Chunk) /\ \A i \in 1..Len(T) : Holds(T[i]) BY DEF Tables
    <3>3. Len(T) >= 1 BY <2>2, <3>2, EmptySeq
    <3> QED BY <3>1, <3>2, <3>3 DEF Holds
  <2> QED BY <2>1, <2>2
<1> HIDE DEF N
<1>2. Len(N) \in Nat BY <1>1
<1>3. \A i \in 1..Len(N) : (i < Len(N) => Holds(N[i])) /\ (i > 1 => Holds(N[i])) BY <1>1, <1>2
<1>4. [table |-> N, rest |-> s] \in WriteStates BY <1>1, <1>3 DEF WriteStates
<1>5. [table |-> N, rest |-> s] \in UnreadStates BY <1>1, <1>3 DEF UnreadStates
<1> QED BY <1>4, <1>5 DEF N

\* What read() may ask for: a number of bytes, or those up to a delimiter.
LEMMA SizeIs ==
  ASSUME NEW arg \in Arguments
  PROVE  LET m == getsize_delim(arg)
         IN (m \in Counts /\ m \in Int /\ m > 0) \/ m = -1 \/ m = -2
<1>0. Counts \subseteq Nat \ {0} BY BufferAssumption
<1>1. CASE arg.type = "number"
  <2>1. arg.n \in Counts BY <1>1 DEF Arguments
  <2>2. getsize_delim(arg) = arg.n BY <1>1 DEF getsize_delim
  <2> PICK k \in Counts : k = arg.n BY <2>1
  <2>3. k \in Nat \ {0} BY <1>0
  <2>4. k \in Int /\ k > 0 BY <2>3
  <2> QED BY <2>2, <2>4
<1>2. CASE arg.type = "nil" BY <1>2 DEF getsize_delim, CHAR_DELIM
<1>3. CASE arg.type = "string"
  BY <1>3 DEF getsize_delim, CHAR_DELIM, CHAR_DELIM_KEEP
<1> QED BY <1>1, <1>2, <1>3 DEF Arguments

\* All chunks are within their buffers and hold something.
Sound == chunks \in Tables

\* Every method keeps them so.
LEMMA SoundNext == Sound /\ [BufferNext]_bufferVars => Sound'
<1> SUFFICES ASSUME chunks \in Tables, [BufferNext]_bufferVars PROVE chunks' \in Tables BY DEF Sound
<1>0. LUAL_BUFFERSIZE \in Nat \ {0} /\ \A s \in Strings : s \in Seq(Bytes) /\ s # <<>>
  BY BufferAssumption
<1>1. ASSUME NEW s \in Strings, pipe_write_aux(s) PROVE chunks' \in Tables
  <2>1. [table |-> NonEmptyTable(chunks), rest |-> s] \in WriteStates BY <1>0, LoopsStart
  <2>2. WriteLoop(NonEmptyTable(chunks), s) \in Tables BY <1>0, <2>1, WriteKeeps
  <2> QED BY <1>1, <2>2 DEF pipe_write_aux
<1>2. ASSUME NEW s \in Strings, pipe_unread(s) PROVE chunks' \in Tables
  <2>1. [table |-> NonEmptyTable(chunks), rest |-> s] \in UnreadStates BY <1>0, LoopsStart
  <2>2. UnreadLoop(NonEmptyTable(chunks), s) \in Tables BY <1>0, <2>1, UnreadKeeps
  <2> QED BY <1>2, <2>2 DEF pipe_unread
<1>3. ASSUME NEW arg \in Arguments, pipe_read(arg) PROVE chunks' \in Tables
  <2>1. getsize_delim(arg) \in Int /\ getsize_delim(arg) # 0 BY SizeIs
  <2> DEFINE r == ReadLoop(chunks, getsize_delim(arg))
  <2>2. r \in ReadStates BY <1>0, <2>1, ReadKeeps
  <2>3. CASE chunks = <<>> BY <1>3, <2>3 DEF pipe_read
  <2>4. CASE chunks # <<>>
    <3>1. chunks' = r.table BY <1>3, <2>4 DEF pipe_read
    <3> HIDE DEF r
    <3> QED BY <2>2, <3>1 DEF ReadStates
  <2> QED BY <2>3, <2>4
<1>4. CASE UNCHANGED bufferVars BY <1>4 DEF bufferVars
<1> QED BY <1>1, <1>2, <1>3, <1>4 DEF BufferNext

\* So they always are.
LEMMA AlwaysSound == BufferSpec => []Sound
<1>1. BufferInit => Sound
  <2>1. <<>> \in Seq(Chunk) /\ 1..Len(<<>>) = {} OBVIOUS
  <2> QED BY <2>1 DEF BufferInit, Sound, Tables
<1> QED BY <1>1, SoundNext, PTL DEF BufferSpec

\* Whatever is written, unread and read, in any order and in pieces of any size,
\* no chunk of a pipe leaves its buffer or is kept empty.
THEOREM ChunksAlwaysInBounds ==
  BufferSpec => []ChunksInBounds
<1>1. Sound => ChunksInBounds
  <2> SUFFICES ASSUME chunks \in Tables, NEW i \in DOMAIN chunks
               PROVE  /\ chunks[i].start \in 0..LUAL_BUFFERSIZE
                      /\ chunks[i].data \in Seq(Bytes)
                      /\ Len(chunks[i].data) \in 1..LUAL_BUFFERSIZE
                      /\ chunks[i].start + Len(chunks[i].data) <= LUAL_BUFFERSIZE
    BY DEF Sound, ChunksInBounds, Used, End
  <2>0. LUAL_BUFFERSIZE \in Nat \ {0} BY BufferAssumption
  <2>1. i \in 1..Len(chunks) BY LenProperties DEF Tables
  <2>2. Holds(chunks[i]) BY <2>1 DEF Tables
  <2>3. /\ chunks[i].start \in Nat /\ chunks[i].data \in Seq(Bytes) /\ Len(chunks[i].data) >= 1
        /\ chunks[i].start + Len(chunks[i].data) <= LUAL_BUFFERSIZE
    BY <2>2 DEF Holds, Fits, Chunk
  <2>4. Len(chunks[i].data) \in Nat BY <2>3
  <2> QED BY <2>0, <2>3, <2>4
<1> QED BY <1>1, AlwaysSound, PTL

-----------------------------------------------------------------------------
(* The chunks are one queue of bytes, module PipeContract. *)

\* The loops start from the bytes that are in the pipe.
LEMMA NonEmptyContent == ASSUME NEW T PROVE Content(NonEmptyTable(T)) = Content(T)
<1>1. CASE T = <<>>
  <2>1. <<>> \in Seq(Chunk) BY EmptySeq
  <2>2. NonEmptyTable(T) = Append(<<>>, newPipeUD) BY <1>1 DEF NonEmptyTable
  <2>3. Content(Append(<<>>, newPipeUD)) = Cat(Content(<<>>), newPipeUD.data)
    BY <2>1, NewChunk, ContentAppend
  <2>4. Cat(<<>>, <<>>) = <<>> BY CatIs
  <2> QED BY <1>1, <2>2, <2>3, <2>4, NewChunk, ContentEmpty
<1>2. CASE T # <<>> BY <1>2 DEF NonEmptyTable
<1> QED BY <1>1, <1>2

\* A pipe that has chunks has bytes.
LEMMA ChunksHaveBytes ==
  ASSUME NEW T \in Tables, T # <<>> PROVE Content(T) \in Seq(Bytes) /\ Content(T) # <<>>
<1>1. T \in Seq(Chunk) /\ \A i \in 1..Len(T) : Holds(T[i]) BY DEF Tables
<1>2. Len(T) \in Nat /\ Len(T) >= 1 /\ 1 \in 1..Len(T) BY <1>1, EmptySeq
<1>3. Holds(T[1]) BY <1>1, <1>2
<1> DEFINE d == T[1].data
           z == Content(Tail(T))
<1>4. d \in Seq(Bytes) /\ Len(d) >= 1 /\ T[1] \in Chunk BY <1>3 DEF Holds, Fits, Chunk
<1>5. z \in Seq(Bytes) /\ Content(T) = Cat(d, z) BY <1>1, <1>2, <1>4, ContentHead
<1> HIDE DEF d, z
<1>6. Cat(d, z) \in Seq(Bytes) /\ Len(Cat(d, z)) = Len(d) + Len(z) BY ONLY <1>4, <1>5, CatIs
<1>7. Len(z) \in Nat /\ Len(d) \in Nat BY <1>4, <1>5
<1>8. Cat(d, z) # <<>> BY <1>4, <1>6, <1>7
<1> QED BY <1>5, <1>6, <1>8

\* A record of a number of bytes.
LEMMA ReadCount ==
  ASSUME NEW m \in Counts, m \in Int, m > 0, NEW r, NEW Q \in Seq(Bytes), ReadSoFar(r, Q, m),
         NEW z \in Seq(Bytes), Content(r.table) = z, r.n \in Int, r.n = 0 \/ z = <<>>
  PROVE  LET k == IF m < Len(Q) THEN m ELSE Len(Q)
         IN r.rec = SubSeq(Q, 1, k) /\ z = SubSeq(Q, k + 1, Len(Q))
<1>1. PICK u \in Seq(Bytes) : Cat(u, z) = Q /\ Asked(u, r.n, r.rec, m) BY DEF ReadSoFar
<1>2. r.n >= 0 /\ Len(u) + r.n = m /\ r.rec = u BY <1>1 DEF Asked
<1>3. Len(Q) = Len(u) + Len(z) BY ONLY <1>1, z \in Seq(Bytes), CatIs
<1>4. Len(u) \in Nat /\ Len(z) \in Nat /\ Len(u) \in 0..Len(u) /\ (z = <<>> => Len(z) = 0)
  BY <1>1, EmptySeq
<1> DEFINE k == IF m < Len(Q) THEN m ELSE Len(Q)
<1>5. k = Len(u)
  <2>1. CASE r.n = 0 BY <1>2, <1>3, <1>4, <2>1
  <2>2. CASE z = <<>> BY <1>2, <1>3, <1>4, <2>2
  <2> QED BY <2>1, <2>2
<1>6. SubSeq(Q, 1, Len(u)) = SubSeq(u, 1, Len(u)) /\ SubSeq(Q, Len(u) + 1, Len(Q)) = z
  BY <1>1, <1>4, CatAt
<1>7. SubSeq(u, 1, Len(u)) = u BY <1>1, SubSeqFull
<1> QED BY <1>2, <1>5, <1>6, <1>7

\* A record up to a delimiter, or all there is.
LEMMA ReadLine ==
  ASSUME NEW m \in Int, m < 0, NEW r, NEW Q \in Seq(Bytes), ReadSoFar(r, Q, m),
         NEW z \in Seq(Bytes), Content(r.table) = z, r.n = 0 \/ z = <<>>
  PROVE  \/ /\ \A i \in 1..Len(Q) : Q[i] # Delim
            /\ r.rec = SubSeq(Q, 1, Len(Q)) /\ z = SubSeq(Q, Len(Q) + 1, Len(Q))
         \/ \E i \in 1..Len(Q) :
               /\ Q[i] = Delim /\ \A j \in 1..(i - 1) : Q[j] # Delim
               /\ r.rec = SubSeq(Q, 1, IF m = CHAR_DELIM THEN i - 1 ELSE i)
               /\ z = SubSeq(Q, i + 1, Len(Q))
<1>1. PICK u \in Seq(Bytes) : Cat(u, z) = Q /\ Asked(u, r.n, r.rec, m) BY DEF ReadSoFar
<1>2. Len(Q) = Len(u) + Len(z) BY ONLY <1>1, z \in Seq(Bytes), CatIs
<1>3. Len(u) \in Nat /\ Len(z) \in Nat /\ Len(u) \in 0..Len(u) BY <1>1
<1>4. /\ \A i \in 1..Len(u) : Q[i] = u[i]
      /\ \A k \in 0..Len(u) : SubSeq(Q, 1, k) = SubSeq(u, 1, k)
      /\ SubSeq(Q, Len(u) + 1, Len(Q)) = z
  BY <1>1, CatAt
<1>5. SubSeq(u, 1, Len(u)) = u BY <1>1, SubSeqFull
<1>6. CASE r.n = m /\ r.rec = u /\ NoDelim(u)
  <2>1. z = <<>> /\ Len(z) = 0 BY <1>6, EmptySeq
  <2>2. Len(Q) = Len(u) BY <1>2, <1>3, <2>1
  <2> QED BY <1>3, <1>4, <1>5, <1>6, <2>2 DEF NoDelim
<1>7. CASE Line(u) /\ r.rec = IF m = CHAR_DELIM THEN SubSeq(u, 1, Len(u) - 1) ELSE u
  <2> PICK i \in Nat : i = Len(u) BY <1>3
  <2>1. i \in 1..Len(Q) /\ i \in 1..Len(u) /\ i - 1 \in 0..Len(u) BY <1>2, <1>3, <1>7 DEF Line
  <2>2. Q[i] = Delim BY <1>4, <1>7, <2>1 DEF Line
  <2>3. ASSUME NEW j \in 1..(i - 1) PROVE Q[j] # Delim
    <3>1. j \in 1..Len(u) /\ j < Len(u) BY <1>3
    <3> QED BY <1>4, <1>7, <3>1 DEF Line
  <2>4. r.rec = SubSeq(Q, 1, IF m = CHAR_DELIM THEN i - 1 ELSE i)
    <3>1. SubSeq(Q, 1, i - 1) = SubSeq(u, 1, i - 1) /\ SubSeq(Q, 1, i) = u BY <1>3, <1>4, <1>5, <2>1
    <3> QED BY <1>7, <3>1
  <2>5. z = SubSeq(Q, i + 1, Len(Q)) BY <1>4
  <2> QED BY <2>1, <2>2, <2>3, <2>4, <2>5
<1>8. \/ r.n = m /\ r.rec = u /\ NoDelim(u)
      \/ Line(u) /\ r.rec = IF m = CHAR_DELIM THEN SubSeq(u, 1, Len(u) - 1) ELSE u
  <2>1. ~(m > 0) OBVIOUS
  <2> QED BY <1>1, <2>1 DEF Asked
<1> QED BY <1>6, <1>7, <1>8

\* What getsize_delim() makes of the argument is what the contract understands by it.
LEMMA SizeOf ==
  ASSUME NEW arg \in Arguments
  PROVE  LET m == getsize_delim(arg)
         IN \/ arg.type = "number" /\ m = arg.n /\ m \in Counts /\ m \in Int /\ m > 0
            \/ arg.type # "number" /\ m = (IF ByteQueue!Keeps(arg) THEN -2 ELSE -1)
<1>1. CASE arg \in [type : {"number"}, n : Counts]
  <2>1. arg.type = "number" /\ arg.n \in Counts BY <1>1
  <2>2. getsize_delim(arg) = arg.n BY <2>1 DEF getsize_delim
  <2>3. arg.n \in Nat \ {0} BY <2>1, BufferAssumption
  <2>4. arg.n \in Int /\ arg.n > 0 BY <2>3
  <2> QED BY <2>1, <2>2, <2>4, Zenon
<1>2. CASE arg \in [type : {"nil"}]
  <2>1. arg.type = "nil" BY <1>2
  <2> QED BY <2>1 DEF getsize_delim, ByteQueue!Keeps, CHAR_DELIM
<1>3. CASE arg \in [type : {"string"}, plus : BOOLEAN]
  <2>1. arg.type = "string" /\ arg.plus \in BOOLEAN BY <1>3
  <2> QED BY <2>1 DEF getsize_delim, ByteQueue!Keeps, CHAR_DELIM, CHAR_DELIM_KEEP
<1> QED BY <1>1, <1>2, <1>3 DEF Arguments

\* Every method is a step of the queue of bytes.
LEMMA QueueNext == Sound /\ [BufferNext]_bufferVars => [ByteQueue!QNext]_<<Content(chunks), out, asked>>
<1> SUFFICES ASSUME chunks \in Tables, [BufferNext]_bufferVars
             PROVE  [ByteQueue!QNext]_<<Content(chunks), out, asked>>
  BY DEF Sound
<1>0. LUAL_BUFFERSIZE \in Nat \ {0} /\ \A s \in Strings : s \in Seq(Bytes) /\ s # <<>>
  BY BufferAssumption
<1> DEFINE Q == Content(chunks)
<1>1. ASSUME NEW s \in Strings, pipe_write_aux(s) PROVE ByteQueue!QWrite(s)
  <2>1. [table |-> NonEmptyTable(chunks), rest |-> s] \in WriteStates BY <1>0, LoopsStart
  <2>2. Content(WriteLoop(NonEmptyTable(chunks), s)) = Cat(Content(NonEmptyTable(chunks)), s)
    BY <1>0, <2>1, WriteKeeps
  <2>3. Content(chunks') = Q \o s BY <1>1, <2>2, NonEmptyContent DEF pipe_write_aux, Cat
  <2>4. UNCHANGED <<out, asked>> BY <1>1 DEF pipe_write_aux
  <2> QED BY <2>3, <2>4 DEF ByteQueue!QWrite
<1>2. ASSUME NEW s \in Strings, pipe_unread(s) PROVE ByteQueue!QUnread(s)
  <2>1. [table |-> NonEmptyTable(chunks), rest |-> s] \in UnreadStates BY <1>0, LoopsStart
  <2>2. Content(UnreadLoop(NonEmptyTable(chunks), s)) = Cat(s, Content(NonEmptyTable(chunks)))
    BY <1>0, <2>1, UnreadKeeps
  <2>3. Content(chunks') = s \o Q BY <1>2, <2>2, NonEmptyContent DEF pipe_unread, Cat
  <2>4. UNCHANGED <<out, asked>> BY <1>2 DEF pipe_unread
  <2> QED BY <2>3, <2>4 DEF ByteQueue!QUnread
<1>3. ASSUME NEW arg \in Arguments, pipe_read(arg) PROVE ByteQueue!QNext
  <2> DEFINE m == getsize_delim(arg)
             r == ReadLoop(chunks, m)
             z == Content(r.table)
  <2>0. asked' = arg /\ arg \in ByteQueue!Args
    BY <1>3 DEF pipe_read, Arguments, ByteQueue!Args
  <2>1. CASE chunks = <<>>
    <3>1. Q = <<>> /\ out' = <<>> /\ chunks' = chunks BY <1>3, <2>1, ContentEmpty DEF pipe_read
    <3>2. Content(chunks') = Content(chunks) BY <3>1
    <3>3. ByteQueue!QReadEmpty BY <3>1, <3>2 DEF ByteQueue!QReadEmpty
    <3> QED BY <2>0, <3>3 DEF ByteQueue!QNext, ByteQueue!QRead
  <2>2. CASE chunks # <<>>
    <3>1. out' = <<r.rec>> /\ chunks' = r.table BY <1>3, <2>2 DEF pipe_read
    <3>2. \/ arg.type = "number" /\ m = arg.n /\ m \in Counts /\ m \in Int /\ m > 0
          \/ arg.type # "number" /\ m = (IF ByteQueue!Keeps(arg) THEN -2 ELSE -1)
      BY SizeOf
    <3>3. m \in Int /\ m # 0 BY <3>2
    <3> HIDE DEF m
    <3>4. r \in ReadStates /\ ReadSoFar(r, Q, m) /\ (r.n = 0 \/ r.table = <<>>)
      BY <1>0, <3>3, ReadKeeps
    <3> HIDE DEF r
    <3>5. r.n \in Int /\ r.table \in Seq(Chunk) BY <3>4 DEF ReadStates, Tables
    <3>6. z \in Seq(Bytes) /\ (r.n = 0 \/ z = <<>>) BY <3>4, <3>5, ContentIs, ContentEmpty
    <3>7. Q \in Seq(Bytes) /\ Q # <<>> BY <2>2, ChunksHaveBytes
    <3>8. Content(chunks') = z BY <3>1
    <3> HIDE DEF z, Q
    <3>9. ASSUME NEW used, NEW want, r.rec = SubSeq(Q, 1, want), z = SubSeq(Q, used + 1, Len(Q))
          PROVE  ByteQueue!Take(used, want)
      BY <3>1, <3>7, <3>8, <3>9 DEF ByteQueue!Take, Q
    <3>10. CASE arg.type = "number"
      <4>1. LET k == IF m < Len(Q) THEN m ELSE Len(Q)
            IN r.rec = SubSeq(Q, 1, k) /\ z = SubSeq(Q, k + 1, Len(Q))
        BY <3>2, <3>3, <3>4, <3>5, <3>6, <3>7, <3>10, ReadCount DEF z
      <4>2. ByteQueue!QReadCount(m)
        <5>1. CASE m < Len(Q)
          <6>1. ByteQueue!Take(m, m) BY <3>9, <4>1, <5>1
          <6> QED BY <5>1, <6>1 DEF ByteQueue!QReadCount, Q
        <5>2. CASE ~(m < Len(Q))
          <6>1. ByteQueue!Take(Len(Q), Len(Q)) BY <3>9, <4>1, <5>2
          <6> QED BY <5>2, <6>1 DEF ByteQueue!QReadCount, Q
        <5> QED BY <5>1, <5>2
      <4>3. ByteQueue!QRead(arg) BY <2>0, <3>2, <3>10, <4>2 DEF ByteQueue!QRead
      <4> QED BY <2>0, <4>3 DEF ByteQueue!QNext
    <3>11. CASE arg.type # "number"
      <4>1. m < 0 BY <3>2, <3>11
      <4> DEFINE keep == ByteQueue!Keeps(arg)
      <4>0. keep <=> m # CHAR_DELIM BY <3>2, <3>11 DEF CHAR_DELIM
      <4>9. ASSUME ByteQueue!QReadDelim(keep) PROVE ByteQueue!QNext
        <5>1. ByteQueue!QRead(arg) BY <2>0, <3>11, <4>9 DEF ByteQueue!QRead
        <5> QED BY <2>0, <5>1 DEF ByteQueue!QNext
      <4> HIDE DEF keep
      <4>2. CASE /\ \A i \in 1..Len(Q) : Q[i] # Delim
                 /\ r.rec = SubSeq(Q, 1, Len(Q)) /\ z = SubSeq(Q, Len(Q) + 1, Len(Q))
        <5>1. ByteQueue!Take(Len(Q), Len(Q)) BY <3>9, <4>2
        <5>2. \A i \in 1..Len(Q) : ~ByteQueue!IsFirstDelim(i) BY <4>2 DEF ByteQueue!IsFirstDelim, Q
        <5>3. ByteQueue!QReadDelim(keep) BY <5>1, <5>2 DEF ByteQueue!QReadDelim, Q
        <5> QED BY <4>9, <5>3
      <4>3. CASE \E i \in 1..Len(Q) :
                   /\ Q[i] = Delim /\ \A j \in 1..(i - 1) : Q[j] # Delim
                   /\ r.rec = SubSeq(Q, 1, IF m = CHAR_DELIM THEN i - 1 ELSE i)
                   /\ z = SubSeq(Q, i + 1, Len(Q))
        <5>1. PICK i \in 1..Len(Q) :
                   /\ Q[i] = Delim /\ \A j \in 1..(i - 1) : Q[j] # Delim
                   /\ r.rec = SubSeq(Q, 1, IF m = CHAR_DELIM THEN i - 1 ELSE i)
                   /\ z = SubSeq(Q, i + 1, Len(Q))
          BY <4>3
        <5>2. ByteQueue!IsFirstDelim(i) BY <5>1 DEF ByteQueue!IsFirstDelim, Q
        <5>3. ByteQueue!Take(i, IF keep THEN i ELSE i - 1)
          <6>1. (IF keep THEN i ELSE i - 1) = (IF m = CHAR_DELIM THEN i - 1 ELSE i) BY <4>0
          <6> QED BY <3>9, <5>1, <6>1
        <5>4. ByteQueue!QReadDelim(keep) BY <5>1, <5>2, <5>3 DEF ByteQueue!QReadDelim, Q
        <5> QED BY <4>9, <5>4
      <4> QED BY <3>3, <3>4, <3>6, <3>7, <4>1, <4>2, <4>3, ReadLine DEF z
    <3> QED BY <3>10, <3>11
  <2> QED BY <2>1, <2>2
<1>4. CASE UNCHANGED bufferVars
  <2>1. chunks' = chunks /\ out' = out /\ asked' = asked BY <1>4 DEF bufferVars
  <2>2. Content(chunks') = Content(chunks) BY <2>1
  <2> QED BY <2>1, <2>2
<1> QED BY <1>1, <1>2, <1>3, <1>4 DEF BufferNext, ByteQueue!QNext

\* The chunks, however they are cut, shifted and refilled, are one queue of bytes:
\* what write() appends and unread() puts back is read in order, nothing is lost
\* or repeated at a boundary of chunks, and a record is the one asked for.
THEOREM BytesImplementQueue == BufferSpec => ImplementsByteQueue
<1>1. BufferInit => ByteQueue!QInit
  BY ContentEmpty DEF BufferInit, ByteQueue!QInit
<1> QED BY <1>1, AlwaysSound, QueueNext, PTL DEF BufferSpec, ImplementsByteQueue, ByteQueue!QSpec
=============================================================================
