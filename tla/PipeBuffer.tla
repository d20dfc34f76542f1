----------------------------- MODULE PipeBuffer -----------------------------
(***************************************************************************)
(* The bytes of a pipe (app/modules/pipe.c): the chunks in slots 2, 3, ... *)
(* of the pipe table, each a buffer of LUAL_BUFFERSIZE bytes of which      *)
(* those between start and end are used.  A chunk is modelled by its start *)
(* and by the bytes it uses; its end is start + Len(data).                 *)
(*                                                                         *)
(* Methods are atomic: a pipe is only touched by Lua tasks.                *)
(***************************************************************************)
EXTENDS Integers, SequencesExt

CONSTANTS LUAL_BUFFERSIZE,  \* bytes in a chunk
          Bytes, Delim,     \* byte values, and the delimiter '\n'
          Strings,          \* arguments of write() and unread()
          Counts,           \* sizes asked of read()
          MaxBytes          \* bound on the bytes in the pipe

ASSUME BufferAssumption ==
  /\ LUAL_BUFFERSIZE \in Nat \ {0}
  /\ Delim \in Bytes
  /\ \A s \in Strings : s \in Seq(Bytes) /\ s # <<>>
  /\ Counts \subseteq Nat \ {0}

VARIABLES chunks,  \* slots 2.. of the pipe table
          out,     \* the last result of read(): a sequence of at most one record
          asked    \* the argument it was called with (for the contract)

bufferVars == <<chunks, out, asked>>

Used(ud) == Len(ud.data)

End(ud) == ud.start + Used(ud)

newPipeUD == [start |-> 0, data |-> <<>>]

Content(T) == FlattenSeq([i \in DOMAIN T |-> T[i].data])

BufferInit == chunks = <<>> /\ out = <<>> /\ asked = [type |-> "nil"]

-----------------------------------------------------------------------------
(* write(): at the tail. *)

\* Fault model: the content is not shifted when the string does not fit behind it.
TailReadyUnshifted(T, l) ==
  IF Used(Last(T)) = LUAL_BUFFERSIZE THEN Append(T, newPipeUD) ELSE T

\* A full last chunk is followed by a new one; content is shifted to the start
\* of its chunk when a string of l bytes does not fit behind it.
TailReady(T, l) ==
  LET ud == Last(T)
  IN CASE Used(ud) = LUAL_BUFFERSIZE -> Append(T, newPipeUD)
       [] LUAL_BUFFERSIZE - End(ud) < l /\ Used(ud) # LUAL_BUFFERSIZE ->
            [T EXCEPT ![Len(T)].start = 0]
       [] OTHER -> T

PutTail(T, s) == [T EXCEPT ![Len(T)].data = @ \o s]

\* What of a string of l bytes the chunk ud has room for.
Fitting(ud, l) == IF l <= LUAL_BUFFERSIZE - Used(ud) THEN l ELSE LUAL_BUFFERSIZE - Used(ud)

\* One round of the loop: as much as fits goes into the last chunk.
WriteStep(w) ==
  LET R == TailReady(w.table, Len(w.rest))
      n == Fitting(Last(R), Len(w.rest))
  IN IF w.rest = <<>> THEN w
     ELSE [table |-> PutTail(R, SubSeq(w.rest, 1, n)),
           rest |-> SubSeq(w.rest, n + 1, Len(w.rest))]

\* Each round takes a byte at least, and once nothing is left they change nothing.
WriteLoop(T, s) ==
  LET loop[i \in 0..Len(s)] ==
        IF i = 0 THEN [table |-> T, rest |-> s] ELSE WriteStep(loop[i - 1])
  IN loop[Len(s)].table

NonEmptyTable(T) == IF T = <<>> THEN <<newPipeUD>> ELSE T

pipe_write_aux(s) ==
  /\ Len(Content(chunks)) + Len(s) <= MaxBytes
  /\ chunks' = WriteLoop(NonEmptyTable(chunks), s)
  /\ UNCHANGED <<out, asked>>

-----------------------------------------------------------------------------
(* unread(): at the head, filling chunks leftwards. *)

\* A full first chunk is preceded by a new one, empty at its right end; content
\* is shifted to the end of its chunk when l bytes do not fit before it.
HeadReady(T, l) ==
  LET ud == Head(T)
  IN CASE Used(ud) = LUAL_BUFFERSIZE ->
            <<[newPipeUD EXCEPT !.start = LUAL_BUFFERSIZE]>> \o T
       [] ud.start < l /\ Used(ud) # LUAL_BUFFERSIZE ->
            [T EXCEPT ![1].start = LUAL_BUFFERSIZE - Used(ud)]
       [] OTHER -> T

PutHead(T, s) == [T EXCEPT ![1] = [start |-> @.start - Len(s), data |-> s \o @.data]]

\* Fault model: the loop tops off the chunk with the front of the string.
UnreadStep_front(w) ==
  LET R == HeadReady(w.table, Len(w.rest))
      n == Fitting(Head(R), Len(w.rest))
  IN IF w.rest = <<>> THEN w
     ELSE [table |-> PutHead(R, SubSeq(w.rest, 1, n)),
           rest |-> SubSeq(w.rest, n + 1, Len(w.rest))]

\* One round of the loop: the end of the string, as much as fits.
UnreadStep(w) ==
  LET R == HeadReady(w.table, Len(w.rest))
      l == Len(w.rest) - Fitting(Head(R), Len(w.rest))
  IN IF w.rest = <<>> THEN w
     ELSE [table |-> PutHead(R, SubSeq(w.rest, l + 1, Len(w.rest))),
           rest |-> SubSeq(w.rest, 1, l)]

UnreadLoop(T, s) ==
  LET loop[i \in 0..Len(s)] ==
        IF i = 0 THEN [table |-> T, rest |-> s] ELSE UnreadStep(loop[i - 1])
  IN loop[Len(s)].table

pipe_unread(s) ==
  /\ Len(Content(chunks)) + Len(s) <= MaxBytes
  /\ chunks' = UnreadLoop(NonEmptyTable(chunks), s)
  /\ UNCHANGED <<out, asked>>

-----------------------------------------------------------------------------
(* read(): from the head. *)

CHAR_DELIM == -1
CHAR_DELIM_KEEP == -2

\* A missing argument reads up to '\n', which it strips.
getsize_delim(arg) ==
  CASE arg.type = "number" -> arg.n
    [] arg.type = "nil"    -> CHAR_DELIM
    [] arg.type = "string" -> IF arg.plus THEN CHAR_DELIM_KEEP ELSE CHAR_DELIM

Arguments == [type : {"number"}, n : Counts] \cup [type : {"nil"}]
             \cup [type : {"string"}, plus : BOOLEAN]

\* used bytes leave the head chunk; a chunk that is emptied leaves the table.
Consume(T, used) ==
  IF used = Used(Head(T)) THEN Tail(T)
  ELSE [T EXCEPT ![1] = [start |-> @.start + used,
                         data |-> SubSeq(@.data, used + 1, Len(@.data))]]

\* The bytes that a round takes from a chunk that holds d, of which it may not
\* want the last one, and what is asked for after it: nothing after a delimiter.
Hits(d) == {i \in 1..Len(d) : d[i] = Delim}
FirstHit(d) == CHOOSE i \in Hits(d) : \A j \in Hits(d) : i <= j

Taken(d, n) ==
  IF n < 0 THEN (IF Hits(d) = {} THEN Len(d) ELSE FirstHit(d))
  ELSE IF n < Len(d) THEN n ELSE Len(d)

Wanted(d, n) == IF n = CHAR_DELIM /\ Hits(d) # {} THEN Taken(d, n) - 1 ELSE Taken(d, n)

Remaining(d, n) ==
  IF n < 0 THEN (IF Hits(d) = {} THEN n ELSE 0) ELSE n - Taken(d, n)

\* One round of the loop.
ReadStep(r) ==
  LET d == Head(r.table).data
  IN IF r.table = <<>> \/ r.n = 0 THEN r
     ELSE [table |-> Consume(r.table, Taken(d, r.n)),
           n |-> Remaining(d, r.n),
           rec |-> r.rec \o SubSeq(d, 1, Wanted(d, r.n))]

\* Each round empties a chunk or is the last one.
ReadLoop(T, n) ==
  LET loop[i \in 0..Len(T)] ==
        IF i = 0 THEN [table |-> T, n |-> n, rec |-> <<>>] ELSE ReadStep(loop[i - 1])
  IN loop[Len(T)]

pipe_read(arg) ==
  /\ asked' = arg
  /\ IF chunks = <<>>
     THEN out' = <<>> /\ UNCHANGED chunks
     ELSE LET r == ReadLoop(chunks, getsize_delim(arg))
          IN out' = <<r.rec>> /\ chunks' = r.table

-----------------------------------------------------------------------------
BufferNext ==
  \/ \E s \in Strings : pipe_write_aux(s) \/ pipe_unread(s)
  \/ \E arg \in Arguments : pipe_read(arg)

BufferSpec == BufferInit /\ [][BufferNext]_bufferVars

-----------------------------------------------------------------------------
\* Every chunk lies within its buffer, whatever was shifted, and none is empty:
\* docs/modules/pipe.md, nrec(): "Each record ranges from 1 to 256 bytes".
ChunksInBounds ==
  \A i \in DOMAIN chunks :
    /\ chunks[i].start \in 0..LUAL_BUFFERSIZE
    /\ chunks[i].data \in Seq(Bytes)
    /\ Used(chunks[i]) \in 1..LUAL_BUFFERSIZE
    /\ End(chunks[i]) <= LUAL_BUFFERSIZE

\* The chunks are one sequence of bytes: writes append to it, unreads prepend
\* to it, reads take the record that was asked for from its head, across chunks.
ByteQueue == INSTANCE PipeContract WITH q <- Content(chunks)

ImplementsByteQueue == ByteQueue!QSpec

\* docs/modules/pipe.md, unread(): "a=p:read() p:unread(a) -- restores pipe to
\* state before the read", which needs the default '"\n+"' that it gives read().
UnreadRestores ==
  [][pipe_read([type |-> "nil"]) /\ chunks # <<>>
       => Content(chunks) = out'[1] \o Content(chunks')]_bufferVars
=============================================================================
