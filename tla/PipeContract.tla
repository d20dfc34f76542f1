---------------------------- MODULE PipeContract ----------------------------
(***************************************************************************)
(* What a pipe promises (docs/modules/pipe.md): it is a sequence of bytes  *)
(* that is written at its end, read from its head up to a number of bytes  *)
(* or a delimiter, and put back at its head.                               *)
(***************************************************************************)
EXTENDS Naturals, Sequences

CONSTANTS Bytes, Delim, Strings, Counts

VARIABLES q,    \* the bytes in the pipe
          out,  \* the last result of read(): a sequence of at most one record
          asked \* the argument it was called with

Args == [type : {"number"}, n : Counts] \cup [type : {"nil"}]
        \cup [type : {"string"}, plus : BOOLEAN]

\* Only "+" keeps the delimiter.  docs/modules/pipe.md says that an omitted
\* argument "defaults to "\n+""; getsize_delim() takes it for "\n".
Keeps(arg) == arg.type = "string" /\ arg.plus

IsFirstDelim(i) == i \in 1..Len(q) /\ q[i] = Delim /\ \A j \in 1..(i - 1) : q[j] # Delim

\* A record of at most n bytes; one up to and including the first delimiter,
\* which is stripped unless it is to be kept.
QInit == q = <<>> /\ out = <<>> /\ asked = [type |-> "nil"]

Take(used, want) ==
  /\ q # <<>>
  /\ out' = <<SubSeq(q, 1, want)>>
  /\ q' = SubSeq(q, used + 1, Len(q))

QWrite(s) == q' = q \o s /\ UNCHANGED <<out, asked>>
QUnread(s) == q' = s \o q /\ UNCHANGED <<out, asked>>
QReadEmpty == q = <<>> /\ out' = <<>> /\ UNCHANGED q
QReadCount(n) == IF n < Len(q) THEN Take(n, n) ELSE Take(Len(q), Len(q))
QReadDelim(keep) ==
  \/ \E i \in 1..Len(q) : IsFirstDelim(i) /\ Take(i, IF keep THEN i ELSE i - 1)
  \/ ~(\E i \in 1..Len(q) : IsFirstDelim(i)) /\ Take(Len(q), Len(q))

\* The argument decides which record is read.
QRead(arg) ==
  /\ asked' = arg
  /\ \/ QReadEmpty
     \/ arg.type = "number" /\ QReadCount(arg.n)
     \/ arg.type # "number" /\ QReadDelim(Keeps(arg))

QNext ==
  \/ \E s \in Strings : QWrite(s) \/ QUnread(s)
  \/ \E arg \in Args : QRead(arg)

QSpec == QInit /\ [][QNext]_<<q, out, asked>>
=============================================================================
