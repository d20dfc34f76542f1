------------------------- MODULE SampleFifoContract -------------------------
(***************************************************************************)
(* What docs/modules/rtcfifo.md promises of the FIFO's content: samples    *)
(* come out in the order they went in; the oldest is dropped when the FIFO *)
(* is full; a sample whose timestamp is too far from the previous one, or  *)
(* whose name finds no room, evicts all earlier ones.  Nothing is promised *)
(* after a reset in the middle of an operation until the next prepare().   *)
(***************************************************************************)
EXTENDS Naturals, Sequences

CONSTANTS Samples,          \* what is put
          Stored(_),        \* what is kept of a sample (its timestamp apart)
          TooFar(_, _),     \* a timestamp against the previous one
          Drops             \* arguments of drop(); pop() drops one

VARIABLES q,      \* the samples
          last,   \* the timestamp of the last sample put
          names,  \* names in use
          free,   \* room for further names
          cap,    \* room for samples
          ok      \* the content is promised

cvars == <<q, last, names, free, cap, ok>>

QInit == q = <<>>

QPrepare == q' = <<>> /\ ok'

Evicts(s) == (s.tag \notin names /\ free = 0) \/ (q # <<>> /\ TooFar(s.timestamp, last))

QPut(s) ==
  /\ q' = IF Evicts(s) THEN <<Stored(s)>>
          ELSE Append(IF Len(q) = cap THEN Tail(q) ELSE q, Stored(s))
  /\ names' = (IF Evicts(s) THEN {} ELSE names) \cup {s.tag}
  /\ last' = s.timestamp
  /\ UNCHANGED cap

QDrop(n) ==
  /\ q' = SubSeq(q, n + 1, Len(q))
  /\ UNCHANGED <<last, names, free, cap>>

QNext ==
  \/ QPrepare
  \/ ok /\ ((\E s \in Samples : QPut(s)) \/ (\E n \in Drops \cup {1} : QDrop(n)))
  \/ ~ok'

QSpec == QInit /\ [][QNext]_cvars
=============================================================================
