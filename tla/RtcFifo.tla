------------------------------ MODULE RtcFifo -------------------------------
(***************************************************************************)
(* The sample FIFO in RTC memory: app/include/rtc/rtcfifo.h and            *)
(* app/modules/rtcfifo.c.                                                  *)
(*                                                                         *)
(* RTC memory outlives deep sleep and resets.  Its control block is the    *)
(* record rtc; the slots from begin hold tagcount sensor names (0 is a     *)
(* free slot) and then, up to end, the ring of entries.  An entry keeps    *)
(* the seconds since the previous one in a field of limited width; the     *)
(* field of decimals is like that of the value and left out.  Calls run to *)
(* completion, unless the chip is reset: then the words not yet written    *)
(* keep their old content (Torn).                                          *)
(***************************************************************************)
EXTENDS Integers, FiniteSets, Sequences

CONSTANTS Slots,         \* RTC memory, a set of addresses
          DefaultBegin, DefaultEnd,  \* RTC_DEFAULT_FIFO_START, _END
          TagCounts,     \* sensor_count given to prepare()
          Storages,      \* [begin, end] given to prepare()
          Names, Values, Times, Drops,   \* arguments of put() and drop()
          TimeMod,       \* 2^32
          MaxDelta,      \* 0x1ff, the largest delta-t an entry holds
          ValueMod,      \* 2^16
          MaxTears       \* bound on the resets in the middle of an operation

ASSUME FifoAssumption ==
  /\ Slots \subseteq Nat
  /\ TimeMod \in Nat \ {0} /\ MaxDelta \in Nat /\ MaxDelta < TimeMod
  /\ ValueMod \in Nat \ {0}
  /\ 0 \notin Names /\ Values \subseteq Nat
  /\ Times \subseteq 0..(TimeMod - 1)
  /\ Drops \subseteq Nat /\ MaxTears \in Nat
  /\ TagCounts \subseteq 1..16
  /\ DefaultBegin \in Nat /\ DefaultEnd \in Nat
  /\ \A n \in TagCounts : DefaultBegin + n < DefaultEnd
  /\ Storages \subseteq [begin : Nat, end : Nat]
  /\ DefaultBegin..(DefaultEnd - 1) \subseteq Slots
  /\ \A s \in Storages :
       /\ s.begin..(s.end - 1) \subseteq Slots
       /\ \A n \in TagCounts : s.begin..(s.begin + n - 1) \subseteq Slots

VARIABLES rtc,     \* RTC memory
          skewed,  \* the FIFO was restarted by the oldest sample it holds (history)
          tears,   \* resets in the middle of an operation (history)
          halfway  \* prepare() of a prepared FIFO was cut off last time (history)

vars == <<rtc, skewed, tears, halfway>>

Samples == [timestamp : Times, value : Values, tag : Names]

-----------------------------------------------------------------------------
(* Places. *)

First(m) == m.begin + m.tagcount

Capacity(m) == m.end - First(m)

TagSlots(m) == m.begin..(First(m) - 1)

RingSlots(m) == First(m)..(m.end - 1)

\* prepare() sets head and tail for the default location before it moves the
\* FIFO: only a location whose ring holds the default head gets good indices.
HoldsDefaultHead(m) == DefaultBegin + m.tagcount \in RingSlots(m)

\* Otherwise put(), pop() and drop() use memory that is not the FIFO's.  What
\* they do there is not modelled: such a FIFO waits for the next prepare().
InPlace(m) == m.head \in RingSlots(m) /\ m.tail \in RingSlots(m)

normalise_index(m, i) == IF i >= m.end THEN First(m) ELSE i

(* Names and deltas. *)

\* The slot that holds tag or, before it, the first free one; -1 if neither.
find_tag_index(m, tag) ==
  LET fit == {i \in 0..(m.tagcount - 1) : m.tags[m.begin + i] \in {tag, 0}}
  IN IF fit = {} THEN -1 ELSE CHOOSE i \in fit : \A j \in fit : i <= j

\* Fault model: the name is not written to the slot that was found for it.
Tagged_unwritten(m, tag) == m

Tagged(m, tag) ==
  LET i == find_tag_index(m, tag)
  IN IF i < 0 THEN m ELSE [m EXCEPT !.tags[m.begin + i] = tag]

\* The subtraction is unsigned: a sample from the past is far in the future.
delta_t(t, ref_t) ==
  LET delta == (t - ref_t) % TimeMod IN IF delta > MaxDelta THEN -1 ELSE delta

\* The fields are masked; -1 becomes the largest delta.
construct_entry(value, tagindex, deltat) ==
  [value |-> value % ValueMod, tagindex |-> tagindex % 16,
   deltat |-> deltat % (MaxDelta + 1)]

-----------------------------------------------------------------------------
(* Reading. *)

\* Fault model: the index wraps one slot late.
Advance_late(m, n) ==
  IF m.head + n <= m.end THEN m.head + n
  ELSE First(m) + ((m.head + n - m.end) % Capacity(m))

\* head after n times head = normalise_index(head + 1).
Advance(m, n) ==
  IF m.head + n < m.end THEN m.head + n
  ELSE First(m) + ((m.head + n - m.end) % Capacity(m))

\* Sum of the first n deltas, which is added to the timestamp of the head.
Elapsed(m, n) ==
  LET sum[i \in 0..n] ==
        IF i = 0 THEN 0 ELSE sum[i - 1] + m.ring[Advance(m, i - 1)].deltat
  IN sum[n]

\* The sample behind n others, and its timestamp.
peek_sample(m, n) ==
  LET entry == m.ring[Advance(m, n)]
  IN [value |-> entry.value, tag |-> m.tags[m.begin + entry.tagindex]]

peek_time(m, n) == (m.head_t + Elapsed(m, n + 1)) % TimeMod

\* Fault model: the timestamp of the head is not moved.
Dropped_stale(m, n) == [m EXCEPT !.head = Advance(m, n), !.count = @ - n]

\* The control block after n samples were popped or dropped.
Dropped(m, n) ==
  [m EXCEPT !.head = Advance(m, n),
            !.head_t = (@ + Elapsed(m, n)) % TimeMod,
            !.count = @ - n]

-----------------------------------------------------------------------------
(* Writing. *)

\* rtc_fifo_clear_tags() has cleared the first n names.
ClearTags(m, n) ==
  [a \in Slots |-> IF a \in m.begin..(m.begin + n - 1) THEN 0 ELSE m.tags[a]]

\* Fault model: the head is not reset.
clear_content_keeps_head(m) ==
  [m EXCEPT !.tail = First(m), !.count = 0,
            !.tail_t = 0, !.head_t = 0, !.tags = ClearTags(m, m.tagcount)]

clear_content(m) ==
  [m EXCEPT !.tail = First(m), !.head = First(m), !.count = 0,
            !.tail_t = 0, !.head_t = 0, !.tags = ClearTags(m, m.tagcount)]

\* rtc_fifo_store_sample: the name is looked up, an empty FIFO takes its time
\* from the sample ...
Begun(m, s) ==
  LET a == Tagged(m, s.tag)
  IN IF m.count = 0 THEN [a EXCEPT !.head_t = s.timestamp, !.tail_t = s.timestamp] ELSE a

Delta(m, s) == delta_t(s.timestamp, Begun(m, s).tail_t)

Restarts(m, s) == find_tag_index(m, s.tag) < 0 \/ Delta(m, s) < 0

\* ... one that does not fit the scheme restarts the FIFO ...
Restarted(m, s) ==
  Tagged([clear_content(m) EXCEPT !.head_t = s.timestamp, !.tail_t = s.timestamp], s.tag)

Full(m) == m.head = m.tail /\ m.count > 0

\* ... a full one loses its oldest sample ...
MadeRoom(m, s) ==
  LET a == Begun(m, s)
  IN IF Restarts(m, s) THEN Restarted(a, s) ELSE IF Full(a) THEN Dropped(a, 1) ELSE a

\* ... and the entry is written, with the delta that was computed at first.
store_sample(m, s) ==
  LET b == MadeRoom(m, s)
  IN [b EXCEPT !.ring[b.tail] = construct_entry(s.value, find_tag_index(b, s.tag), Delta(m, s)),
               !.tail = normalise_index(b, b.tail + 1),
               !.tail_t = s.timestamp,
               !.count = @ + 1]

PutLoc(m, begin, end, n) == [m EXCEPT !.begin = begin, !.end = end, !.tagcount = n]

\* rtc_fifo_prepare(): the default location, then the content, then the magic.
PreparedDefault(m, n) ==
  [clear_content(PutLoc(m, DefaultBegin, DefaultEnd, n)) EXCEPT !.magic = TRUE]

-----------------------------------------------------------------------------
(* What a reset in the middle leaves: the words written so far are new. *)

Torn(old, new, order) ==
  {[f \in DOMAIN old |-> IF \E i \in 1..k : order[i] = f THEN new[f] ELSE old[f]] :
     k \in 1..(Len(order) - 1)}

TornClear(m) ==
  Torn(m, clear_content(m), <<"tail", "head", "count", "tail_t", "head_t", "tags">>)
    \cup {[clear_content(m) EXCEPT !.tags = ClearTags(m, n)] : n \in 1..m.tagcount}

TornDrop(m, n) ==
  {[m EXCEPT !.count = @ - i] : i \in 1..n}
    \cup {[m EXCEPT !.count = @ - n, !.head = Advance(m, n)]}

TornMakeRoom(m, s) ==
  LET a == Begun(m, s)
      b == MadeRoom(m, s)
  IN CASE Restarts(m, s) ->
            TornClear(a) \cup Torn(clear_content(a), b, <<"head_t", "tail_t", "tags">>)
       [] ~Restarts(m, s) /\ Full(a) -> Torn(a, b, <<"head", "head_t", "count">>)
       [] OTHER -> {}

TornStore(m, s) ==
  Torn(m, Begun(m, s), <<"tags", "head_t", "tail_t">>)
    \cup TornMakeRoom(m, s)
    \cup {MadeRoom(m, s)}
    \cup Torn(MadeRoom(m, s), store_sample(m, s), <<"ring", "tail", "tail_t", "count">>)

-----------------------------------------------------------------------------
\* Power-on: no magic, and whatever the memory holds.
Init ==
  /\ \E tag \in Names \cup {0} :
       rtc = [magic |-> FALSE, begin |-> 0, end |-> 0, tagcount |-> 0,
              count |-> 0, head |-> 0, tail |-> 0, head_t |-> 0, tail_t |-> 0,
              tags |-> [a \in Slots |-> tag],
              ring |-> [a \in Slots |-> [value |-> 0, tagindex |-> 0, deltat |-> 0]]]
  /\ skewed = FALSE /\ tears = 0 /\ halfway = FALSE

rtcfifo_prepare(n) ==
  /\ rtc' = PreparedDefault(rtc, n)
  /\ skewed' = FALSE /\ tears' = 0 /\ halfway' = FALSE

\* The storage that was asked for is set after the content was cleared; a
\* reset before that leaves what rtcfifo_prepare(n) does.
rtcfifo_prepare_storage(n, st) ==
  /\ rtc' = PutLoc(PreparedDefault(rtc, n), st.begin, st.end, n)
  /\ skewed' = FALSE /\ tears' = 0 /\ halfway' = FALSE

rtcfifo_put(s) ==
  /\ rtc.magic /\ InPlace(rtc)
  /\ rtc' = store_sample(rtc, s)
  /\ skewed' = (tears = 0 /\ (Restarts(rtc, s) \/ (skewed /\ rtc.count > 0)))
  /\ UNCHANGED <<tears, halfway>>

\* pop() returns peek_sample(rtc, 0) with its timestamp.
rtcfifo_pop ==
  /\ rtc.magic /\ InPlace(rtc)
  /\ rtc.count > 0
  /\ rtc' = Dropped(rtc, 1)
  /\ UNCHANGED <<skewed, tears, halfway>>

DropCount(m, n) == IF m.count <= n THEN m.count ELSE n

rtcfifo_drop(n) ==
  /\ rtc.magic /\ InPlace(rtc)
  /\ rtc' = Dropped(rtc, DropCount(rtc, n))
  /\ UNCHANGED <<skewed, tears, halfway>>

\* A reset while put(), pop() or drop() writes.
Reset ==
  /\ rtc.magic /\ InPlace(rtc) /\ tears < MaxTears
  /\ \/ \E s \in Samples : rtc' \in TornStore(rtc, s)
     \/ /\ rtc.count > 0
        /\ rtc' \in Torn(rtc, Dropped(rtc, 1), <<"head", "head_t", "count">>)
     \/ \E n \in Drops : rtc' \in TornDrop(rtc, DropCount(rtc, n))
  /\ rtc' # rtc
  /\ tears' = tears + 1
  /\ skewed' = FALSE
  /\ UNCHANGED halfway

\* A reset while prepare() writes.  The first time there is no magic yet and the
\* program sees that it has to prepare() again; later the old magic is there, and
\* the new location may go with the old head, tail and count.
ResetPrepare(n) ==
  /\ tears < MaxTears
  /\ LET m == PutLoc(rtc, DefaultBegin, DefaultEnd, n)
     IN rtc' \in {m} \cup TornClear(m)
  /\ tears' = tears + 1
  /\ halfway' = (halfway \/ rtc.magic)
  /\ skewed' = FALSE

Next ==
  \/ \E n \in TagCounts :
       \/ rtcfifo_prepare(n) \/ ResetPrepare(n)
       \/ \E st \in Storages : rtcfifo_prepare_storage(n, st)
  \/ \E s \in Samples : rtcfifo_put(s)
  \/ rtcfifo_pop
  \/ \E n \in Drops : rtcfifo_drop(n)
  \/ Reset

Spec == Init /\ [][Next]_vars

-----------------------------------------------------------------------------
\* The ring a prepared FIFO uses is the one that was asked for: the indices
\* stay in it whatever is put, popped, dropped or interrupted, and the number
\* of samples does not exceed it unless an operation was interrupted.  Two cases
\* are left out, in which the code does not keep to the ring (IndicesAlwaysInRing):
\* a location without the default head, and a prepare() of a prepared FIFO that
\* a reset cut off.
IndicesInRing ==
  /\ rtc.magic /\ HoldsDefaultHead(rtc) /\ ~halfway =>
       /\ rtc.head \in RingSlots(rtc)
       /\ rtc.tail \in RingSlots(rtc)
       /\ tears = 0 => rtc.count <= Capacity(rtc)
  /\ rtc.magic => rtc.count \in Nat

\* docs/modules/rtcfifo.md, prepare(): storage_begin is "the first RTC user memory
\* slot to use", and the slot storage_end "will *not* be touched".  The code sets
\* head and tail for the default location first (rtcfifo_prepare) and does not
\* clear the magic before it changes the location (rtc_fifo_prepare).
IndicesAlwaysInRing == rtc.magic => InPlace(rtc)

\* The tail is count places after the head, so that a full ring can be told
\* from an empty one, unless an operation was interrupted or the location does
\* not hold the default head.
TailFollowsHead ==
  rtc.magic /\ HoldsDefaultHead(rtc) /\ tears = 0 => rtc.tail = Advance(rtc, rtc.count)

\* The deltas add up from the head's timestamp to the tail's, through every
\* sample put, dropped and popped, unless the oldest sample restarted the FIFO
\* or an operation was interrupted.
DeltasAddUp ==
  rtc.magic /\ tears = 0 /\ rtc.count > 0 /\ ~skewed
    => peek_time(rtc, rtc.count - 1) = rtc.tail_t

\* docs/modules/rtcfifo.md, pop(): "The values returned match the input
\* arguments used to rtcfifo.put()": the sample put has the timestamp put.
TimestampsMatch ==
  [][\A s \in Samples :
       rtcfifo_put(s) => peek_time(rtc', rtc'.count - 1) = s.timestamp]_vars

\* The content is a bounded queue.
Contract == INSTANCE SampleFifoContract WITH
  q <- IF rtc.magic /\ tears = 0
       THEN [i \in 1..rtc.count |-> peek_sample(rtc, i - 1)] ELSE <<>>,
  last <- rtc.tail_t,
  names <- {rtc.tags[a] : a \in TagSlots(rtc)} \ {0},
  free <- Cardinality({a \in TagSlots(rtc) : rtc.tags[a] = 0}),
  cap <- Capacity(rtc),
  ok <- tears = 0,
  Stored <- LAMBDA s : [value |-> s.value % ValueMod, tag |-> s.tag],
  TooFar <- LAMBDA t, u : (t - u) % TimeMod > MaxDelta

ImplementsFifo == Contract!QSpec
=============================================================================
