--------------------------- MODULE RtcFifoProofs ----------------------------
(***************************************************************************)
(* The control block of the sample FIFO, for every ring size, name table,  *)
(* clock and delta width.  At every location that holds the default head   *)
(* the indices stay in the ring even when put, pop and drop are            *)
(* interrupted by resets; when nothing was, the tail follows the head by   *)
(* count slots, the deltas lead from the timestamp of the head to that of  *)
(* the tail, and the samples are a bounded queue.                          *)
(***************************************************************************)
EXTENDS RtcFifo, SequenceTheorems, FunctionTheorems, FiniteSetTheorems, TLAPS

Fields == {"magic", "begin", "end", "tagcount", "count", "head", "tail",
           "head_t", "tail_t", "tags", "ring"}

\* RTC memory is a record with these fields.
Shape(m) == m = [f \in Fields |-> m[f]]

\* The indices lie in the ring.
InRing(m) ==
  /\ m.begin \in Nat /\ m.end \in Nat /\ m.tagcount \in Nat /\ m.count \in Nat
  /\ m.head \in Nat /\ First(m) <= m.head /\ m.head < m.end
  /\ m.tail \in Nat /\ First(m) <= m.tail /\ m.tail < m.end

\* The tail follows the head.
Follows(m) == m.count <= Capacity(m) /\ m.tail = Advance(m, m.count)

\* The ring lies in RTC memory.
Placed(m) == m.begin..(m.end - 1) \subseteq Slots

\* The location is one, whatever the indices are.
Located(m) ==
  m.begin \in Nat /\ m.end \in Nat /\ m.tagcount \in Nat /\ m.count \in Nat

SameLocation(a, b) ==
  /\ a.begin = b.begin /\ a.end = b.end /\ a.tagcount = b.tagcount /\ a.magic = b.magic
  /\ DOMAIN a.ring = DOMAIN b.ring

SameIndices(a, b) ==
  SameLocation(a, b) /\ a.count = b.count /\ a.head = b.head /\ a.tail = b.tail

-----------------------------------------------------------------------------
\* An integer smaller than the divisor is its own remainder.
LEMMA SmallRemainder ==
  ASSUME NEW x \in Nat, NEW c \in Nat, x < c
  PROVE  x % c = x
OBVIOUS

\* The remainder of a division is below the divisor.
LEMMA RemainderRange ==
  ASSUME NEW x \in Nat, NEW c \in Nat, c > 0
  PROVE  x % c \in Nat /\ x % c < c
OBVIOUS

\* The head stays in the ring however far it moves.
LEMMA AdvanceInRing ==
  ASSUME NEW m, InRing(m), NEW n \in Nat
  PROVE  Advance(m, n) \in Nat /\ First(m) <= Advance(m, n) /\ Advance(m, n) < m.end
<1>1. CASE m.head + n < m.end
  BY <1>1 DEF Advance, InRing, First
<1>2. CASE ~(m.head + n < m.end)
  <2> DEFINE x == m.head + n - m.end
             c == Capacity(m)
  <2>1. x \in Nat /\ c \in Nat /\ c > 0
    BY <1>2 DEF InRing, First, Capacity
  <2>2. x % c \in Nat /\ x % c < c
    BY <2>1, RemainderRange
  <2>3. Advance(m, n) = First(m) + (x % c)
    BY <1>2 DEF Advance
  <2>4. First(m) \in Nat /\ First(m) + c = m.end
    BY DEF InRing, First, Capacity
  <2> HIDE DEF x, c
  <2>5. QED
    BY <2>1, <2>2, <2>3, <2>4
<1>3. QED
  BY <1>1, <1>2

\* Moving it by no more than the size of the ring wraps at most once.
LEMMA AdvanceOnce ==
  ASSUME NEW m, InRing(m), NEW n \in Nat, n <= Capacity(m)
  PROVE  Advance(m, n) = IF m.head + n < m.end THEN m.head + n
                         ELSE m.head + n - Capacity(m)
<1>1. CASE m.head + n < m.end
  BY <1>1 DEF Advance
<1>2. CASE ~(m.head + n < m.end)
  <2> DEFINE x == m.head + n - m.end
             c == Capacity(m)
  <2>1. x \in Nat /\ c \in Nat /\ x < c
    BY <1>2 DEF InRing, First, Capacity
  <2>2. x % c = x
    BY <2>1, SmallRemainder
  <2>3. Advance(m, n) = First(m) + (x % c)
    BY <1>2 DEF Advance
  <2>4. First(m) + x = m.head + n - c
    BY DEF InRing, First, Capacity
  <2> HIDE DEF x, c
  <2>5. QED
    BY <1>2, <2>2, <2>3, <2>4 DEF c
<1>3. QED
  BY <1>1, <1>2

-----------------------------------------------------------------------------
\* The operations on RTC memory, one by one.

\* Entering a name leaves the indices alone.
LEMMA TaggedKeeps ==
  ASSUME NEW m, Shape(m), NEW tag
  PROVE  LET a == Tagged(m, tag)
         IN  /\ Shape(a) /\ SameIndices(a, m)
             /\ a.ring = m.ring /\ a.head_t = m.head_t /\ a.tail_t = m.tail_t
<1> DEFINE i == find_tag_index(m, tag)
           t == [m.tags EXCEPT ![m.begin + i] = tag]
<1>1. Tagged(m, tag) = IF i < 0 THEN m ELSE [m EXCEPT !.tags = t]
  BY DEF Tagged, Shape, Fields
<1> HIDE DEF i, t
<1>2. QED
  BY <1>1 DEF Shape, Fields, SameIndices, SameLocation

\* Nor does noting the first timestamp touch them.
LEMMA BegunKeeps ==
  ASSUME NEW m, Shape(m), NEW s
  PROVE  Shape(Begun(m, s)) /\ SameIndices(Begun(m, s), m)
<1> DEFINE a == Tagged(m, s.tag)
<1>1. Shape(a) /\ SameIndices(a, m)
  BY TaggedKeeps
<1>2. Begun(m, s) = IF m.count = 0
                    THEN [a EXCEPT !.head_t = s.timestamp, !.tail_t = s.timestamp] ELSE a
  BY DEF Begun
<1> HIDE DEF a
<1>3. QED
  BY <1>1, <1>2 DEF Shape, Fields, SameIndices, SameLocation

\* What rtc_fifo_clear_content() leaves.
LEMMA ClearedFields ==
  ASSUME NEW m, Shape(m)
  PROVE  LET c == clear_content(m)
         IN /\ Shape(c) /\ SameLocation(c, m) /\ c.count = 0 /\ c.head = First(m) /\ c.tail = First(m)
            /\ c.head_t = 0 /\ c.tail_t = 0 /\ c.tags = ClearTags(m, m.tagcount)
<1> DEFINE t == ClearTags(m, m.tagcount)
           k == First(m)
<1>1. clear_content(m) = [m EXCEPT !.tail = k, !.head = k, !.count = 0,
                                   !.tail_t = 0, !.head_t = 0, !.tags = t]
  BY DEF clear_content
<1> HIDE DEF t, k
<1>2. QED
  BY <1>1 DEF Shape, Fields, SameLocation, k, t

\* What rtc_fifo_drop_samples() changes.
LEMMA DroppedFields ==
  ASSUME NEW m, Shape(m), NEW n
  PROVE  LET d == Dropped(m, n)
         IN /\ Shape(d) /\ SameLocation(d, m) /\ d.tail = m.tail
            /\ d.count = m.count - n /\ d.head = Advance(m, n)
            /\ d.ring = m.ring /\ d.tags = m.tags /\ d.tail_t = m.tail_t
            /\ d.head_t = (m.head_t + Elapsed(m, n)) % TimeMod
<1> DEFINE h == Advance(m, n)
           t == (m.head_t + Elapsed(m, n)) % TimeMod
<1>1. Dropped(m, n) = [m EXCEPT !.head = h, !.head_t = t, !.count = m.count - n]
  BY DEF Dropped, Shape, Fields
<1> HIDE DEF h, t
<1>2. QED
  BY <1>1 DEF Shape, Fields, SameLocation, h, t

\* Facts about the indices depend on nothing else.
LEMMA SameIndicesKeep ==
  ASSUME NEW a, NEW b, SameIndices(a, b)
  PROVE  (InRing(b) => InRing(a)) /\ (Follows(b) => Follows(a))
BY DEF SameIndices, SameLocation, InRing, Follows, First, Capacity, Advance

\* Dropping no more than there is keeps the ring.
LEMMA DroppedRing ==
  ASSUME NEW m, Shape(m), InRing(m), NEW n \in Nat, n <= m.count
  PROVE  InRing(Dropped(m, n)) /\ (Follows(m) => Follows(Dropped(m, n)))
<1> DEFINE d == Dropped(m, n)
<1>1. /\ SameLocation(d, m) /\ d.tail = m.tail
      /\ d.count = m.count - n /\ d.head = Advance(m, n)
  BY DroppedFields
<1>2. Advance(m, n) \in Nat /\ First(m) <= Advance(m, n) /\ Advance(m, n) < m.end
  BY AdvanceInRing
<1> HIDE DEF d
<1>3. First(d) = First(m) /\ Capacity(d) = Capacity(m)
  BY <1>1 DEF SameLocation, First, Capacity
<1>4. InRing(d)
  BY <1>1, <1>2, <1>3 DEF InRing, SameLocation
<1>5. ASSUME Follows(m) PROVE Follows(d)
  <2>1. m.count \in Nat /\ m.count <= Capacity(m) /\ m.tail = Advance(m, m.count)
    BY <1>5 DEF Follows, InRing
  <2>2. d.count \in Nat /\ d.count <= Capacity(d)
    BY <1>1, <1>3, <2>1 DEF InRing, First, Capacity
  <2>3. Advance(m, n) = IF m.head + n < m.end THEN m.head + n
                        ELSE m.head + n - Capacity(m)
    <3>1. n <= Capacity(m)
      BY <2>1 DEF InRing, First, Capacity
    <3>2. QED
      BY <3>1, AdvanceOnce
  <2>4. Advance(m, m.count) = IF m.head + m.count < m.end THEN m.head + m.count
                              ELSE m.head + m.count - Capacity(m)
    BY <2>1, AdvanceOnce
  <2>5. Advance(d, d.count) = IF d.head + d.count < d.end THEN d.head + d.count
                              ELSE d.head + d.count - Capacity(d)
    BY <1>4, <2>2, AdvanceOnce
  <2>6. /\ m.head \in Nat /\ m.end \in Nat /\ m.head < m.end /\ m.end = d.end
        /\ First(m) \in Nat /\ First(m) <= m.head /\ Capacity(m) = m.end - First(m)
    BY <1>1 DEF InRing, First, Capacity, SameLocation
  <2>7. Advance(d, d.count) = Advance(m, m.count)
    BY <1>1, <1>3, <2>1, <2>3, <2>4, <2>5, <2>6
  <2>8. QED
    BY <1>1, <2>1, <2>2, <2>7 DEF Follows
<1>6. QED
  BY <1>4, <1>5 DEF d

\* A place a FIFO can be in.
Room(m) == m.begin \in Nat /\ m.end \in Nat /\ m.tagcount \in Nat /\ First(m) < m.end

\* An emptied ring is a ring.
LEMMA ClearedRing ==
  ASSUME NEW m, Shape(m), Room(m)
  PROVE  InRing(clear_content(m)) /\ Follows(clear_content(m))
<1> DEFINE c == clear_content(m)
<1>1. SameLocation(c, m) /\ c.count = 0 /\ c.head = First(m) /\ c.tail = First(m)
  BY ClearedFields
<1> HIDE DEF c
<1>2. First(c) = First(m) /\ c.end = m.end
  BY <1>1 DEF SameLocation, First
<1>3. First(m) \in Nat
  BY DEF Room, First
<1>4. InRing(c)
  BY <1>1, <1>2, <1>3 DEF InRing, Room, SameLocation
<1>5. Follows(c)
  BY <1>1, <1>2, <1>3, <1>4 DEF Follows, Advance, Capacity, Room
<1>6. QED
  BY <1>4, <1>5 DEF c

\* After room was made for a sample there is room.
LEMMA MadeRoomRing ==
  ASSUME NEW m, Shape(m), InRing(m), NEW s
  PROVE  LET b == MadeRoom(m, s)
         IN /\ Shape(b) /\ SameLocation(b, m) /\ InRing(b)
            /\ Follows(m) => Follows(b) /\ b.count < Capacity(b)
<1> DEFINE a == Begun(m, s)
           c == clear_content(a)
           c1 == [c EXCEPT !.head_t = s.timestamp, !.tail_t = s.timestamp]
           b == MadeRoom(m, s)
<1>1. Shape(a) /\ SameIndices(a, m)
  BY BegunKeeps
<1>2. InRing(a) /\ (Follows(m) => Follows(a))
  BY <1>1, SameIndicesKeep
<1>3. b = IF Restarts(m, s) THEN Tagged(c1, s.tag) ELSE IF Full(a) THEN Dropped(a, 1) ELSE a
  BY DEF MadeRoom, Restarted
<1> HIDE DEF a, b
<1>4. SameLocation(a, m) /\ Capacity(a) > 0 /\ Capacity(a) \in Nat
  BY <1>1, <1>2 DEF SameIndices, InRing, Capacity, First
<1>5. CASE Restarts(m, s)
  <2>1. Shape(c) /\ SameLocation(c, a) /\ c.count = 0
    BY <1>1, ClearedFields
  <2>2. Room(a)
    BY <1>2 DEF Room, InRing, First
  <2>3. InRing(c) /\ Follows(c)
    BY <1>1, <2>2, ClearedRing
  <2> HIDE DEF c
  <2>4. Shape(c1) /\ SameIndices(c1, c)
    BY <2>1 DEF Shape, Fields, SameIndices, SameLocation
  <2> HIDE DEF c1
  <2>5. Shape(b) /\ SameIndices(b, c1)
    BY <1>3, <1>5, <2>4, TaggedKeeps
  <2>6. InRing(b) /\ Follows(b) /\ b.count = 0 /\ SameLocation(b, a)
    <3>1. SameIndices(b, c)
      BY <2>4, <2>5 DEF SameIndices, SameLocation
    <3>2. QED
      BY <2>1, <2>3, <3>1, SameIndicesKeep DEF SameIndices, SameLocation
  <2>7. b.count < Capacity(b)
    BY <1>4, <2>6 DEF SameLocation, Capacity, First
  <2>8. QED
    BY <1>4, <2>5, <2>6, <2>7 DEF SameLocation, b
<1>6. CASE ~Restarts(m, s) /\ Full(a)
  <2>1. b = Dropped(a, 1)
    BY <1>3, <1>6
  <2>2. a.count \in Nat /\ 1 <= a.count
    BY <1>2, <1>6 DEF Full, InRing
  <2>3. Shape(b) /\ SameLocation(b, a) /\ b.count = a.count - 1
    BY <1>1, <2>1, DroppedFields
  <2>4. InRing(b) /\ (Follows(a) => Follows(b))
    BY <1>1, <1>2, <2>1, <2>2, DroppedRing
  <2>5. Follows(a) => b.count < Capacity(b)
    BY <1>4, <2>2, <2>3 DEF Follows, SameLocation, Capacity, First
  <2>6. QED
    BY <1>2, <1>4, <2>3, <2>4, <2>5 DEF SameLocation, b
<1>7. CASE ~Restarts(m, s) /\ ~Full(a)
  <2>1. b = a
    BY <1>3, <1>7
  <2>2. ASSUME Follows(a) PROVE a.count < Capacity(a)
    <3>1. SUFFICES ASSUME a.count = Capacity(a) PROVE FALSE
      BY <1>2, <1>4, <2>2 DEF Follows, InRing
    <3>2. a.tail = IF a.head + a.count < a.end THEN a.head + a.count
                   ELSE a.head + a.count - Capacity(a)
      BY <1>2, <1>4, <2>2, <3>1, AdvanceOnce DEF Follows
    <3>3. a.tail = a.head
      BY <1>2, <1>4, <3>1, <3>2 DEF InRing, First, Capacity
    <3>4. QED
      BY <1>4, <1>7, <3>1, <3>3 DEF Full
  <2>3. QED
    BY <1>1, <1>2, <1>4, <2>1, <2>2 DEF b
<1>8. QED
  BY <1>5, <1>6, <1>7

\* Storing a sample keeps the ring.
LEMMA StoreRing ==
  ASSUME NEW m, Shape(m), InRing(m), NEW s
  PROVE  LET d == store_sample(m, s)
         IN /\ Shape(d) /\ SameLocation(d, m) /\ InRing(d)
            /\ Follows(m) => Follows(d)
<1> DEFINE b == MadeRoom(m, s)
           e == construct_entry(s.value, find_tag_index(b, s.tag), Delta(m, s))
           r == [b.ring EXCEPT ![b.tail] = e]
           t == normalise_index(b, b.tail + 1)
           d == store_sample(m, s)
<1>1. /\ Shape(b) /\ SameLocation(b, m) /\ InRing(b)
      /\ Follows(m) => Follows(b) /\ b.count < Capacity(b)
  BY MadeRoomRing
<1>2. d = [b EXCEPT !.ring = r, !.tail = t, !.tail_t = s.timestamp, !.count = b.count + 1]
  BY <1>1 DEF store_sample, Shape, Fields
<1>3. t = IF b.tail + 1 >= b.end THEN First(b) ELSE b.tail + 1
  BY DEF normalise_index
<1> HIDE DEF b, e, r, t, d
<1>4. /\ Shape(d) /\ SameLocation(d, b)
      /\ d.head = b.head /\ d.tail = t /\ d.count = b.count + 1
  <2>1. DOMAIN r = DOMAIN b.ring BY DEF r
  <2>2. QED
    BY <1>1, <1>2, <2>1 DEF Shape, Fields, SameLocation
<1>5. First(d) = First(b) /\ Capacity(d) = Capacity(b) /\ d.end = b.end
  BY <1>4 DEF SameLocation, First, Capacity
<1>6. InRing(d)
  BY <1>1, <1>3, <1>4, <1>5 DEF InRing, SameLocation, First
<1>7. ASSUME Follows(b), b.count < Capacity(b) PROVE Follows(d)
  <2>1. b.count \in Nat /\ Capacity(b) \in Nat /\ d.count <= Capacity(d)
    BY <1>1, <1>4, <1>5, <1>7 DEF InRing, First, Capacity
  <2>2. b.tail = IF b.head + b.count < b.end THEN b.head + b.count
                 ELSE b.head + b.count - Capacity(b)
    BY <1>1, <1>7, <2>1, AdvanceOnce DEF Follows
  <2>3. Advance(d, d.count) = IF d.head + d.count < d.end THEN d.head + d.count
                              ELSE d.head + d.count - Capacity(d)
    BY <1>4, <1>6, <2>1, AdvanceOnce
  <2>4. /\ b.head \in Nat /\ b.end \in Nat /\ b.head < b.end
        /\ First(b) \in Nat /\ First(b) <= b.head /\ Capacity(b) = b.end - First(b)
    BY <1>1 DEF InRing, First, Capacity
  <2>5. d.tail = Advance(d, d.count)
    BY <1>3, <1>4, <1>5, <1>7, <2>1, <2>2, <2>3, <2>4
  <2>6. QED
    BY <2>1, <2>5 DEF Follows
<1>8. SameLocation(d, m)
  BY <1>1, <1>4 DEF SameLocation
<1>9. QED
  BY <1>1, <1>4, <1>6, <1>7, <1>8 DEF d

-----------------------------------------------------------------------------
\* What an interrupted operation leaves.

\* Each field of a torn memory is the old or the new one.
Mixed(x, old, new) == Shape(x) /\ \A f \in Fields : x[f] = old[f] \/ x[f] = new[f]

\* An interrupted operation leaves each word old or new.
LEMMA TornIsMixed ==
  ASSUME NEW old, Shape(old), NEW new, NEW order, NEW x \in Torn(old, new, order)
  PROVE  Mixed(x, old, new)
<1>1. DOMAIN old = Fields
  BY DEF Shape
<1>2. PICK k \in 1..(Len(order) - 1) :
        x = [f \in DOMAIN old |-> IF \E i \in 1..k : order[i] = f THEN new[f] ELSE old[f]]
  BY DEF Torn
<1>3. QED
  BY <1>1, <1>2 DEF Mixed, Shape

\* A mixture of two states with indices in the ring has its indices in the ring.
LEMMA MixedRing ==
  ASSUME NEW x, NEW old, NEW new, Mixed(x, old, new), SameLocation(new, old)
  PROVE  SameLocation(x, old) /\ (InRing(old) /\ InRing(new) => InRing(x))
<1>1. /\ x.begin = old.begin /\ x.end = old.end /\ x.tagcount = old.tagcount
      /\ x.magic = old.magic /\ DOMAIN x.ring = DOMAIN old.ring
      /\ x.head = old.head \/ x.head = new.head
      /\ x.tail = old.tail \/ x.tail = new.tail
      /\ x.count = old.count \/ x.count = new.count
  BY DEF Mixed, SameLocation, Fields
<1>2. QED
  BY <1>1 DEF SameLocation, InRing, First

\* RTC memory as the program may find it after a reset.
Left(x, m) == Shape(x) /\ SameLocation(x, m) /\ (InRing(m) => InRing(x))

\* Whatever an interrupted operation leaves has its indices in the ring.
LEMMA TornLeft ==
  ASSUME NEW old, Shape(old), NEW new, SameLocation(new, old),
         InRing(old) => InRing(new), NEW order, NEW x \in Torn(old, new, order)
  PROVE  Left(x, old)
BY TornIsMixed, MixedRing DEF Left, Mixed

\* An interrupted rtc_fifo_clear_content().
LEMMA TornClearLeft ==
  ASSUME NEW m, Shape(m), NEW x \in TornClear(m)
  PROVE  Left(x, m)
<1> DEFINE c == clear_content(m)
<1>1. Shape(c) /\ SameLocation(c, m)
  BY ClearedFields
<1>2. InRing(m) => InRing(c)
  <2>1. InRing(m) => Room(m)
    BY DEF InRing, Room, First
  <2>2. QED
    BY <2>1, ClearedRing
<1>3. \/ x \in Torn(m, c, <<"tail", "head", "count", "tail_t", "head_t", "tags">>)
      \/ \E n \in 1..m.tagcount : x = [c EXCEPT !.tags = ClearTags(m, n)]
  BY DEF TornClear
<1> HIDE DEF c
<1>4. CASE x \in Torn(m, c, <<"tail", "head", "count", "tail_t", "head_t", "tags">>)
  BY <1>1, <1>2, <1>4, TornLeft
<1>5. ASSUME NEW t, x = [c EXCEPT !.tags = t] PROVE Left(x, m)
  <2>1. Shape(x) /\ SameIndices(x, c)
    BY <1>1, <1>5 DEF Shape, Fields, SameIndices, SameLocation
  <2>2. QED
    BY <1>1, <1>2, <2>1, SameIndicesKeep DEF Left, SameIndices, SameLocation
<1>6. QED
  BY <1>3, <1>4, <1>5

\* It leaves the number of samples or sets it to zero.
LEMMA TornClearCount ==
  ASSUME NEW m, Shape(m), NEW x \in TornClear(m)
  PROVE  x.count = m.count \/ x.count = 0
<1> DEFINE c == clear_content(m)
<1>1. Shape(c) /\ SameLocation(c, m) /\ c.count = 0
  BY ClearedFields
<1>2. \/ x \in Torn(m, c, <<"tail", "head", "count", "tail_t", "head_t", "tags">>)
      \/ \E n \in 1..m.tagcount : x = [c EXCEPT !.tags = ClearTags(m, n)]
  BY DEF TornClear
<1> HIDE DEF c
<1>3. CASE x \in Torn(m, c, <<"tail", "head", "count", "tail_t", "head_t", "tags">>)
  BY <1>1, <1>3, TornIsMixed DEF Mixed, Fields
<1>4. ASSUME NEW t, x = [c EXCEPT !.tags = t] PROVE x.count = c.count
  BY <1>1, <1>4 DEF Shape, Fields
<1>5. QED
  BY <1>1, <1>2, <1>3, <1>4

\* An interrupted rtc_fifo_drop_samples().
LEMMA TornDropLeft ==
  ASSUME NEW m, Shape(m), InRing(m), NEW n \in Nat, n <= m.count, NEW x \in TornDrop(m, n)
  PROVE  Left(x, m)
<1> DEFINE h == Advance(m, n)
<1>1. h \in Nat /\ First(m) <= h /\ h < m.end
  BY AdvanceInRing
<1>2. \/ \E i \in 1..n : x = [m EXCEPT !.count = m.count - i]
      \/ x = [m EXCEPT !.count = m.count - n, !.head = h]
  BY DEF TornDrop, Shape, Fields
<1> HIDE DEF h
<1>3. ASSUME NEW i \in 1..n, x = [m EXCEPT !.count = m.count - i] PROVE Left(x, m)
  <2>1. Shape(x) /\ SameLocation(x, m) /\ x.head = m.head /\ x.tail = m.tail
    BY <1>3 DEF Shape, Fields, SameLocation
  <2>2. x.count = m.count - i
    BY <1>3 DEF Shape, Fields
  <2>3. x.count \in Nat
    BY <2>2 DEF InRing
  <2>4. QED
    BY <2>1, <2>3 DEF Left, InRing, SameLocation, First
<1>4. ASSUME x = [m EXCEPT !.count = m.count - n, !.head = h] PROVE Left(x, m)
  <2>1. Shape(x) /\ SameLocation(x, m) /\ x.head = h /\ x.tail = m.tail
    BY <1>4 DEF Shape, Fields, SameLocation
  <2>2. x.count = m.count - n
    BY <1>4 DEF Shape, Fields
  <2>3. x.count \in Nat
    BY <2>2 DEF InRing
  <2>4. QED
    BY <1>1, <2>1, <2>3 DEF Left, InRing, SameLocation, First
<1>5. QED
  BY <1>2, <1>3, <1>4

\* Two operations, the second one interrupted.
LEMMA LeftTrans ==
  ASSUME NEW x, NEW y, NEW m, Left(x, y), SameLocation(y, m), InRing(m) => InRing(y)
  PROVE  Left(x, m)
BY DEF Left, SameLocation

\* An interruption while room is made for a sample.
LEMMA TornMakeRoomLeft ==
  ASSUME NEW m, Shape(m), InRing(m), NEW s, NEW x \in TornMakeRoom(m, s)
  PROVE  Left(x, m)
<1> DEFINE a == Begun(m, s)
           b == MadeRoom(m, s)
           c == clear_content(a)
<1>1. Shape(a) /\ SameIndices(a, m)
  BY BegunKeeps
<1>2. SameLocation(a, m) /\ InRing(a)
  BY <1>1, SameIndicesKeep DEF SameIndices
<1>3. Shape(b) /\ SameLocation(b, m) /\ InRing(b)
  BY MadeRoomRing
<1>4. Shape(c) /\ SameLocation(c, a) /\ InRing(c)
  <2>1. Room(a)
    BY <1>2 DEF Room, InRing, First
  <2>2. QED
    BY <1>1, <2>1, ClearedFields, ClearedRing
<1>5. \/ x \in TornClear(a)
      \/ x \in Torn(c, b, <<"head_t", "tail_t", "tags">>)
      \/ x \in Torn(a, b, <<"head", "head_t", "count">>)
  BY DEF TornMakeRoom
<1> HIDE DEF a, b, c
<1>6. CASE x \in TornClear(a)
  BY <1>1, <1>2, <1>6, TornClearLeft, LeftTrans
<1>7. CASE x \in Torn(c, b, <<"head_t", "tail_t", "tags">>)
  <2>1. SameLocation(b, c) /\ SameLocation(c, m)
    BY <1>2, <1>3, <1>4 DEF SameLocation
  <2>2. Left(x, c)
    BY <1>3, <1>4, <1>7, <2>1, TornLeft
  <2>3. QED
    BY <1>4, <2>1, <2>2, LeftTrans
<1>8. CASE x \in Torn(a, b, <<"head", "head_t", "count">>)
  <2>1. SameLocation(b, a)
    BY <1>2, <1>3 DEF SameLocation
  <2>2. Left(x, a)
    BY <1>1, <1>3, <1>8, <2>1, TornLeft
  <2>3. QED
    BY <1>2, <2>2, LeftTrans
<1>9. QED
  BY <1>5, <1>6, <1>7, <1>8

\* An interrupted rtc_fifo_store_sample().
LEMMA TornStoreLeft ==
  ASSUME NEW m, Shape(m), InRing(m), NEW s, NEW x \in TornStore(m, s)
  PROVE  Left(x, m)
<1> DEFINE a == Begun(m, s)
           b == MadeRoom(m, s)
           d == store_sample(m, s)
<1>1. SameLocation(a, m) /\ InRing(a)
  BY BegunKeeps, SameIndicesKeep DEF SameIndices
<1>2. Shape(b) /\ SameLocation(b, m) /\ InRing(b)
  BY MadeRoomRing
<1>3. SameLocation(d, m) /\ InRing(d)
  BY StoreRing
<1>4. \/ x \in Torn(m, a, <<"tags", "head_t", "tail_t">>)
      \/ x \in TornMakeRoom(m, s)
      \/ x = b
      \/ x \in Torn(b, d, <<"ring", "tail", "tail_t", "count">>)
  BY DEF TornStore
<1> HIDE DEF a, b, d
<1>5. CASE x \in Torn(m, a, <<"tags", "head_t", "tail_t">>)
  BY <1>1, <1>5, TornLeft
<1>6. CASE x \in TornMakeRoom(m, s)
  BY <1>6, TornMakeRoomLeft
<1>7. CASE x = b
  BY <1>2, <1>7 DEF Left
<1>8. CASE x \in Torn(b, d, <<"ring", "tail", "tail_t", "count">>)
  <2>1. SameLocation(d, b)
    BY <1>2, <1>3 DEF SameLocation
  <2>2. Left(x, b)
    BY <1>2, <1>3, <1>8, <2>1, TornLeft
  <2>3. QED
    BY <1>2, <2>2, LeftTrans
<1>9. QED
  BY <1>4, <1>5, <1>6, <1>7, <1>8

-----------------------------------------------------------------------------
\* prepare(), with the storage it was asked for or the default one.

\* What rtc_fifo_put_loc() changes.
LEMMA PutLocFields ==
  ASSUME NEW m, Shape(m), NEW begin, NEW end, NEW n
  PROVE  LET l == PutLoc(m, begin, end, n)
         IN /\ Shape(l) /\ l.begin = begin /\ l.end = end /\ l.tagcount = n
            /\ l.magic = m.magic /\ l.count = m.count /\ l.head = m.head /\ l.tail = m.tail
            /\ l.head_t = m.head_t /\ l.tail_t = m.tail_t /\ l.ring = m.ring /\ l.tags = m.tags
BY DEF PutLoc, Shape, Fields

\* A FIFO prepared at the default location is an empty ring.
LEMMA DefaultRing ==
  ASSUME NEW m, Shape(m), NEW n \in TagCounts
  PROVE  LET p == PreparedDefault(m, n)
         IN /\ Shape(p) /\ p.magic = TRUE /\ InRing(p) /\ Follows(p)
            /\ p.count = 0 /\ p.head = DefaultBegin + n /\ p.tail = DefaultBegin + n
            /\ p.head_t = 0 /\ p.tail_t = 0 /\ DOMAIN p.ring = DOMAIN m.ring /\ Placed(p)
            /\ p.tagcount = n /\ DOMAIN p.tags = Slots
<1> DEFINE l == PutLoc(m, DefaultBegin, DefaultEnd, n)
           c == clear_content(l)
           p == PreparedDefault(m, n)
<1>1. /\ Shape(l) /\ l.begin = DefaultBegin /\ l.end = DefaultEnd /\ l.tagcount = n
      /\ l.ring = m.ring
  BY PutLocFields
<1>2. p = [c EXCEPT !.magic = TRUE]
  BY DEF PreparedDefault
<1> HIDE DEF l, p
<1>3. Room(l) /\ First(l) = DefaultBegin + n
  BY <1>1, FifoAssumption DEF Room, First
<1>4. /\ Shape(c) /\ c.count = 0 /\ c.head = First(l) /\ c.tail = First(l)
      /\ c.head_t = 0 /\ c.tail_t = 0 /\ SameLocation(c, l) /\ c.tags = ClearTags(l, l.tagcount)
  BY <1>1, ClearedFields
<1>5. InRing(c) /\ Follows(c)
  BY <1>1, <1>3, ClearedRing
<1> HIDE DEF c
<1>6. /\ Shape(p) /\ p.magic = TRUE /\ p.begin = c.begin /\ p.end = c.end
      /\ p.tagcount = c.tagcount /\ p.count = c.count /\ p.head = c.head /\ p.tail = c.tail
      /\ p.head_t = c.head_t /\ p.tail_t = c.tail_t /\ p.ring = c.ring /\ p.tags = c.tags
  BY <1>2, <1>4 DEF Shape, Fields
<1>7. InRing(p) /\ Follows(p)
  BY <1>5, <1>6 DEF InRing, Follows, Advance, First, Capacity
<1>8. DOMAIN p.ring = DOMAIN m.ring /\ Placed(p)
  BY <1>1, <1>4, <1>6, FifoAssumption DEF SameLocation, Placed
<1>9. p.tagcount = n /\ DOMAIN p.tags = Slots
  BY <1>1, <1>4, <1>6 DEF SameLocation, ClearTags
<1>10. QED
  BY <1>3, <1>4, <1>6, <1>7, <1>8, <1>9 DEF p

\* So is one that is then moved to a location whose ring has the default head;
\* at another location the head is out of place.
LEMMA StorageRing ==
  ASSUME NEW m, Shape(m), NEW n \in TagCounts, NEW st \in Storages
  PROVE  LET l == PutLoc(PreparedDefault(m, n), st.begin, st.end, n)
         IN /\ Shape(l) /\ l.magic = TRUE /\ Located(l) /\ l.count = 0
            /\ HoldsDefaultHead(l) => InRing(l) /\ Follows(l)
            /\ ~HoldsDefaultHead(l) => ~InPlace(l)
            /\ l.head_t = 0 /\ l.tail_t = 0 /\ DOMAIN l.ring = DOMAIN m.ring /\ Placed(l)
<1> DEFINE p == PreparedDefault(m, n)
           l == PutLoc(p, st.begin, st.end, n)
<1>1. /\ Shape(p) /\ p.magic = TRUE /\ p.count = 0
      /\ p.head = DefaultBegin + n /\ p.tail = DefaultBegin + n
      /\ p.head_t = 0 /\ p.tail_t = 0 /\ DOMAIN p.ring = DOMAIN m.ring
  BY DefaultRing
<1> HIDE DEF p
<1>2. /\ Shape(l) /\ l.begin = st.begin /\ l.end = st.end /\ l.tagcount = n
      /\ l.magic = p.magic /\ l.count = p.count /\ l.head = p.head /\ l.tail = p.tail
      /\ l.head_t = p.head_t /\ l.tail_t = p.tail_t /\ l.ring = p.ring
  BY <1>1, PutLocFields
<1> HIDE DEF l
<1>3. /\ st.begin \in Nat /\ st.end \in Nat /\ n \in Nat /\ DefaultBegin \in Nat
  BY FifoAssumption
<1>8. HoldsDefaultHead(l) <=> DefaultBegin + n \in (st.begin + n)..(st.end - 1)
  BY <1>2 DEF HoldsDefaultHead, RingSlots, First
<1>9. Located(l) /\ (~HoldsDefaultHead(l) => ~InPlace(l))
  BY <1>1, <1>2, <1>3, <1>8 DEF Located, InPlace, RingSlots, First
<1>4. HoldsDefaultHead(l) => InRing(l)
  BY <1>1, <1>2, <1>3, <1>8 DEF InRing, First
<1>5. HoldsDefaultHead(l) => Follows(l)
  BY <1>1, <1>2, <1>3, <1>4 DEF Follows, Advance, InRing, Capacity, First
<1>6. Placed(l)
  BY <1>2, FifoAssumption DEF Placed
<1>7. QED
  BY <1>1, <1>2, <1>4, <1>5, <1>6, <1>9 DEF l, p

\* It has the table of names that was asked for, cleared or not.
LEMMA StorageNames ==
  ASSUME NEW m, Shape(m), NEW n \in TagCounts, NEW st \in Storages
  PROVE  LET l == PutLoc(PreparedDefault(m, n), st.begin, st.end, n)
         IN l.tagcount = n /\ DOMAIN l.tags = Slots
<1> DEFINE p == PreparedDefault(m, n)
<1>1. Shape(p) /\ DOMAIN p.tags = Slots
  BY DefaultRing
<1> HIDE DEF p
<1>2. QED
  BY <1>1, PutLocFields DEF p

-----------------------------------------------------------------------------
\* The inductive invariant.  A FIFO that was never interrupted has its indices
\* in place exactly if its location holds the default head.
RingInv ==
  /\ Shape(rtc) /\ rtc.magic \in BOOLEAN /\ tears \in Nat /\ DOMAIN rtc.ring = Slots
  /\ rtc.magic => Placed(rtc) /\ Located(rtc)
  /\ rtc.magic /\ HoldsDefaultHead(rtc) /\ ~halfway => InRing(rtc)
  /\ rtc.magic /\ HoldsDefaultHead(rtc) /\ tears = 0 => InRing(rtc) /\ Follows(rtc)
  /\ rtc.magic /\ ~HoldsDefaultHead(rtc) /\ tears = 0 => rtc.count = 0 /\ ~InPlace(rtc)

\* An operation that may run finds the indices in the ring.
LEMMA RingReady ==
  ASSUME RingInv, rtc.magic, InPlace(rtc)
  PROVE  InRing(rtc) /\ Placed(rtc) /\ (tears = 0 => Follows(rtc))
<1>1. Located(rtc) /\ Placed(rtc) /\ (tears = 0 => Follows(rtc))
  BY DEF RingInv
<1>2. InRing(rtc)
  BY <1>1 DEF Located, InPlace, RingSlots, InRing, First
<1>3. QED
  BY <1>1, <1>2

\* Nothing is prepared after power on.
LEMMA RingInit == Init => RingInv
<1> SUFFICES ASSUME Init PROVE RingInv
  OBVIOUS
<1>1. tears \in Nat
  BY DEF Init
<1>2. PICK t, r :
        rtc = [magic |-> FALSE, begin |-> 0, end |-> 0, tagcount |-> 0, count |-> 0,
               head |-> 0, tail |-> 0, head_t |-> 0, tail_t |-> 0, tags |-> t, ring |-> r]
  BY Zenon DEF Init
<1>3. Shape(rtc) /\ rtc.magic = FALSE
  BY <1>2 DEF Shape, Fields
<1>5. DOMAIN rtc.ring = Slots
  BY DEF Init
<1>4. QED
  BY <1>1, <1>3, <1>5 DEF RingInv

\* Every operation, completed or interrupted, keeps the invariant.
LEMMA RingNext == RingInv /\ [Next]_vars => RingInv'
<1> SUFFICES ASSUME RingInv, [Next]_vars PROVE RingInv'
  OBVIOUS
<1>0. /\ Shape(rtc) /\ rtc.magic \in BOOLEAN /\ tears \in Nat /\ DOMAIN rtc.ring = Slots
      /\ rtc.magic => Placed(rtc) /\ Located(rtc)
      /\ rtc.magic /\ InPlace(rtc) => InRing(rtc) /\ (tears = 0 => Follows(rtc))
  BY RingReady DEF RingInv
<1>0a. ASSUME InRing(rtc'), Shape(rtc'), rtc'.magic \in BOOLEAN, tears' \in Nat,
              DOMAIN rtc'.ring = Slots, Placed(rtc'), tears' = 0 => Follows(rtc'),
              tears' = 0 => HoldsDefaultHead(rtc')
       PROVE  RingInv'
  BY <1>0a DEF RingInv, InRing, Located
<1>0b. ASSUME SameLocation(rtc', rtc), rtc.magic, InPlace(rtc), tears' = 0, tears = 0
        PROVE  HoldsDefaultHead(rtc')
  <2>1. HoldsDefaultHead(rtc)
    BY <1>0b DEF RingInv
  <2>2. QED
    BY <1>0b, <2>1 DEF SameLocation, HoldsDefaultHead, RingSlots, First
<1>1. ASSUME NEW n \in TagCounts, rtcfifo_prepare(n) PROVE RingInv'
  <2>1. rtc' = PreparedDefault(rtc, n) /\ tears' = 0
    BY <1>1 DEF rtcfifo_prepare
  <2>2. /\ Shape(rtc') /\ rtc'.magic = TRUE /\ InRing(rtc') /\ Follows(rtc')
        /\ DOMAIN rtc'.ring = DOMAIN rtc.ring /\ Placed(rtc')
        /\ rtc'.head = DefaultBegin + n /\ rtc'.tagcount = n
    BY <1>0, <2>1, DefaultRing
  <2>3. HoldsDefaultHead(rtc')
    BY <2>2 DEF HoldsDefaultHead, RingSlots, InRing, First
  <2>4. QED
    BY <1>0, <1>0a, <2>1, <2>2, <2>3
<1>2. ASSUME NEW n \in TagCounts, NEW st \in Storages, rtcfifo_prepare_storage(n, st)
      PROVE  RingInv'
  <2>1. rtc' = PutLoc(PreparedDefault(rtc, n), st.begin, st.end, n) /\ tears' = 0
    BY <1>2 DEF rtcfifo_prepare_storage
  <2>2. /\ Shape(rtc') /\ rtc'.magic = TRUE /\ Located(rtc') /\ rtc'.count = 0
        /\ HoldsDefaultHead(rtc') => InRing(rtc') /\ Follows(rtc')
        /\ ~HoldsDefaultHead(rtc') => ~InPlace(rtc')
        /\ DOMAIN rtc'.ring = DOMAIN rtc.ring /\ Placed(rtc')
    BY <1>0, <2>1, StorageRing
  <2>3. QED
    BY <1>0, <2>1, <2>2 DEF RingInv
<1>3. ASSUME NEW n \in TagCounts, ResetPrepare(n) PROVE RingInv'
  <2> DEFINE m == PutLoc(rtc, DefaultBegin, DefaultEnd, n)
  <2>1. /\ tears' = tears + 1 /\ (rtc' = m \/ rtc' \in TornClear(m))
        /\ rtc.magic => halfway'
    BY <1>3 DEF ResetPrepare
  <2>2. /\ Shape(m) /\ m.magic = rtc.magic /\ m.ring = rtc.ring /\ m.count = rtc.count
        /\ m.begin = DefaultBegin /\ m.end = DefaultEnd /\ m.tagcount = n
    BY <1>0, PutLocFields
  <2> HIDE DEF m
  <2>3. Shape(rtc') /\ SameLocation(rtc', m) /\ (rtc'.count = m.count \/ rtc'.count = 0)
    BY <2>1, <2>2, TornClearLeft, TornClearCount DEF Left, SameLocation
  <2>4. rtc'.magic => Placed(rtc') /\ Located(rtc')
    BY <1>0, <2>2, <2>3, FifoAssumption DEF SameLocation, Placed, Located
  <2>5. tears' \in Nat /\ tears' # 0
    BY <1>0, <2>1
  <2>6. rtc'.magic = rtc.magic /\ DOMAIN rtc'.ring = Slots
    BY <1>0, <2>2, <2>3 DEF SameLocation
  <2>7. QED
    BY <1>0, <2>1, <2>3, <2>4, <2>5, <2>6 DEF RingInv
<1>4. ASSUME NEW s \in Samples, rtcfifo_put(s) PROVE RingInv'
  <2>1. rtc.magic /\ InPlace(rtc) /\ rtc' = store_sample(rtc, s) /\ tears' = tears
    BY <1>4 DEF rtcfifo_put
  <2>2. /\ Shape(rtc') /\ SameLocation(rtc', rtc) /\ InRing(rtc')
        /\ Follows(rtc) => Follows(rtc')
    BY <1>0, <2>1, StoreRing
  <2>3. Placed(rtc') /\ rtc'.magic = rtc.magic /\ DOMAIN rtc'.ring = Slots
    BY <1>0, <2>1, <2>2 DEF SameLocation, Placed
  <2>4. QED
    BY <1>0, <1>0a, <1>0b, <2>1, <2>2, <2>3
<1>5. ASSUME NEW n \in Nat, n <= rtc.count, rtc.magic, InPlace(rtc), rtc' = Dropped(rtc, n),
             tears' = tears
      PROVE  RingInv'
  <2>1. Shape(rtc') /\ SameLocation(rtc', rtc)
    BY <1>0, <1>5, DroppedFields
  <2>2. InRing(rtc') /\ (Follows(rtc) => Follows(rtc'))
    BY <1>0, <1>5, DroppedRing
  <2>3. Placed(rtc') /\ rtc'.magic = rtc.magic /\ DOMAIN rtc'.ring = Slots
    BY <1>0, <1>5, <2>1 DEF SameLocation, Placed
  <2>4. QED
    BY <1>0, <1>0a, <1>0b, <1>5, <2>1, <2>2, <2>3
<1>6. CASE rtcfifo_pop
  <2>1. rtc.magic /\ InPlace(rtc) /\ rtc.count > 0 /\ rtc' = Dropped(rtc, 1) /\ tears' = tears
    BY <1>6 DEF rtcfifo_pop
  <2>2. 1 \in Nat /\ 1 <= rtc.count
    BY <1>0, <2>1 DEF InRing
  <2>3. QED
    BY <1>5, <2>1, <2>2
<1>7. ASSUME NEW n \in Nat PROVE rtc.magic => DropCount(rtc, n) \in Nat /\ DropCount(rtc, n) <= rtc.count
  BY <1>0 DEF DropCount, Located
<1>8. ASSUME NEW n \in Drops, rtcfifo_drop(n) PROVE RingInv'
  <2>1. rtc.magic /\ InPlace(rtc) /\ rtc' = Dropped(rtc, DropCount(rtc, n)) /\ tears' = tears
    BY <1>8 DEF rtcfifo_drop
  <2>2. n \in Nat
    BY FifoAssumption
  <2>3. QED
    BY <1>5, <1>7, <2>1, <2>2
<1>9. CASE Reset
  <2>1. rtc.magic /\ InPlace(rtc) /\ tears' = tears + 1 /\ InRing(rtc)
    BY <1>0, <1>9 DEF Reset
  <2>2. \/ \E s \in Samples : rtc' \in TornStore(rtc, s)
        \/ rtc.count > 0 /\ rtc' \in Torn(rtc, Dropped(rtc, 1), <<"head", "head_t", "count">>)
        \/ \E n \in Drops : rtc' \in TornDrop(rtc, DropCount(rtc, n))
    BY <1>9 DEF Reset
  <2>3. Left(rtc', rtc)
    <3>1. ASSUME NEW s \in Samples, rtc' \in TornStore(rtc, s) PROVE Left(rtc', rtc)
      BY <1>0, <2>1, <3>1, TornStoreLeft
    <3>2. ASSUME rtc.count > 0, rtc' \in Torn(rtc, Dropped(rtc, 1), <<"head", "head_t", "count">>)
          PROVE  Left(rtc', rtc)
      <4> DEFINE d == Dropped(rtc, 1)
      <4>1. 1 \in Nat /\ 1 <= rtc.count
        BY <2>1, <3>2 DEF InRing
      <4>2. SameLocation(d, rtc) /\ InRing(d)
        BY <1>0, <2>1, <4>1, DroppedFields, DroppedRing
      <4> HIDE DEF d
      <4>3. QED
        BY <1>0, <3>2, <4>2, TornLeft DEF d
    <3>3. ASSUME NEW n \in Drops, rtc' \in TornDrop(rtc, DropCount(rtc, n)) PROVE Left(rtc', rtc)
      <4>1. n \in Nat
        BY FifoAssumption
      <4>2. QED
        BY <1>0, <1>7, <2>1, <3>3, <4>1, TornDropLeft
    <3>4. QED
      BY <2>2, <3>1, <3>2, <3>3
  <2>4. /\ Shape(rtc') /\ InRing(rtc') /\ Placed(rtc')
        /\ rtc'.magic = rtc.magic /\ DOMAIN rtc'.ring = Slots
    BY <1>0, <2>1, <2>3 DEF Left, SameLocation, Placed
  <2>5. tears' \in Nat /\ tears' # 0
    BY <1>0, <2>1
  <2>6. QED
    BY <1>0, <1>0a, <2>4, <2>5
<1>10. CASE UNCHANGED vars
  <2>1. rtc' = rtc /\ tears' = tears /\ halfway' = halfway
    BY <1>10 DEF vars
  <2>2. QED
    BY <2>1 DEF RingInv
<1>11. QED
  BY <1>1, <1>2, <1>3, <1>4, <1>6, <1>8, <1>9, <1>10 DEF Next

\* The invariant holds in every behaviour.
LEMMA RingAlways == Spec => []RingInv
BY RingInit, RingNext, PTL DEF Spec

\* At every location that holds the default head, head and tail of a prepared
\* FIFO never leave the ring, whatever put, pop or drop is interrupted:
\* rtc_fifo_store_sample() never writes another slot.  Only a prepare() of a
\* prepared FIFO that is cut off can take them out.
THEOREM IndicesNeverLeave == Spec => []IndicesInRing
<1>1. RingInv => IndicesInRing
  <2>1. RingInv /\ rtc.magic => rtc.count \in Nat
    BY DEF RingInv, Located
  <2>2. ASSUME RingInv, rtc.magic, HoldsDefaultHead(rtc), ~halfway
        PROVE  /\ rtc.head \in RingSlots(rtc) /\ rtc.tail \in RingSlots(rtc)
               /\ tears = 0 => rtc.count <= Capacity(rtc)
    <3>1. InRing(rtc) /\ (tears = 0 => rtc.count <= Capacity(rtc))
      BY <2>2 DEF RingInv, Follows
    <3>2. QED
      BY <3>1 DEF InRing, RingSlots, First
  <2>3. QED
    BY <2>1, <2>2 DEF IndicesInRing
<1>2. QED
  BY RingAlways, <1>1, PTL

\* Without interruptions, at a location that holds the default head, the tail is
\* count slots after the head, so that a full ring and an empty one are told
\* apart by count.
THEOREM TailAlwaysFollows == Spec => []TailFollowsHead
<1>1. RingInv => TailFollowsHead
  BY DEF RingInv, TailFollowsHead, Follows
<1>2. QED
  BY RingAlways, <1>1, PTL

-----------------------------------------------------------------------------
\* Timestamps: the deltas of the ring, summed up from the head.

\* What holds of zero and of the successor of each number it holds of, holds of
\* all: otherwise the numbers below the first exception, a finite set, would be
\* mapped into themselves without zero, one to one.
LEMMA CountingUp ==
  ASSUME NEW S, 0 \in S, \A i \in Nat : i \in S => i + 1 \in S
  PROVE  \A k \in Nat : k \in S
<1> SUFFICES ASSUME NEW k \in Nat, k \notin S PROVE FALSE
  OBVIOUS
<1> DEFINE A == {i \in 0..(k - 1) : i \in S}
           f == [i \in A |-> i + 1]
<1>1. k # 0 /\ 0 \in A BY SMT
<1>2. IsFiniteSet(A)
  <2>1. IsFiniteSet(0..(k - 1)) BY FS_Interval
  <2> QED BY <2>1, FS_Subset
<1>3. IsFiniteSet(A \ {0}) /\ Cardinality(A \ {0}) = Cardinality(A) - 1
  BY <1>1, <1>2, FS_RemoveElement
<1>4. Cardinality(A) \in Nat BY <1>2, FS_CardinalityType
<1>5. f \in [A -> A \ {0}]
  <2> SUFFICES ASSUME NEW i \in A PROVE i + 1 \in A \ {0} OBVIOUS
  <2>1. i \in Nat /\ i <= k - 1 /\ i + 1 \in S BY SMT
  <2>2. i + 1 # k BY <2>1
  <2> QED BY <2>1, <2>2
<1> HIDE DEF A
<1>6. Cardinality(A \ {0}) < Cardinality(A) BY <1>3, <1>4
<1>7. PICK x, y \in A : x # y /\ f[x] = f[y]
  <2> HIDE DEF f
  <2> QED BY <1>2, <1>3, <1>5, <1>6, FS_PigeonHole
<1>8. x \in Int /\ y \in Int BY DEF A
<1> QED BY <1>7, <1>8

deltat(m, i) == m.ring[Advance(m, i)].deltat

\* The first n entries hold deltas.
Deltas(m, n) == \A i \in 0..(n - 1) : deltat(m, i) \in Int

\* g adds them up.
IsSum(g, m, n) ==
  /\ g \in [0..n -> Int] /\ g[0] = 0
  /\ \A i \in 0..(n - 1) : g[i + 1] = g[i] + deltat(m, i)

\* Deltas can be summed up.
LEMMA SumExists ==
  ASSUME NEW m, NEW n \in Nat, Deltas(m, n) PROVE \E g : IsSum(g, m, n)
<1> DEFINE S == {k \in Nat : k <= n => \E g : IsSum(g, m, k)}
<1>1. 0 \in S
  <2>1. IsSum([i \in 0..0 |-> 0], m, 0) BY DEF IsSum
  <2> QED BY <2>1
<1>2. ASSUME NEW k \in Nat, k \in S PROVE k + 1 \in S
  <2> SUFFICES ASSUME k + 1 <= n PROVE \E g : IsSum(g, m, k + 1) OBVIOUS
  <2>1. PICK g : IsSum(g, m, k) BY <1>2
  <2> DEFINE h == [i \in 0..(k + 1) |-> IF i = k + 1 THEN g[k] + deltat(m, k) ELSE g[i]]
  <2>2. g \in [0..k -> Int] /\ g[0] = 0 /\ \A i \in 0..(k - 1) : g[i + 1] = g[i] + deltat(m, i)
    BY <2>1 DEF IsSum
  <2>3. deltat(m, k) \in Int BY DEF Deltas
  <2>4. g[k] \in Int BY <2>2
  <2>5. h \in [0..(k + 1) -> Int] BY <2>2, <2>3, <2>4
  <2>6. h[0] = 0 BY <2>2
  <2>7. ASSUME NEW i \in 0..k PROVE h[i + 1] = h[i] + deltat(m, i)
    <3>1. CASE i = k BY <3>1
    <3>2. CASE i # k
      <4>1. i \in 0..(k - 1) /\ i # k + 1 /\ i + 1 # k + 1 /\ i + 1 \in 0..(k + 1) BY <3>2
      <4> QED BY <2>2, <4>1
    <3> QED BY <3>1, <3>2
  <2>8. (k + 1) - 1 = k OBVIOUS
  <2> HIDE DEF h
  <2>9. IsSum(h, m, k + 1) BY <2>5, <2>6, <2>7, <2>8 DEF IsSum
  <2> QED BY <2>9
<1> HIDE DEF S
<1>3. n \in S BY <1>1, <1>2, CountingUp
<1> QED BY <1>3 DEF S

\* The loop of rtc_fifo_peek_sample() computes the sum.
LEMMA ElapsedIs ==
  ASSUME NEW m, NEW n \in Nat, NEW g, IsSum(g, m, n), NEW k \in 0..n
  PROVE  Elapsed(m, k) = g[k]
<1> DEFINE F(f) == [i \in 0..k |-> IF i = 0 THEN 0 ELSE f[i - 1] + m.ring[Advance(m, i - 1)].deltat]
           c == CHOOSE f : f = F(f)
           h == [i \in 0..k |-> g[i]]
<1>1. Elapsed(m, k) = c[k] BY DEF Elapsed
<1>2. h = F(h)
  <2>1. ASSUME NEW i \in 0..k
        PROVE  g[i] = IF i = 0 THEN 0 ELSE h[i - 1] + deltat(m, i - 1)
    <3>1. CASE i = 0 BY <3>1 DEF IsSum
    <3>2. CASE i # 0
      <4>1. i - 1 \in 0..(n - 1) /\ i - 1 \in 0..k /\ (i - 1) + 1 = i BY <3>2
      <4>2. g[(i - 1) + 1] = g[i - 1] + deltat(m, i - 1) BY <4>1 DEF IsSum
      <4> QED BY <3>2, <4>1, <4>2
    <3> QED BY <3>1, <3>2
  <2> QED BY <2>1 DEF deltat
<1>3. c = F(c)
  <2> HIDE DEF h
  <2> QED BY <1>2, Zenon
<1> HIDE DEF c
<1>4. c[0] = 0 /\ \A i \in 1..k : c[i] = c[i - 1] + deltat(m, i - 1)
  BY <1>3 DEF deltat
<1> DEFINE S == {i \in Nat : i <= k => c[i] = g[i]}
<1>5. 0 \in S BY <1>4 DEF IsSum
<1>6. ASSUME NEW i \in Nat, i \in S PROVE i + 1 \in S
  <2> SUFFICES ASSUME i + 1 <= k PROVE c[i + 1] = g[i + 1] OBVIOUS
  <2>1. i + 1 \in 1..k /\ (i + 1) - 1 = i /\ i \in 0..(n - 1) /\ i <= k OBVIOUS
  <2>2. c[i + 1] = c[(i + 1) - 1] + deltat(m, (i + 1) - 1) BY <1>4, <2>1
  <2>3. g[i + 1] = g[i] + deltat(m, i) BY <2>1 DEF IsSum
  <2>4. c[i] = g[i] BY <1>6, <2>1
  <2> QED BY <2>1, <2>2, <2>3, <2>4
<1> HIDE DEF S
<1>7. k \in S BY <1>5, <1>6, CountingUp
<1> QED BY <1>1, <1>7 DEF S

\* Unsigned arithmetic may be reduced at any time.
LEMMA ReduceFirst ==
  ASSUME NEW a \in Int, NEW b \in Int
  PROVE  ((a % TimeMod) + b) % TimeMod = (a + b) % TimeMod
<1>0. TimeMod \in Nat /\ TimeMod > 0 BY FifoAssumption
<1> PICK M \in Nat : M = TimeMod BY <1>0
<1>1. ASSUME NEW x \in Int PROVE \E q \in Int, t \in 0..(M - 1) : x = M * q + t /\ x % M = t
  <2>1. x = M * (x \div M) + (x % M) /\ x \div M \in Int /\ x % M \in 0..(M - 1) BY <1>0
  <2> QED BY <2>1
<1>2. ASSUME NEW q \in Int, NEW t \in 0..(M - 1) PROVE (M * q + t) % M = t
  <2>1. PICK p \in Int, u \in 0..(M - 1) : M * q + t = M * p + u /\ (M * q + t) % M = u
    <3>1. M * q + t \in Int BY <1>0
    <3> QED BY <1>1, <3>1
  <2>2. M * (q - p) = M * q - M * p BY <1>0
  <2>3. M * q \in Int /\ M * p \in Int BY <1>0
  <2> PICK z \in Int : z = M * (q - p) BY <2>2, <2>3
  <2>4. z = u - t BY <2>1, <2>2, <2>3
  <2>5. z < M /\ z > -M BY <1>0, <2>4
  <2>6. q - p = 0
    <3>1. CASE q - p >= 1
      <4>1. M * (q - p) >= M BY <1>0, <3>1
      <4> QED BY <2>5, <4>1
    <3>2. CASE q - p <= -1
      <4>1. M * (q - p) <= -M BY <1>0, <3>2
      <4> QED BY <2>5, <4>1
    <3> QED BY <3>1, <3>2
  <2> QED BY <2>1, <2>2, <2>3, <2>4, <2>6
<1>3. PICK q \in Int, t \in 0..(M - 1) : a = M * q + t /\ a % M = t BY <1>1
<1>4. t + b \in Int BY <1>0
<1>5. PICK p \in Int, u \in 0..(M - 1) : t + b = M * p + u /\ (t + b) % M = u BY <1>1, <1>4
<1>6. M * (q + p) = M * q + M * p /\ M * q \in Int /\ M * p \in Int /\ M * (q + p) \in Int BY <1>0
<1>7. a + b = M * (q + p) + u BY <1>0, <1>3, <1>5, <1>6
<1>8. (a + b) % M = u
  <2> PICK v \in Int : v = q + p OBVIOUS
  <2>1. (M * v + u) % M = u BY <1>2
  <2> QED BY <1>7, <2>1
<1> QED BY <1>3, <1>5, <1>8

\* The deltas lead from the timestamp of the head to that of the tail.
AddsUp(m) == (m.head_t + Elapsed(m, m.count)) % TimeMod = m.tail_t

\* The timestamps are of the clock's width, and the samples have deltas.
Timed(m) == /\ m.head_t \in 0..(TimeMod - 1) /\ m.tail_t \in 0..(TimeMod - 1)
            /\ Deltas(m, m.count)

\* Places behind the head are distinct as long as they are in the ring, and those
\* behind a head that was moved are the ones further behind it.
LEMMA Places ==
  ASSUME NEW m, InRing(m), NEW n \in Nat, n <= Capacity(m)
  PROVE  /\ n < Capacity(m) => \A i \in 0..(n - 1) : Advance(m, i) # Advance(m, n)
         /\ \A d, k, i : /\ InRing(d) /\ d.end = m.end /\ First(d) = First(m)
                         /\ k \in Nat /\ i \in Nat /\ k + i <= n /\ d.head = Advance(m, k)
                         => Advance(d, i) = Advance(m, k + i)
<1>0. /\ m.head \in Nat /\ m.end \in Nat /\ m.head < m.end /\ First(m) \in Nat /\ First(m) <= m.head
      /\ Capacity(m) = m.end - First(m)
  BY DEF InRing, First, Capacity
<1> PICK h \in Nat : h = m.head BY <1>0
<1> PICK e \in Nat : e = m.end BY <1>0
<1> PICK b \in Nat : b = First(m) BY <1>0
<1>1. h < e /\ b <= h /\ Capacity(m) = e - b /\ n <= e - b BY <1>0
<1>2. ASSUME NEW i \in Nat, i <= n PROVE Advance(m, i) = IF h + i < e THEN h + i ELSE h + i - (e - b)
  <2>1. i <= Capacity(m) BY <1>1, <1>2
  <2> QED BY <1>1, <2>1, AdvanceOnce
<1>3. ASSUME n < Capacity(m), NEW i \in 0..(n - 1) PROVE Advance(m, i) # Advance(m, n)
  <2>1. Advance(m, i) = IF h + i < e THEN h + i ELSE h + i - (e - b) BY <1>2
  <2>2. Advance(m, n) = IF h + n < e THEN h + n ELSE h + n - (e - b) BY <1>2
  <2>3. n < e - b BY <1>1, <1>3
  <2> QED BY <1>1, <2>1, <2>2, <2>3
<1>4. ASSUME NEW d, NEW k \in Nat, NEW i \in Nat, InRing(d), d.end = m.end, First(d) = First(m),
             k + i <= n, d.head = Advance(m, k)
      PROVE  Advance(d, i) = Advance(m, k + i)
  <2>1. Capacity(d) = e - b BY <1>4 DEF Capacity
  <2>2. i <= Capacity(d) BY <1>1, <1>4, <2>1
  <2>3. Advance(d, i) = IF d.head + i < e THEN d.head + i ELSE d.head + i - (e - b)
    BY <1>4, <2>1, <2>2, AdvanceOnce
  <2>4. d.head = IF h + k < e THEN h + k ELSE h + k - (e - b)
    BY <1>1, <1>2, <1>4
  <2>5. Advance(m, k + i) = IF h + (k + i) < e THEN h + (k + i) ELSE h + (k + i) - (e - b)
    BY <1>2, <1>4
  <2> QED BY <1>1, <1>4, <2>3, <2>4, <2>5
<1> QED BY <1>3, <1>4

\* Dropping the first samples takes their deltas to the timestamp of the head.
LEMMA DroppedTimes ==
  ASSUME NEW m, Shape(m), InRing(m), Follows(m), Timed(m), NEW n \in Nat, n <= m.count
  PROVE  Timed(Dropped(m, n)) /\ (AddsUp(m) => AddsUp(Dropped(m, n)))
<1> DEFINE d == Dropped(m, n)
<1>1. /\ SameLocation(d, m) /\ d.count = m.count - n /\ d.head = Advance(m, n)
      /\ d.ring = m.ring /\ d.tail_t = m.tail_t
      /\ d.head_t = (m.head_t + Elapsed(m, n)) % TimeMod
  BY DroppedFields
<1>2. InRing(d) BY DroppedRing
<1> HIDE DEF d
<1>3. m.count \in Nat /\ m.count <= Capacity(m) BY DEF InRing, Follows
<1> PICK c \in Nat : c = m.count BY <1>3
<1>4. d.end = m.end /\ First(d) = First(m) BY <1>1 DEF SameLocation, First
<1>5. ASSUME NEW i \in 0..(c - n) PROVE Advance(d, i) = Advance(m, n + i)
  <2>1. i \in Nat /\ n + i <= c BY <1>5
  <2>2. c <= Capacity(m) BY <1>3
  <2>3. \A x, k, j : /\ InRing(x) /\ x.end = m.end /\ First(x) = First(m)
                     /\ k \in Nat /\ j \in Nat /\ k + j <= c /\ x.head = Advance(m, k)
                     => Advance(x, j) = Advance(m, k + j)
    BY <2>2, Places, Zenon
  <2> QED BY <1>1, <1>2, <1>4, <2>1, <2>3, Zenon
<1>6. ASSUME NEW i \in 0..(c - n) PROVE deltat(d, i) = deltat(m, n + i)
  BY <1>1, <1>5 DEF deltat
<1>7. PICK g : IsSum(g, m, c) BY SumExists DEF Timed
<1>8. g \in [0..c -> Int] /\ \A i \in 0..(c - 1) : g[i + 1] = g[i] + deltat(m, i) BY <1>7 DEF IsSum
<1>9. n \in 0..c /\ c \in 0..c OBVIOUS
<1>10. g[n] \in Int /\ g[c] \in Int BY <1>8, <1>9
<1> DEFINE h == [i \in 0..(c - n) |-> g[n + i] - g[n]]
<1>11. IsSum(h, d, c - n)
  <2>1. \A i \in 0..(c - n) : n + i \in 0..c /\ g[n + i] \in Int BY <1>8
  <2>2. h \in [0..(c - n) -> Int] BY <1>10, <2>1
  <2>3. h[0] = 0
    <3>1. 0 \in 0..(c - n) /\ n + 0 = n OBVIOUS
    <3>2. g[n] - g[n] = 0 BY <1>10
    <3> QED BY <3>1, <3>2
  <2>4. ASSUME NEW i \in 0..((c - n) - 1) PROVE h[i + 1] = h[i] + deltat(d, i)
    <3>1. /\ i \in 0..(c - n) /\ i + 1 \in 0..(c - n) /\ n + i \in 0..(c - 1)
          /\ n + (i + 1) = (n + i) + 1
      OBVIOUS
    <3>2. g[(n + i) + 1] = g[n + i] + deltat(m, n + i) BY <1>8, <3>1
    <3>3. deltat(d, i) = deltat(m, n + i) BY <1>6, <3>1
    <3>4. deltat(m, n + i) \in Int BY <3>1 DEF Timed, Deltas
    <3>5. g[n + i] \in Int BY <2>1, <3>1
    <3>6. h[i + 1] = g[(n + i) + 1] - g[n] /\ h[i] = g[n + i] - g[n] BY <3>1
    <3> HIDE DEF h
    <3> QED BY <1>10, <3>2, <3>3, <3>4, <3>5, <3>6
  <2> HIDE DEF h
  <2> QED BY <2>2, <2>3, <2>4 DEF IsSum
<1>12. c - n \in Nat /\ c - n \in 0..(c - n) OBVIOUS
<1>13. Elapsed(d, c - n) = g[c] - g[n]
  <2>1. n + (c - n) = c OBVIOUS
  <2>2. h[c - n] = g[c] - g[n] BY <1>12, <2>1
  <2> HIDE DEF h
  <2> QED BY <1>11, <1>12, <2>2, ElapsedIs
<1>14. Elapsed(m, n) = g[n] /\ Elapsed(m, c) = g[c] BY <1>7, <1>9, ElapsedIs
<1>15. m.head_t \in Int BY DEF Timed
<1> PICK x \in Int : x = m.head_t + g[n] BY <1>10, <1>15
<1>16. d.head_t = x % TimeMod BY <1>1, <1>14
<1>17. x % TimeMod \in 0..(TimeMod - 1) BY FifoAssumption
<1>18. Deltas(d, d.count)
  <2>1. ASSUME NEW i \in 0..((c - n) - 1) PROVE deltat(d, i) \in Int
    <3>1. i \in 0..(c - n) /\ n + i \in 0..(c - 1) OBVIOUS
    <3> QED BY <1>6, <3>1 DEF Timed, Deltas
  <2> QED BY <1>1, <2>1 DEF Deltas
<1>19. Timed(d) BY <1>1, <1>16, <1>17, <1>18 DEF Timed
<1>20. ASSUME AddsUp(m) PROVE AddsUp(d)
  <2> PICK y \in Int : y = g[c] - g[n] BY <1>10
  <2>1. ((x % TimeMod) + y) % TimeMod = (x + y) % TimeMod BY ReduceFirst
  <2>2. x + y = m.head_t + g[c] BY <1>10, <1>15
  <2>3. (m.head_t + g[c]) % TimeMod = m.tail_t BY <1>14, <1>20 DEF AddsUp
  <2> QED BY <1>1, <1>13, <1>16, <2>1, <2>2, <2>3 DEF AddsUp
<1> QED BY <1>19, <1>20 DEF d

\* The entry that is written at the tail adds its delta.
LEMMA AppendedDelta ==
  ASSUME NEW b, InRing(b), Follows(b), b.count < Capacity(b), Placed(b), DOMAIN b.ring = Slots,
         Deltas(b, b.count), NEW e, e.deltat \in Int,
         NEW d, SameLocation(d, b), d.head = b.head, d.count = b.count + 1,
         d.ring = [b.ring EXCEPT ![b.tail] = e]
  PROVE  /\ Deltas(d, d.count) /\ Elapsed(b, b.count) \in Int
         /\ Elapsed(d, d.count) = Elapsed(b, b.count) + e.deltat
<1>1. b.count \in Nat /\ b.tail = Advance(b, b.count) BY DEF InRing, Follows
<1> PICK c \in Nat : c = b.count BY <1>1
<1>2. b.tail \in Slots
  <2>1. b.tail \in b.begin..(b.end - 1) BY DEF InRing, First
  <2> QED BY <2>1 DEF Placed
<1>3. \A i : Advance(d, i) = Advance(b, i) BY DEF Advance, First, Capacity, SameLocation
<1>4. deltat(d, c) = e.deltat BY <1>1, <1>2, <1>3 DEF deltat
<1>5. ASSUME NEW i \in 0..(c - 1) PROVE deltat(d, i) = deltat(b, i)
  <2>1. Advance(b, i) # b.tail
    <3>1. c <= Capacity(b) BY DEF Follows
    <3> QED BY <1>1, <3>1, Places
  <2>2. Advance(b, i) \in Slots
    <3>1. /\ Advance(b, i) \in Nat /\ First(b) <= Advance(b, i) /\ Advance(b, i) < b.end
      BY AdvanceInRing
    <3>2. Advance(b, i) \in b.begin..(b.end - 1) BY <3>1 DEF InRing, First
    <3> QED BY <3>2 DEF Placed
  <2> QED BY <1>3, <2>1, <2>2 DEF deltat
<1>6. PICK g : IsSum(g, b, c) BY SumExists
<1>7. g \in [0..c -> Int] /\ g[0] = 0 /\ \A i \in 0..(c - 1) : g[i + 1] = g[i] + deltat(b, i)
  BY <1>6 DEF IsSum
<1>8. g[c] \in Int BY <1>7
<1>9. Elapsed(b, c) = g[c] BY <1>6, ElapsedIs
<1> DEFINE h == [i \in 0..(c + 1) |-> IF i = c + 1 THEN g[c] + e.deltat ELSE g[i]]
<1>10. IsSum(h, d, c + 1)
  <2>1. h \in [0..(c + 1) -> Int] /\ h[0] = 0 BY <1>7, <1>8
  <2>2. ASSUME NEW i \in 0..c PROVE h[i + 1] = h[i] + deltat(d, i)
    <3>1. CASE i = c BY <1>4, <3>1
    <3>2. CASE i # c
      <4>1. i \in 0..(c - 1) /\ i # c + 1 /\ i + 1 # c + 1 /\ i + 1 \in 0..(c + 1) BY <3>2
      <4> QED BY <1>5, <1>7, <4>1
    <3> QED BY <3>1, <3>2
  <2>3. (c + 1) - 1 = c OBVIOUS
  <2> HIDE DEF h
  <2> QED BY <2>1, <2>2, <2>3 DEF IsSum
<1>11. h[c + 1] = g[c] + e.deltat OBVIOUS
<1> HIDE DEF h
<1>12. Elapsed(d, c + 1) = h[c + 1]
  <2>1. c + 1 \in Nat /\ c + 1 \in 0..(c + 1) OBVIOUS
  <2> QED BY <1>10, <2>1, ElapsedIs
<1>13. Deltas(d, d.count)
  <2>1. ASSUME NEW i \in 0..((c + 1) - 1) PROVE deltat(d, i) \in Int
    <3>1. CASE i = c BY <1>4, <3>1
    <3>2. CASE i # c
      <4>1. i \in 0..(c - 1) BY <3>2
      <4> QED BY <1>5, <4>1 DEF Deltas
    <3> QED BY <3>1, <3>2
  <2> QED BY <2>1 DEF Deltas
<1> QED BY <1>8, <1>9, <1>11, <1>12, <1>13

\* A sample that is put keeps the sum, unless it restarts the FIFO.
LEMMA StoredTimes ==
  ASSUME NEW m, Shape(m), InRing(m), Follows(m), Placed(m), DOMAIN m.ring = Slots, Timed(m),
         NEW s \in Samples
  PROVE  LET d == store_sample(m, s)
         IN  Timed(d) /\ (~Restarts(m, s) /\ (m.count = 0 \/ AddsUp(m)) => AddsUp(d))
<1> DEFINE a == Begun(m, s)
           b == MadeRoom(m, s)
           e == construct_entry(s.value, find_tag_index(b, s.tag), Delta(m, s))
           r == [b.ring EXCEPT ![b.tail] = e]
           t == normalise_index(b, b.tail + 1)
           d == store_sample(m, s)
<1>0. s.timestamp \in 0..(TimeMod - 1) /\ TimeMod \in Nat /\ TimeMod > 0
  <2>1. s.timestamp \in Times BY DEF Samples
  <2>2. Times \subseteq 0..(TimeMod - 1) /\ TimeMod \in Nat /\ TimeMod > 0 BY FifoAssumption
  <2> QED BY <2>1, <2>2
<1>1. /\ Shape(b) /\ SameLocation(b, m) /\ InRing(b) /\ Follows(b) /\ b.count < Capacity(b)
  BY MadeRoomRing
<1>2. /\ Shape(a) /\ SameIndices(a, m) /\ InRing(a) /\ Follows(a)
  BY BegunKeeps, SameIndicesKeep
<1>3. /\ a.ring = m.ring
      /\ IF m.count = 0 THEN a.head_t = s.timestamp /\ a.tail_t = s.timestamp
                        ELSE a.head_t = m.head_t /\ a.tail_t = m.tail_t
  <2> DEFINE u == Tagged(m, s.tag)
  <2>1. Shape(u) /\ u.ring = m.ring /\ u.head_t = m.head_t /\ u.tail_t = m.tail_t
    BY TaggedKeeps
  <2>2. a = IF m.count = 0
            THEN [u EXCEPT !.head_t = s.timestamp, !.tail_t = s.timestamp] ELSE u
    BY DEF Begun
  <2> HIDE DEF u, a
  <2> QED BY <2>1, <2>2 DEF Shape, Fields
<1>4. d = [b EXCEPT !.ring = r, !.tail = t, !.tail_t = s.timestamp, !.count = b.count + 1]
  BY <1>1 DEF store_sample, Shape, Fields
<1>5. Delta(m, s) \in Int /\ (~Restarts(m, s) => /\ Delta(m, s) = (s.timestamp - a.tail_t) % TimeMod
                                                /\ Delta(m, s) \in 0..MaxDelta)
  <2>1. a.tail_t \in Int BY <1>0, <1>3 DEF Timed
  <2> PICK x \in Int : x = s.timestamp - a.tail_t BY <1>0, <2>1
  <2>2. x % TimeMod \in 0..(TimeMod - 1) BY <1>0
  <2>3. Delta(m, s) = IF x % TimeMod > MaxDelta THEN -1 ELSE x % TimeMod
    BY DEF Delta, delta_t
  <2>4. ~Restarts(m, s) => ~(Delta(m, s) < 0) BY DEF Restarts
  <2> HIDE DEF a
  <2> QED BY <2>2, <2>3, <2>4, FifoAssumption
<1>6. e.deltat = Delta(m, s) % (MaxDelta + 1) BY DEF construct_entry
<1>7. Placed(b) /\ DOMAIN b.ring = Slots BY <1>1 DEF SameLocation, Placed
<1> HIDE DEF a, b, e, t
<1>8. e.deltat \in Int /\ (~Restarts(m, s) => e.deltat = Delta(m, s))
  BY <1>5, <1>6, FifoAssumption
<1>9. /\ SameLocation(d, b) /\ d.head = b.head /\ d.count = b.count + 1 /\ d.ring = r
      /\ d.head_t = b.head_t /\ d.tail_t = s.timestamp
  <2>1. DOMAIN r = DOMAIN b.ring OBVIOUS
  <2> HIDE DEF r, d
  <2> QED BY <1>1, <1>4, <2>1 DEF Shape, Fields, SameLocation
<1> HIDE DEF d
<1>10. Timed(b) /\ (~Restarts(m, s) => /\ b.tail_t = a.tail_t
                                       /\ m.count = 0 \/ AddsUp(m) => AddsUp(b))
  <2>0. b = IF Restarts(m, s) THEN Restarted(a, s) ELSE IF Full(a) THEN Dropped(a, 1) ELSE a
    BY DEF MadeRoom, a, b
  <2>1. m.count \in Nat /\ a.count = m.count BY <1>2 DEF InRing, SameIndices
  <2> PICK c \in Nat : c = m.count BY <2>1
  <2>2. \A i : deltat(a, i) = deltat(m, i)
    BY <1>2, <1>3 DEF deltat, Advance, First, Capacity, SameIndices, SameLocation
  <2>3. Timed(a)
    <3>1. Deltas(a, a.count) BY <2>1, <2>2 DEF Timed, Deltas
    <3> QED BY <1>0, <1>3, <3>1 DEF Timed
  <2>4. ASSUME m.count = 0 \/ AddsUp(m) PROVE AddsUp(a)
    <3>1. PICK g : IsSum(g, m, c) BY SumExists DEF Timed
    <3>2. IsSum(g, a, c) BY <2>2, <3>1 DEF IsSum
    <3>3. Elapsed(m, c) = g[c] /\ Elapsed(a, c) = g[c]
      <4>1. c \in 0..c OBVIOUS
      <4> QED BY <3>1, <3>2, <4>1, ElapsedIs
    <3>4. CASE m.count = 0
      <4>1. g[c] = 0 BY <3>1, <3>4 DEF IsSum
      <4>2. (s.timestamp + 0) % TimeMod = s.timestamp BY <1>0
      <4> QED BY <1>3, <2>1, <3>3, <3>4, <4>1, <4>2 DEF AddsUp
    <3>5. CASE m.count # 0 BY <1>3, <2>1, <2>4, <3>3, <3>5 DEF AddsUp
    <3> QED BY <3>4, <3>5
  <2>5. CASE Restarts(m, s)
    <3> DEFINE k == clear_content(a)
               k1 == [k EXCEPT !.head_t = s.timestamp, !.tail_t = s.timestamp]
    <3>1. b = Tagged(k1, s.tag) BY <2>0, <2>5 DEF Restarted
    <3>2. Shape(k) /\ k.count = 0 BY <1>2, ClearedFields
    <3> HIDE DEF k
    <3>3. Shape(k1) /\ k1.count = 0 /\ k1.head_t = s.timestamp /\ k1.tail_t = s.timestamp
      BY <3>2 DEF Shape, Fields
    <3> HIDE DEF k1
    <3>4. b.count = 0 /\ b.head_t = s.timestamp /\ b.tail_t = s.timestamp
      BY <3>1, <3>3, TaggedKeeps DEF SameIndices
    <3>5. Deltas(b, b.count)
      <4>1. 0..(0 - 1) = {} OBVIOUS
      <4> QED BY <3>4, <4>1 DEF Deltas
    <3> QED BY <1>0, <2>5, <3>4, <3>5 DEF Timed
  <2>6. CASE ~Restarts(m, s) /\ Full(a)
    <3>1. b = Dropped(a, 1) BY <2>0, <2>6
    <3>2. 1 \in Nat /\ 1 <= a.count BY <1>2, <2>6 DEF Full, InRing
    <3>3. b.tail_t = a.tail_t BY <1>2, <3>1, DroppedFields
    <3>4. Timed(b) /\ (AddsUp(a) => AddsUp(b)) BY <1>2, <2>3, <3>1, <3>2, DroppedTimes
    <3> QED BY <2>4, <3>3, <3>4
  <2>7. CASE ~Restarts(m, s) /\ ~Full(a) BY <2>0, <2>3, <2>4, <2>7
  <2> QED BY <2>5, <2>6, <2>7
<1>11. /\ Deltas(d, d.count) /\ Elapsed(b, b.count) \in Int
       /\ Elapsed(d, d.count) = Elapsed(b, b.count) + e.deltat
  BY <1>1, <1>7, <1>8, <1>9, <1>10, AppendedDelta DEF Timed
<1>12. Timed(d) BY <1>0, <1>9, <1>10, <1>11 DEF Timed
<1>13. ASSUME ~Restarts(m, s), m.count = 0 \/ AddsUp(m) PROVE AddsUp(d)
  <2>1. b.head_t \in Int /\ b.tail_t \in Int BY <1>10 DEF Timed
  <2>2. PICK x \in Int : x = b.head_t + Elapsed(b, b.count) BY <1>11, <2>1
  <2>3. PICK w \in Int : w = a.tail_t BY <1>10, <1>13, <2>1
  <2>4. x % TimeMod = w BY <1>10, <1>13, <2>2, <2>3 DEF AddsUp
  <2>5. PICK z \in Int : z = s.timestamp BY <1>0
  <2>6. PICK y \in Int : y = e.deltat BY <1>8
  <2>7. y = (z - w) % TimeMod BY <1>5, <1>8, <1>13, <2>3, <2>5, <2>6
  <2>8. ((x % TimeMod) + y) % TimeMod = (x + y) % TimeMod BY ReduceFirst
  <2>9. (((z - w) % TimeMod) + w) % TimeMod = ((z - w) + w) % TimeMod BY ReduceFirst
  <2>10. (z - w) + w = z /\ w + y = y + w OBVIOUS
  <2>11. z % TimeMod = z BY <1>0, <2>5
  <2>12. (x + y) % TimeMod = z BY <2>4, <2>7, <2>8, <2>9, <2>10, <2>11
  <2>13. d.head_t + Elapsed(d, d.count) = x + y
    BY <1>9, <1>11, <2>1, <2>2, <2>6
  <2> QED BY <1>9, <2>5, <2>12, <2>13 DEF AddsUp
<1> QED BY <1>12, <1>13 DEF d

\* The inductive invariant of the timestamps; nothing is claimed after an
\* interrupted operation.
TimesInv ==
  rtc.magic /\ tears = 0 => Timed(rtc) /\ (~skewed => AddsUp(rtc))

\* An empty FIFO whose timestamps are zero adds up.
LEMMA EmptyTimes ==
  ASSUME NEW m, m.count = 0, m.head_t = 0, m.tail_t = 0
  PROVE  Timed(m) /\ AddsUp(m)
<1>0. TimeMod \in Nat /\ TimeMod > 0 BY FifoAssumption
<1>1. Deltas(m, 0)
  <2>1. 0..(0 - 1) = {} OBVIOUS
  <2> QED BY <2>1 DEF Deltas
<1>2. PICK g : IsSum(g, m, 0) BY <1>1, SumExists
<1>3. Elapsed(m, 0) = 0
  <2>1. Elapsed(m, 0) = g[0] BY <1>2, ElapsedIs
  <2> QED BY <1>2, <2>1 DEF IsSum
<1>4. (0 + 0) % TimeMod = 0 BY <1>0
<1> QED BY <1>0, <1>1, <1>3, <1>4 DEF Timed, AddsUp

\* Every operation keeps it.
LEMMA TimesNext == RingInv /\ TimesInv /\ [Next]_vars => TimesInv'
<1> SUFFICES ASSUME RingInv, TimesInv, [Next]_vars, rtc'.magic, tears' = 0
             PROVE  Timed(rtc') /\ (~skewed' => AddsUp(rtc'))
  BY DEF TimesInv
<1>0. /\ Shape(rtc) /\ tears \in Nat /\ DOMAIN rtc.ring = Slots
      /\ rtc.magic /\ InPlace(rtc) => Placed(rtc) /\ InRing(rtc) /\ (tears = 0 => Follows(rtc))
      /\ rtc.magic /\ tears = 0 => Timed(rtc) /\ (~skewed => AddsUp(rtc))
  BY RingReady DEF RingInv, TimesInv
<1>1. ASSUME NEW n \in TagCounts, rtcfifo_prepare(n) PROVE Timed(rtc') /\ AddsUp(rtc')
  <2>1. rtc' = PreparedDefault(rtc, n) BY <1>1 DEF rtcfifo_prepare
  <2>2. rtc'.count = 0 /\ rtc'.head_t = 0 /\ rtc'.tail_t = 0 BY <1>0, <2>1, DefaultRing
  <2> QED BY <2>2, EmptyTimes
<1>2. ASSUME NEW n \in TagCounts, NEW st \in Storages, rtcfifo_prepare_storage(n, st)
      PROVE  Timed(rtc') /\ AddsUp(rtc')
  <2>1. rtc' = PutLoc(PreparedDefault(rtc, n), st.begin, st.end, n)
    BY <1>2 DEF rtcfifo_prepare_storage
  <2>2. rtc'.count = 0 /\ rtc'.head_t = 0 /\ rtc'.tail_t = 0 BY <1>0, <2>1, StorageRing
  <2> QED BY <2>2, EmptyTimes
<1>3. ASSUME NEW s \in Samples, rtcfifo_put(s) PROVE Timed(rtc') /\ (~skewed' => AddsUp(rtc'))
  <2>1. /\ rtc.magic /\ InPlace(rtc) /\ rtc' = store_sample(rtc, s) /\ tears = 0
        /\ skewed' = (tears = 0 /\ (Restarts(rtc, s) \/ (skewed /\ rtc.count > 0)))
    BY <1>3 DEF rtcfifo_put
  <2>2. /\ Timed(rtc')
        /\ ~Restarts(rtc, s) /\ (rtc.count = 0 \/ AddsUp(rtc)) => AddsUp(rtc')
    BY <1>0, <2>1, StoredTimes
  <2>3. rtc.count \in Nat BY <1>0, <2>1 DEF InRing
  <2>4. ASSUME ~skewed' PROVE ~Restarts(rtc, s) /\ (rtc.count = 0 \/ AddsUp(rtc))
    <3>1. ~Restarts(rtc, s) /\ (~skewed \/ ~(rtc.count > 0)) BY <2>1, <2>4
    <3>2. ~(rtc.count > 0) => rtc.count = 0 BY <2>3
    <3> QED BY <1>0, <2>1, <3>1, <3>2
  <2> QED BY <2>2, <2>4
<1>4. ASSUME NEW n \in Nat, n <= rtc.count, rtc.magic, InPlace(rtc), rtc' = Dropped(rtc, n),
             UNCHANGED <<skewed, tears>>
      PROVE  Timed(rtc') /\ (~skewed' => AddsUp(rtc'))
  <2>1. Timed(rtc') /\ (AddsUp(rtc) => AddsUp(rtc')) BY <1>0, <1>4, DroppedTimes
  <2> QED BY <1>0, <1>4, <2>1
<1>5. CASE rtcfifo_pop
  <2>1. 1 \in Nat /\ 1 <= rtc.count BY <1>0, <1>5 DEF rtcfifo_pop, InRing
  <2> QED BY <1>4, <1>5, <2>1 DEF rtcfifo_pop
<1>6. ASSUME NEW n \in Drops, rtcfifo_drop(n) PROVE Timed(rtc') /\ (~skewed' => AddsUp(rtc'))
  <2>1. /\ rtc.magic /\ InPlace(rtc) /\ rtc' = Dropped(rtc, DropCount(rtc, n))
        /\ UNCHANGED <<skewed, tears>>
    BY <1>6 DEF rtcfifo_drop
  <2>2. n \in Nat BY FifoAssumption
  <2>3. DropCount(rtc, n) \in Nat /\ DropCount(rtc, n) <= rtc.count
    BY <1>0, <2>1, <2>2 DEF DropCount, InRing
  <2> QED BY <1>4, <2>1, <2>3
<1>7. CASE Reset BY <1>0, <1>7 DEF Reset
<1>8. ASSUME NEW n \in TagCounts, ResetPrepare(n) PROVE FALSE BY <1>0, <1>8 DEF ResetPrepare
<1>9. CASE UNCHANGED vars BY <1>0, <1>9 DEF vars
<1> QED BY <1>1, <1>2, <1>3, <1>5, <1>6, <1>7, <1>8, <1>9 DEF Next

\* For every ring size, clock and delta width, and however many samples are put,
\* popped and dropped: the deltas of the entries add up from head_t to tail_t.
THEOREM DeltasAlwaysAddUp == Spec => []DeltasAddUp
<1>1. Init => TimesInv
  <2> SUFFICES ASSUME Init PROVE ~rtc.magic BY DEF TimesInv
  <2>1. PICK t, r :
          rtc = [magic |-> FALSE, begin |-> 0, end |-> 0, tagcount |-> 0, count |-> 0,
                 head |-> 0, tail |-> 0, head_t |-> 0, tail_t |-> 0, tags |-> t, ring |-> r]
    BY Zenon DEF Init
  <2> QED BY <2>1
<1>2. RingInv /\ TimesInv => DeltasAddUp
  <2> SUFFICES ASSUME RingInv, TimesInv, rtc.magic, tears = 0, rtc.count > 0, ~skewed
               PROVE  peek_time(rtc, rtc.count - 1) = rtc.tail_t
    BY DEF DeltasAddUp
  <2>1. rtc.count \in Nat /\ AddsUp(rtc) BY DEF RingInv, TimesInv, Located
  <2>2. (rtc.count - 1) + 1 = rtc.count BY <2>1
  <2> QED BY <2>1, <2>2 DEF peek_time, AddsUp
<1> QED BY <1>1, <1>2, TimesNext, RingAlways, PTL DEF Spec

-----------------------------------------------------------------------------
\* The content of the ring as a queue of samples: module SampleFifoContract.

entry(m, i) == m.ring[Advance(m, i)]

Queue(m) == [i \in 1..m.count |-> peek_sample(m, i - 1)]

NamesOf(m) == {m.tags[a] : a \in TagSlots(m)} \ {0}

\* Every sample has a name, and its index fits its field.
Named(m) ==
  /\ m.tagcount \in 1..16 /\ DOMAIN m.tags = Slots
  /\ \A i \in 0..(m.count - 1) :
       /\ entry(m, i).tagindex \in 0..(m.tagcount - 1)
       /\ m.tags[m.begin + entry(m, i).tagindex] # 0

\* The table of names lies in RTC memory.
LEMMA TagPlaces ==
  ASSUME NEW m, InRing(m), Placed(m)
  PROVE  /\ m.begin \in Nat /\ m.tagcount \in Nat
         /\ \A i \in 0..(m.tagcount - 1) : m.begin + i \in Slots /\ m.begin + i \in TagSlots(m)
         /\ \A x \in TagSlots(m) : x \in Slots /\ \E i \in 0..(m.tagcount - 1) : x = m.begin + i
<1>0. /\ m.begin \in Nat /\ m.end \in Nat /\ m.tagcount \in Nat
      /\ First(m) = m.begin + m.tagcount /\ First(m) < m.end /\ TagSlots(m) = m.begin..(First(m) - 1)
  BY DEF InRing, First, TagSlots
<1>1. ASSUME NEW x \in TagSlots(m) PROVE x \in Slots
  <2>1. x \in m.begin..(m.end - 1) BY <1>0
  <2> QED BY <2>1 DEF Placed
<1>2. ASSUME NEW x \in TagSlots(m) PROVE \E i \in 0..(m.tagcount - 1) : x = m.begin + i
  <2>1. x - m.begin \in 0..(m.tagcount - 1) /\ x = m.begin + (x - m.begin) BY <1>0
  <2> QED BY <2>1
<1>3. ASSUME NEW i \in 0..(m.tagcount - 1) PROVE m.begin + i \in TagSlots(m) BY <1>0
<1> QED BY <1>0, <1>1, <1>2, <1>3

\* A set of numbers up to n has a least one.
LEMMA LeastOf ==
  ASSUME NEW n \in Nat, NEW H \in SUBSET (0..n), H # {}
  PROVE  \E i \in H : \A j \in H : i <= j
<1> SUFFICES ASSUME \A i \in H : ~(\A j \in H : i <= j) PROVE FALSE OBVIOUS
<1> DEFINE S == {k \in Nat : \A j \in H : k <= j}
<1>1. 0 \in S OBVIOUS
<1>2. ASSUME NEW k \in Nat, k \in S PROVE k + 1 \in S
  <2>1. \A j \in H : k <= j /\ j \in Int BY <1>2
  <2>2. k \notin H BY <2>1
  <2>3. \A j \in H : k + 1 <= j BY <2>1, <2>2
  <2> QED BY <2>3
<1> HIDE DEF S
<1>3. n + 1 \in S BY <1>1, <1>2, CountingUp
<1>4. PICK j \in H : TRUE OBVIOUS
<1>5. n + 1 <= j /\ j \in 0..n BY <1>3 DEF S
<1> QED BY <1>5

\* The slot found for a name holds it or is free, and one is found if there is any.
LEMMA FindTagIs ==
  ASSUME NEW m, m.tagcount \in 1..16, NEW tag
  PROVE  LET i == find_tag_index(m, tag)
         IN /\ i = -1 \/ (i \in 0..(m.tagcount - 1) /\ m.tags[m.begin + i] \in {tag, 0})
            /\ i < 0 <=> \A j \in 0..(m.tagcount - 1) : m.tags[m.begin + j] \notin {tag, 0}
<1> DEFINE fit == {i \in 0..(m.tagcount - 1) : m.tags[m.begin + i] \in {tag, 0}}
           Least(i) == \A j \in fit : i <= j
           f == find_tag_index(m, tag)
<1>1. f = IF fit = {} THEN -1 ELSE CHOOSE i \in fit : Least(i) BY DEF find_tag_index
<1>2. \A i : i \in fit <=> i \in 0..(m.tagcount - 1) /\ m.tags[m.begin + i] \in {tag, 0} OBVIOUS
<1> PICK n \in Nat : n = m.tagcount - 1 OBVIOUS
<1>3. fit \in SUBSET (0..n) OBVIOUS
<1> HIDE DEF fit, f
<1>4. CASE fit = {}
  <2>1. f = -1 /\ f < 0 BY <1>1, <1>4
  <2>2. \A j \in 0..(m.tagcount - 1) : m.tags[m.begin + j] \notin {tag, 0} BY <1>2, <1>4
  <2> QED BY <2>1, <2>2 DEF f
<1>5. CASE fit # {}
  <2>1. \E i \in fit : Least(i) BY <1>3, <1>5, LeastOf
  <2> HIDE DEF Least
  <2>2. f \in fit BY <1>1, <1>5, <2>1, Zenon
  <2>3. f \in 0..(m.tagcount - 1) /\ m.tags[m.begin + f] \in {tag, 0} BY <1>2, <2>2
  <2>4. ~(f < 0) BY <2>3
  <2> QED BY <2>3, <2>4 DEF f
<1> QED BY <1>4, <1>5 DEF f

\* What is found depends on which slots fit.
LEMMA SameFit ==
  ASSUME NEW a, NEW m, a.tagcount = m.tagcount, a.begin = m.begin, NEW tag,
         \A i \in 0..(m.tagcount - 1) :
           a.tags[m.begin + i] \in {tag, 0} <=> m.tags[m.begin + i] \in {tag, 0}
  PROVE  find_tag_index(a, tag) = find_tag_index(m, tag)
<1> DEFINE F == {i \in 0..(m.tagcount - 1) : m.tags[m.begin + i] \in {tag, 0}}
           G == {i \in 0..(m.tagcount - 1) : a.tags[m.begin + i] \in {tag, 0}}
<1>1. F = G OBVIOUS
<1>2. find_tag_index(m, tag) = IF F = {} THEN -1 ELSE CHOOSE i \in F : \A j \in F : i <= j
  BY DEF find_tag_index
<1>3. find_tag_index(a, tag) = IF G = {} THEN -1 ELSE CHOOSE i \in G : \A j \in G : i <= j
  BY DEF find_tag_index
<1> HIDE DEF F, G
<1> QED BY <1>1, <1>2, <1>3

\* A name for which there is a slot is in it, and found in it again; no other
\* slot changes.
LEMMA TaggedNames ==
  ASSUME NEW m, Shape(m), InRing(m), Placed(m), m.tagcount \in 1..16, DOMAIN m.tags = Slots,
         NEW tag, tag # 0, ~(find_tag_index(m, tag) < 0)
  PROVE  LET a == Tagged(m, tag)
             i == find_tag_index(m, tag)
         IN /\ i \in 0..(m.tagcount - 1) /\ m.tags[m.begin + i] \in {tag, 0}
            /\ DOMAIN a.tags = Slots /\ a.tags[m.begin + i] = tag
            /\ \A x \in Slots : x # m.begin + i => a.tags[x] = m.tags[x]
            /\ find_tag_index(a, tag) = i
            /\ NamesOf(a) = NamesOf(m) \cup {tag}
<1> DEFINE a == Tagged(m, tag)
           i == find_tag_index(m, tag)
           t == [m.tags EXCEPT ![m.begin + i] = tag]
<1>1. i \in 0..(m.tagcount - 1) /\ m.tags[m.begin + i] \in {tag, 0} BY FindTagIs
<1>2. a = [m EXCEPT !.tags = t] BY DEF Tagged, Shape, Fields
<1> HIDE DEF a, i
<1>3. m.begin + i \in Slots /\ m.begin + i \in TagSlots(m) BY <1>1, TagPlaces
<1>4. t[m.begin + i] = tag /\ DOMAIN t = Slots /\ \A x \in Slots : x # m.begin + i => t[x] = m.tags[x]
  BY <1>3
<1> HIDE DEF t
<1>5. a.tags = t /\ a.begin = m.begin /\ a.tagcount = m.tagcount BY <1>2 DEF Shape, Fields
<1>6. TagSlots(a) = TagSlots(m) BY <1>5 DEF TagSlots, First
<1>7. find_tag_index(a, tag) = i
  <2>1. ASSUME NEW j \in 0..(m.tagcount - 1)
        PROVE  t[m.begin + j] \in {tag, 0} <=> m.tags[m.begin + j] \in {tag, 0}
    <3>1. m.begin + j \in Slots BY TagPlaces
    <3>2. CASE m.begin + j = m.begin + i BY <1>1, <1>4, <3>2
    <3>3. CASE m.begin + j # m.begin + i BY <1>4, <3>1, <3>3
    <3> QED BY <3>2, <3>3
  <2> QED BY <1>5, <2>1, SameFit DEF i
<1>8. NamesOf(a) = NamesOf(m) \cup {tag}
  <2>1. \A x \in TagSlots(m) : x \in Slots BY TagPlaces
  <2>2. ASSUME NEW y \in NamesOf(a) PROVE y \in NamesOf(m) \cup {tag}
    <3>1. PICK x \in TagSlots(m) : y = t[x] /\ y # 0 BY <1>5, <1>6, <2>2 DEF NamesOf
    <3> QED BY <1>4, <2>1, <3>1 DEF NamesOf
  <2>3. ASSUME NEW y \in NamesOf(m) PROVE y \in NamesOf(a)
    <3>1. PICK x \in TagSlots(m) : y = m.tags[x] /\ y # 0 BY <2>3 DEF NamesOf
    <3>2. y = t[x] BY <1>1, <1>4, <2>1, <3>1
    <3> QED BY <1>5, <1>6, <3>1, <3>2 DEF NamesOf
  <2>4. tag \in NamesOf(a) BY <1>3, <1>4, <1>5, <1>6 DEF NamesOf
  <2> QED BY <2>2, <2>3, <2>4
<1> QED BY <1>1, <1>4, <1>5, <1>7, <1>8 DEF a, i

\* f is a sequence of n elements.
Listed(f, n) == f = [i \in 1..n |-> f[i]]

\* So it is one of elements of any set that holds them.
LEMMA ListedSeq ==
  ASSUME NEW n \in Nat, NEW f, Listed(f, n), NEW X, \A i \in 1..n : f[i] \in X
  PROVE  f \in Seq(X) /\ Len(f) = n
<1>1. f \in [1..n -> X] BY DEF Listed
<1> QED BY <1>1

\* A sequence with one element more.
LEMMA AsAppend ==
  ASSUME NEW n \in Nat, NEW f, Listed(f, n), NEW x,
         NEW g, Listed(g, n + 1), g[n + 1] = x, \A i \in 1..n : g[i] = f[i]
  PROVE  g = Append(f, x)
<1> DEFINE X == {g[i] : i \in 1..(n + 1)}
<1>1. \A i \in 1..(n + 1) : g[i] \in X OBVIOUS
<1>2. n + 1 \in 1..(n + 1) /\ n + 1 \in Nat /\ \A i \in 1..n : i \in 1..(n + 1) OBVIOUS
<1>3. x \in X BY <1>1, <1>2
<1> HIDE DEF X
<1>4. g \in Seq(X) /\ Len(g) = n + 1 BY <1>1, <1>2, ListedSeq
<1>5. f \in Seq(X) /\ Len(f) = n
  <2>1. \A i \in 1..n : f[i] \in X BY <1>1, <1>2
  <2> QED BY <2>1, ListedSeq
<1> DEFINE A == Append(f, x)
<1>6. A \in Seq(X) /\ Len(A) = n + 1 /\ A[n + 1] = x /\ \A i \in 1..n : A[i] = f[i]
  BY <1>3, <1>5, AppendProperties
<1> HIDE DEF A
<1>7. ASSUME NEW i \in 1..(n + 1) PROVE g[i] = A[i]
  <2>1. i = n + 1 \/ i \in 1..n OBVIOUS
  <2> QED BY <1>6, <2>1
<1>8. g = A BY <1>4, <1>6, <1>7, SeqEqual
<1> QED BY <1>8 DEF A

\* g is what f, a sequence of n elements, has behind its first k.
Behind(g, f, k, n) ==
  \E l \in Nat : /\ k <= n => l = n - k
                 /\ k > n => l = 0
                 /\ Listed(g, l) /\ \A i \in 1..l : g[i] = f[k + i]

\* A sequence without its first elements.
LEMMA AsSuffix ==
  ASSUME NEW n \in Nat, NEW f, Listed(f, n), NEW k \in Nat, NEW g, Behind(g, f, k, n)
  PROVE  g = SubSeq(f, k + 1, Len(f)) /\ Len(f) = n
<1>0. PICK l \in Nat : /\ k <= n => l = n - k
                       /\ k > n => l = 0
                       /\ Listed(g, l) /\ \A i \in 1..l : g[i] = f[k + i]
  BY DEF Behind
<1> DEFINE X == {f[i] : i \in 1..n}
<1>1. \A i \in 1..n : f[i] \in X OBVIOUS
<1> HIDE DEF X
<1>2. f \in Seq(X) /\ Len(f) = n BY <1>1, ListedSeq
<1>3. ASSUME NEW i \in 1..l PROVE k + i \in 1..n /\ i \in 1..(n - (k + 1) + 1) /\ (k + 1) + i - 1 = k + i
  BY <1>0
<1>4. g \in Seq(X) /\ Len(g) = l
  <2>1. \A i \in 1..l : g[i] \in X BY <1>0, <1>1, <1>3
  <2> QED BY <1>0, <2>1, ListedSeq
<1> DEFINE A == SubSeq(f, k + 1, n)
<1>5. /\ A \in Seq(X) /\ Len(A) = IF k + 1 <= n THEN n - (k + 1) + 1 ELSE 0
      /\ \A i \in 1..(n - (k + 1) + 1) : A[i] = f[(k + 1) + i - 1]
  <2>1. k + 1 \in Int /\ n \in Int /\ \A i \in (k + 1)..n : f[i] \in X BY <1>1
  <2> PICK j \in Int : j = k + 1 OBVIOUS
  <2>2. \A i \in j..n : f[i] \in X BY <2>1
  <2>3. /\ SubSeq(f, j, n) \in Seq(X) /\ Len(SubSeq(f, j, n)) = IF j <= n THEN n - j + 1 ELSE 0
        /\ \A i \in 1..(n - j + 1) : SubSeq(f, j, n)[i] = f[j + i - 1]
    BY ONLY j \in Int, n \in Nat, <2>1, <2>2, SubSeqProperties
  <2> QED BY <2>3
<1> HIDE DEF A
<1>6. Len(A) = l BY <1>0, <1>5
<1>7. ASSUME NEW i \in 1..l PROVE g[i] = A[i] BY <1>0, <1>3, <1>5
<1>8. g = A BY <1>4, <1>5, <1>6, <1>7, SeqEqual
<1> QED BY <1>2, <1>8 DEF A

\* Tail() is the suffix behind the first element.
LEMMA TailIsSuffix ==
  ASSUME NEW n \in Nat, n >= 1, NEW f, Listed(f, n)
  PROVE  Tail(f) = SubSeq(f, 2, Len(f))
<1> DEFINE X == {f[i] : i \in 1..n}
<1>1. \A i \in 1..n : f[i] \in X OBVIOUS
<1> HIDE DEF X
<1>2. f \in Seq(X) /\ Len(f) = n BY <1>1, ListedSeq
<1> QED BY <1>2

\* Popping and dropping take samples from the head of the queue.
LEMMA DroppedQueue ==
  ASSUME NEW m, Shape(m), InRing(m), Follows(m), Named(m), NEW n \in Nat, n <= m.count
  PROVE  LET d == Dropped(m, n)
         IN /\ Named(d) /\ NamesOf(d) = NamesOf(m)
            /\ \A i \in 1..d.count : Queue(d)[i] = Queue(m)[n + i]
<1> DEFINE d == Dropped(m, n)
<1>1. /\ SameLocation(d, m) /\ d.count = m.count - n /\ d.head = Advance(m, n)
      /\ d.ring = m.ring /\ d.tags = m.tags
  BY DroppedFields
<1>2. InRing(d) BY DroppedRing
<1> HIDE DEF d
<1>3. m.count \in Nat /\ m.count <= Capacity(m) BY DEF InRing, Follows
<1> PICK c \in Nat : c = m.count BY <1>3
<1>4. d.end = m.end /\ First(d) = First(m) /\ d.begin = m.begin /\ d.tagcount = m.tagcount
  BY <1>1 DEF SameLocation, First
<1>5. ASSUME NEW i \in 0..(c - n) PROVE entry(d, i) = entry(m, n + i)
  <2>1. i \in Nat /\ n + i <= c BY <1>5
  <2>2. c <= Capacity(m) BY <1>3
  <2>3. \A x, k, j : /\ InRing(x) /\ x.end = m.end /\ First(x) = First(m)
                     /\ k \in Nat /\ j \in Nat /\ k + j <= c /\ x.head = Advance(m, k)
                     => Advance(x, j) = Advance(m, k + j)
    BY <2>2, Places, Zenon
  <2>4. Advance(d, i) = Advance(m, n + i) BY <1>1, <1>2, <1>4, <2>1, <2>3, Zenon
  <2> QED BY <1>1, <2>4 DEF entry
<1>6. Named(d)
  <2>1. ASSUME NEW i \in 0..(d.count - 1)
        PROVE  /\ entry(d, i).tagindex \in 0..(d.tagcount - 1)
               /\ d.tags[d.begin + entry(d, i).tagindex] # 0
    <3>1. i \in 0..(c - n) /\ n + i \in 0..(c - 1) BY <1>1
    <3> QED BY <1>1, <1>4, <1>5, <3>1 DEF Named
  <2> QED BY <1>1, <1>4, <2>1 DEF Named
<1>7. ASSUME NEW i \in 1..d.count PROVE Queue(d)[i] = Queue(m)[n + i]
  <2>1. i - 1 \in 0..(c - n) /\ n + i \in 1..c /\ (n + i) - 1 = n + (i - 1) BY <1>1
  <2>2. entry(d, i - 1) = entry(m, (n + i) - 1) BY <1>5, <2>1
  <2>3. peek_sample(d, i - 1) = peek_sample(m, (n + i) - 1)
    BY <1>1, <1>4, <2>2 DEF peek_sample, entry
  <2> QED BY <2>1, <2>3 DEF Queue
<1>8. NamesOf(d) = NamesOf(m) BY <1>1, <1>4 DEF NamesOf, TagSlots
<1> QED BY <1>6, <1>7, <1>8 DEF d

\* A sample that is written at the tail is behind the others.
LEMMA AppendedQueue ==
  ASSUME NEW b, InRing(b), Follows(b), b.count < Capacity(b), Placed(b), DOMAIN b.ring = Slots,
         Named(b), NEW e, e.tagindex \in 0..(b.tagcount - 1), b.tags[b.begin + e.tagindex] # 0,
         NEW d, SameLocation(d, b), d.head = b.head, d.count = b.count + 1, d.tags = b.tags,
         d.ring = [b.ring EXCEPT ![b.tail] = e]
  PROVE  /\ Named(d) /\ NamesOf(d) = NamesOf(b)
         /\ Queue(d) = Append(Queue(b), [value |-> e.value, tag |-> b.tags[b.begin + e.tagindex]])
<1>1. b.count \in Nat /\ b.tail = Advance(b, b.count) BY DEF InRing, Follows
<1> PICK c \in Nat : c = b.count BY <1>1
<1>2. b.tail \in Slots
  <2>1. b.tail \in b.begin..(b.end - 1) BY DEF InRing, First
  <2> QED BY <2>1 DEF Placed
<1>3. \A i : Advance(d, i) = Advance(b, i) BY DEF Advance, First, Capacity, SameLocation
<1>4. entry(d, c) = e BY <1>1, <1>2, <1>3 DEF entry
<1>5. ASSUME NEW i \in 0..(c - 1) PROVE entry(d, i) = entry(b, i)
  <2>1. Advance(b, i) # b.tail
    <3>1. c <= Capacity(b) BY DEF Follows
    <3> QED BY <1>1, <3>1, Places
  <2>2. Advance(b, i) \in Slots
    <3>1. /\ Advance(b, i) \in Nat /\ First(b) <= Advance(b, i) /\ Advance(b, i) < b.end
      BY AdvanceInRing
    <3>2. Advance(b, i) \in b.begin..(b.end - 1) BY <3>1 DEF InRing, First
    <3> QED BY <3>2 DEF Placed
  <2> QED BY <1>3, <2>1, <2>2 DEF entry
<1>6. d.begin = b.begin /\ d.tagcount = b.tagcount /\ First(d) = First(b) BY DEF SameLocation, First
<1>7. Named(d)
  <2>1. ASSUME NEW i \in 0..(d.count - 1)
        PROVE  /\ entry(d, i).tagindex \in 0..(d.tagcount - 1)
               /\ d.tags[d.begin + entry(d, i).tagindex] # 0
    <3>1. CASE i = c BY <1>4, <1>6, <3>1
    <3>2. CASE i # c
      <4>1. i \in 0..(c - 1) BY <3>2
      <4> QED BY <1>5, <1>6, <4>1 DEF Named
    <3> QED BY <3>1, <3>2
  <2> QED BY <1>6, <2>1 DEF Named
<1>8. NamesOf(d) = NamesOf(b) BY <1>6 DEF NamesOf, TagSlots
<1> DEFINE x == [value |-> e.value, tag |-> b.tags[b.begin + e.tagindex]]
<1>9. Queue(d) = Append(Queue(b), x)
  <2> DEFINE f == Queue(b)
             g == Queue(d)
  <2>1. Listed(f, c) /\ Listed(g, c + 1) BY DEF Queue, Listed
  <2>2. g[c + 1] = x
    <3>1. c + 1 \in 1..(c + 1) /\ (c + 1) - 1 = c OBVIOUS
    <3>2. peek_sample(d, c) = x BY <1>4, <1>6 DEF peek_sample, entry
    <3> QED BY <3>1, <3>2 DEF Queue
  <2>3. ASSUME NEW i \in 1..c PROVE g[i] = f[i]
    <3>1. i - 1 \in 0..(c - 1) /\ i \in 1..(c + 1) OBVIOUS
    <3>2. peek_sample(d, i - 1) = peek_sample(b, i - 1) BY <1>5, <1>6, <3>1 DEF peek_sample, entry
    <3> QED BY <3>1, <3>2 DEF Queue
  <2> HIDE DEF f, g, x
  <2>4. g = Append(f, x) BY ONLY c \in Nat, <2>1, <2>2, <2>3, AsAppend
  <2> QED BY <2>4 DEF f, g
<1> QED BY <1>7, <1>8, <1>9

\* rtc_fifo_clear_content() frees the names, so that the next one is the first.
LEMMA ClearedNames ==
  ASSUME NEW a, Shape(a), InRing(a), Placed(a), a.tagcount \in 1..16, NEW s, s.tag # 0
  PROVE  LET b == Restarted(a, s)
             i == find_tag_index(b, s.tag)
         IN /\ Named(b) /\ Queue(b) = <<>> /\ NamesOf(b) = {s.tag}
            /\ i \in 0..(b.tagcount - 1) /\ b.tags[b.begin + i] = s.tag
<1> DEFINE c == clear_content(a)
           k == [c EXCEPT !.head_t = s.timestamp, !.tail_t = s.timestamp]
           b == Restarted(a, s)
           tag == s.tag
<1>1. b = Tagged(k, tag) BY DEF Restarted
<1>2. /\ Shape(c) /\ SameLocation(c, a) /\ c.count = 0 /\ c.tags = ClearTags(a, a.tagcount)
      /\ InRing(c)
  <2>1. Room(a) BY DEF Room, InRing, First
  <2> QED BY <2>1, ClearedFields, ClearedRing
<1> HIDE DEF c, b
<1>3. Shape(k) /\ SameIndices(k, c) /\ k.tags = c.tags BY <1>2 DEF Shape, Fields, SameIndices, SameLocation
<1> HIDE DEF k
<1>4. /\ InRing(k) /\ k.begin = a.begin /\ k.tagcount = a.tagcount /\ k.end = a.end
      /\ k.count = 0 /\ Placed(k) /\ TagSlots(k) = TagSlots(a)
  <2>1. InRing(k) BY <1>2, <1>3, SameIndicesKeep
  <2> QED BY <1>2, <1>3, <2>1 DEF SameIndices, SameLocation, Placed, TagSlots, First
<1>5. k.tags = [x \in Slots |-> IF x \in a.begin..(a.begin + a.tagcount - 1) THEN 0 ELSE a.tags[x]]
  BY <1>2, <1>3 DEF ClearTags
<1>6. \A x \in TagSlots(a) : k.tags[x] = 0
  <2>1. \A x \in TagSlots(a) : x \in Slots BY TagPlaces
  <2>2. \A x \in TagSlots(a) : x \in a.begin..(a.begin + a.tagcount - 1)
    <3>1. /\ a.begin \in Nat /\ a.tagcount \in Nat
          /\ \A x \in TagSlots(a) : \E i \in 0..(a.tagcount - 1) : x = a.begin + i
      BY TagPlaces
    <3> QED BY <3>1
  <2> QED BY <1>5, <2>1, <2>2
<1>7. ~(find_tag_index(k, tag) < 0)
  <2>1. 0 \in 0..(k.tagcount - 1) BY <1>4
  <2>2. a.begin + 0 \in TagSlots(a) BY <1>4, <2>1, TagPlaces
  <2>3. k.tags[k.begin + 0] = 0 BY <1>4, <1>6, <2>2
  <2> QED BY <1>4, <2>1, <2>3, FindTagIs
<1>8. DOMAIN k.tags = Slots BY <1>5
<1>9. LET i == find_tag_index(k, tag)
      IN /\ i \in 0..(k.tagcount - 1) /\ DOMAIN b.tags = Slots /\ b.tags[k.begin + i] = tag
         /\ find_tag_index(b, tag) = i /\ NamesOf(b) = NamesOf(k) \cup {tag}
  BY <1>1, <1>3, <1>4, <1>7, <1>8, TaggedNames
<1>10. SameIndices(b, k) BY <1>1, <1>3, TaggedKeeps
<1>11. b.begin = k.begin /\ b.tagcount = k.tagcount /\ b.count = 0
  BY <1>4, <1>10 DEF SameIndices, SameLocation
<1>12. NamesOf(k) = {} BY <1>4, <1>6 DEF NamesOf
<1>13. Named(b)
  <2>1. 0..(0 - 1) = {} OBVIOUS
  <2> QED BY <1>4, <1>9, <1>11, <2>1 DEF Named
<1>14. Queue(b) = <<>>
  <2>1. 1..0 = {} OBVIOUS
  <2> QED BY <1>11, <2>1 DEF Queue
<1> QED BY <1>9, <1>11, <1>12, <1>13, <1>14 DEF b

\* The name of a sample that fits the scheme is entered, and no sample loses its own.
LEMMA BegunQueue ==
  ASSUME NEW m, Shape(m), InRing(m), Placed(m), Named(m), NEW s, s.tag # 0,
         ~(find_tag_index(m, s.tag) < 0)
  PROVE  LET a == Begun(m, s)
             i == find_tag_index(a, s.tag)
         IN /\ Named(a) /\ Queue(a) = Queue(m) /\ NamesOf(a) = NamesOf(m) \cup {s.tag}
            /\ i \in 0..(a.tagcount - 1) /\ a.tags[a.begin + i] = s.tag
<1> DEFINE a == Begun(m, s)
           u == Tagged(m, s.tag)
           i == find_tag_index(m, s.tag)
<1>1. Shape(u) /\ SameIndices(u, m) /\ u.ring = m.ring BY TaggedKeeps
<1>2. /\ i \in 0..(m.tagcount - 1) /\ m.tags[m.begin + i] \in {s.tag, 0}
      /\ DOMAIN u.tags = Slots /\ u.tags[m.begin + i] = s.tag
      /\ \A x \in Slots : x # m.begin + i => u.tags[x] = m.tags[x]
      /\ find_tag_index(u, s.tag) = i /\ NamesOf(u) = NamesOf(m) \cup {s.tag}
  BY TaggedNames DEF Named
<1>3. a = IF m.count = 0
          THEN [u EXCEPT !.head_t = s.timestamp, !.tail_t = s.timestamp] ELSE u
  BY DEF Begun
<1> HIDE DEF a, u, i
<1>4. SameIndices(a, u) /\ a.tags = u.tags /\ a.ring = u.ring
  BY <1>1, <1>3 DEF Shape, Fields, SameIndices, SameLocation
<1>5. /\ a.begin = m.begin /\ a.end = m.end /\ a.tagcount = m.tagcount /\ a.count = m.count
      /\ a.head = m.head /\ u.begin = m.begin /\ u.tagcount = m.tagcount
  BY <1>1, <1>4 DEF SameIndices, SameLocation
<1>6. \A j : entry(a, j) = entry(m, j)
  BY <1>1, <1>4, <1>5 DEF entry, Advance, First, Capacity
<1>7. ASSUME NEW j \in 0..(m.count - 1)
      PROVE  /\ entry(a, j).tagindex \in 0..(a.tagcount - 1)
             /\ a.tags[a.begin + entry(a, j).tagindex] = m.tags[m.begin + entry(m, j).tagindex]
             /\ a.tags[a.begin + entry(a, j).tagindex] # 0
  <2>1. /\ entry(m, j).tagindex \in 0..(m.tagcount - 1)
        /\ m.tags[m.begin + entry(m, j).tagindex] # 0
    BY <1>7 DEF Named
  <2> PICK y : y = m.begin + entry(m, j).tagindex OBVIOUS
  <2>2. y \in Slots BY <2>1, TagPlaces
  <2>3. u.tags[y] = m.tags[y] BY <1>2, <2>1, <2>2
  <2> QED BY <1>4, <1>5, <1>6, <2>1, <2>3
<1>8. Named(a) BY <1>2, <1>4, <1>5, <1>7 DEF Named
<1>9. Queue(a) = Queue(m)
  <2>1. ASSUME NEW j \in 1..m.count PROVE peek_sample(a, j - 1) = peek_sample(m, j - 1)
    <3>1. j - 1 \in 0..(m.count - 1) BY DEF InRing
    <3> QED BY <1>6, <1>7, <3>1 DEF peek_sample, entry
  <2> QED BY <1>5, <2>1 DEF Queue
<1>10. NamesOf(a) = NamesOf(m) \cup {s.tag}
  <2>1. NamesOf(a) = NamesOf(u) BY <1>4, <1>5 DEF NamesOf, TagSlots, First
  <2> QED BY <1>2, <2>1
<1>11. find_tag_index(a, s.tag) = i
  <2>1. find_tag_index(a, s.tag) = find_tag_index(u, s.tag) BY <1>4, <1>5, SameFit
  <2> QED BY <1>2, <2>1
<1> QED BY <1>2, <1>4, <1>5, <1>8, <1>9, <1>10, <1>11 DEF a

\* A ring is full when its indices meet.
LEMMA FullIs ==
  ASSUME NEW a, InRing(a), Follows(a) PROVE Full(a) <=> a.count = Capacity(a)
<1>1. /\ a.head \in Nat /\ a.end \in Nat /\ a.head < a.end /\ First(a) \in Nat /\ First(a) <= a.head
      /\ Capacity(a) = a.end - First(a) /\ a.count \in Nat /\ a.count <= Capacity(a)
  BY DEF InRing, First, Capacity, Follows
<1>2. a.tail = IF a.head + a.count < a.end THEN a.head + a.count
               ELSE a.head + a.count - Capacity(a)
  BY <1>1, AdvanceOnce DEF Follows
<1> QED BY <1>1, <1>2 DEF Full

\* Making room for a sample drops all samples, the oldest or none, and enters its name.
LEMMA MadeRoomQueue ==
  ASSUME NEW m, Shape(m), InRing(m), Follows(m), Placed(m), Named(m), NEW s, s.tag # 0
  PROVE  LET b == MadeRoom(m, s)
             i == find_tag_index(b, s.tag)
         IN /\ Named(b) /\ i \in 0..(b.tagcount - 1) /\ b.tags[b.begin + i] = s.tag
            /\ Queue(b) = IF Restarts(m, s) THEN <<>>
                          ELSE IF m.count = Capacity(m) THEN Tail(Queue(m)) ELSE Queue(m)
            /\ NamesOf(b) = (IF Restarts(m, s) THEN {} ELSE NamesOf(m)) \cup {s.tag}
<1> DEFINE a == Begun(m, s)
           b == MadeRoom(m, s)
<1>1. Shape(a) /\ SameIndices(a, m) /\ InRing(a) /\ Follows(a) BY BegunKeeps, SameIndicesKeep
<1>2. /\ a.begin = m.begin /\ a.end = m.end /\ a.tagcount = m.tagcount /\ a.count = m.count
      /\ Placed(a) /\ Capacity(a) = Capacity(m)
  BY <1>1 DEF SameIndices, SameLocation, Placed, Capacity, First
<1>3. b = IF Restarts(m, s) THEN Restarted(a, s) ELSE IF Full(a) THEN Dropped(a, 1) ELSE a
  BY DEF MadeRoom
<1> HIDE DEF b
<1>4. CASE Restarts(m, s)
  <2> HIDE DEF a
  <2>1. a.tagcount \in 1..16 BY <1>2 DEF Named
  <2> QED BY <1>1, <1>2, <1>3, <1>4, <2>1, ClearedNames DEF b
<1>5. CASE ~Restarts(m, s)
  <2>1. ~(find_tag_index(m, s.tag) < 0) BY <1>5 DEF Restarts
  <2>2. /\ Named(a) /\ Queue(a) = Queue(m) /\ NamesOf(a) = NamesOf(m) \cup {s.tag}
        /\ find_tag_index(a, s.tag) \in 0..(a.tagcount - 1)
        /\ a.tags[a.begin + find_tag_index(a, s.tag)] = s.tag
    BY <2>1, BegunQueue
  <2> HIDE DEF a
  <2>3. Full(a) <=> m.count = Capacity(m) BY <1>1, <1>2, FullIs
  <2>4. CASE ~Full(a) BY <1>3, <1>5, <2>2, <2>3, <2>4 DEF b
  <2>5. CASE Full(a)
    <3>1. b = Dropped(a, 1) BY <1>3, <1>5, <2>5
    <3>2. 1 \in Nat /\ 1 <= a.count /\ a.count \in Nat BY <1>1, <2>5 DEF Full, InRing
    <3>3. SameLocation(b, a) /\ b.count = a.count - 1 /\ b.tags = a.tags BY <1>1, <3>1, DroppedFields
    <3>4. /\ Named(b) /\ NamesOf(b) = NamesOf(a)
          /\ \A i \in 1..b.count : Queue(b)[i] = Queue(a)[1 + i]
      BY <1>1, <2>2, <3>1, <3>2, DroppedQueue
    <3>5. find_tag_index(b, s.tag) = find_tag_index(a, s.tag)
      BY <3>3, SameFit DEF SameLocation
    <3>6. Queue(b) = Tail(Queue(a))
      <4> DEFINE F == Queue(a)
                 G == Queue(b)
      <4> PICK n \in Nat : n = a.count BY <3>2
      <4>1. Listed(F, n) BY DEF Listed, Queue
      <4> PICK l \in Nat : l = n - 1 BY <3>2
      <4>2. Listed(G, l) BY <3>3 DEF Listed, Queue
      <4> HIDE DEF F, G
      <4>3. \A i \in 1..l : G[i] = F[1 + i] BY <3>3, <3>4 DEF F, G
      <4>4. Behind(G, F, 1, n) BY <3>2, <4>2, <4>3 DEF Behind
      <4>5. G = SubSeq(F, 1 + 1, Len(F)) BY <4>1, <4>4, AsSuffix
      <4>6. Tail(F) = SubSeq(F, 2, Len(F)) BY <3>2, <4>1, TailIsSuffix
      <4>7. G = Tail(F) BY <4>5, <4>6
      <4> QED BY <4>7 DEF F, G
    <3> QED BY <1>5, <2>2, <2>3, <2>5, <3>3, <3>4, <3>5, <3>6 DEF b, SameLocation
  <2> QED BY <2>4, <2>5
<1> QED BY <1>4, <1>5

FreeOf(m) == {a \in TagSlots(m) : m.tags[a] = 0}

\* A sample restarts the FIFO for the reasons its documentation gives.
LEMMA RestartsIs ==
  ASSUME NEW m, Shape(m), InRing(m), Placed(m), Named(m), Timed(m), NEW s \in Samples
  PROVE  Restarts(m, s) <=> \/ s.tag \notin NamesOf(m) /\ Cardinality(FreeOf(m)) = 0
                            \/ m.count # 0 /\ (s.timestamp - m.tail_t) % TimeMod > MaxDelta
<1>0. s.timestamp \in 0..(TimeMod - 1) /\ TimeMod \in Nat /\ TimeMod > 0 /\ s.tag # 0
  <2>1. s.timestamp \in Times /\ s.tag \in Names BY DEF Samples
  <2>2. Times \subseteq 0..(TimeMod - 1) /\ TimeMod \in Nat /\ TimeMod > 0 /\ 0 \notin Names
    BY FifoAssumption
  <2> QED BY <2>1, <2>2
<1>1. find_tag_index(m, s.tag) < 0 <=> s.tag \notin NamesOf(m) /\ Cardinality(FreeOf(m)) = 0
  <2>1. Cardinality(FreeOf(m)) = 0 <=> FreeOf(m) = {}
    <3>1. m.begin \in Int /\ First(m) - 1 \in Int BY DEF InRing, First
    <3>2. IsFiniteSet(TagSlots(m)) BY <3>1, FS_Interval DEF TagSlots
    <3>3. FreeOf(m) \in SUBSET TagSlots(m) BY DEF FreeOf
    <3>4. IsFiniteSet(FreeOf(m)) BY <3>2, <3>3, FS_Subset
    <3> QED BY <3>4, FS_EmptySet
  <2>2. find_tag_index(m, s.tag) < 0
          <=> \A j \in 0..(m.tagcount - 1) : m.tags[m.begin + j] \notin {s.tag, 0}
    BY FindTagIs DEF Named
  <2>3. (\A j \in 0..(m.tagcount - 1) : m.tags[m.begin + j] \notin {s.tag, 0})
          <=> \A x \in TagSlots(m) : m.tags[x] \notin {s.tag, 0}
    BY TagPlaces
  <2>4. (\A x \in TagSlots(m) : m.tags[x] \notin {s.tag, 0})
          <=> s.tag \notin NamesOf(m) /\ FreeOf(m) = {}
    BY <1>0 DEF NamesOf, FreeOf
  <2> QED BY <2>1, <2>2, <2>3, <2>4
<1>2. Delta(m, s) < 0 <=> m.count # 0 /\ (s.timestamp - m.tail_t) % TimeMod > MaxDelta
  <2> DEFINE a == Begun(m, s)
             u == Tagged(m, s.tag)
  <2>1. a.tail_t = IF m.count = 0 THEN s.timestamp ELSE m.tail_t
    <3>1. Shape(u) /\ u.tail_t = m.tail_t BY TaggedKeeps
    <3>2. a = IF m.count = 0
              THEN [u EXCEPT !.head_t = s.timestamp, !.tail_t = s.timestamp] ELSE u
      BY DEF Begun
    <3> HIDE DEF u, a
    <3> QED BY <3>1, <3>2 DEF Shape, Fields
  <2>2. a.tail_t \in Int BY <1>0, <2>1 DEF Timed
  <2> PICK x \in Int : x = s.timestamp - a.tail_t BY <1>0, <2>2
  <2>3. x % TimeMod \in 0..(TimeMod - 1) BY <1>0
  <2>4. Delta(m, s) = IF x % TimeMod > MaxDelta THEN -1 ELSE x % TimeMod
    BY DEF Delta, delta_t
  <2> HIDE DEF a
  <2>5. Delta(m, s) < 0 <=> x % TimeMod > MaxDelta BY <2>3, <2>4, FifoAssumption
  <2>6. CASE m.count = 0
    <3>1. x = 0 BY <1>0, <2>1, <2>6
    <3>2. 0 % TimeMod = 0 BY <1>0
    <3> QED BY <2>5, <2>6, <3>1, <3>2, FifoAssumption
  <2>7. CASE m.count # 0 BY <2>1, <2>5, <2>7
  <2> QED BY <2>6, <2>7
<1> QED BY <1>1, <1>2 DEF Restarts

\* The queue is a sequence of count samples.
LEMMA QueueIs ==
  ASSUME NEW m, m.count \in Nat
  PROVE  Listed(Queue(m), m.count) /\ Len(Queue(m)) = m.count /\ (Queue(m) = <<>> <=> m.count = 0)
<1> DEFINE f == Queue(m)
           X == {f[i] : i \in 1..m.count}
<1>1. Listed(f, m.count) BY DEF Listed, Queue
<1>2. \A i \in 1..m.count : f[i] \in X OBVIOUS
<1> HIDE DEF f, X
<1>3. f \in Seq(X) /\ Len(f) = m.count BY <1>1, <1>2, ListedSeq
<1>4. f = <<>> <=> m.count = 0 BY <1>3
<1> QED BY <1>1, <1>3, <1>4 DEF f

\* What rtc_fifo_store_sample() does to the queue, the names and the clock.
LEMMA PutQueue ==
  ASSUME NEW m, Shape(m), InRing(m), Follows(m), Placed(m), DOMAIN m.ring = Slots, Named(m),
         NEW s \in Samples
  PROVE  LET d == store_sample(m, s)
             x == [value |-> s.value % ValueMod, tag |-> s.tag]
         IN /\ Named(d) /\ d.tail_t = s.timestamp /\ Capacity(d) = Capacity(m)
            /\ Queue(d) = IF Restarts(m, s) THEN Append(<<>>, x)
                          ELSE Append(IF m.count = Capacity(m) THEN Tail(Queue(m)) ELSE Queue(m), x)
            /\ NamesOf(d) = (IF Restarts(m, s) THEN {} ELSE NamesOf(m)) \cup {s.tag}
<1> DEFINE b == MadeRoom(m, s)
           i == find_tag_index(b, s.tag)
           e == construct_entry(s.value, i, Delta(m, s))
           r == [b.ring EXCEPT ![b.tail] = e]
           t == normalise_index(b, b.tail + 1)
           d == store_sample(m, s)
           x == [value |-> s.value % ValueMod, tag |-> s.tag]
<1>0. s.tag # 0
  <2>1. s.tag \in Names BY DEF Samples
  <2> QED BY <2>1, FifoAssumption
<1>1. Shape(b) /\ SameLocation(b, m) /\ InRing(b) /\ Follows(b) /\ b.count < Capacity(b)
  BY MadeRoomRing
<1>2. /\ Named(b) /\ i \in 0..(b.tagcount - 1) /\ b.tags[b.begin + i] = s.tag
      /\ Queue(b) = IF Restarts(m, s) THEN <<>>
                    ELSE IF m.count = Capacity(m) THEN Tail(Queue(m)) ELSE Queue(m)
      /\ NamesOf(b) = (IF Restarts(m, s) THEN {} ELSE NamesOf(m)) \cup {s.tag}
  BY <1>0, MadeRoomQueue
<1>3. d = [b EXCEPT !.ring = r, !.tail = t, !.tail_t = s.timestamp, !.count = b.count + 1]
  BY <1>1 DEF store_sample, Shape, Fields
<1>4. e.value = s.value % ValueMod /\ e.tagindex = i % 16 BY DEF construct_entry
<1> HIDE DEF b, i, e, t, d
<1>5. e.tagindex = i
  <2>1. i \in Nat /\ i < 16 BY <1>2 DEF Named
  <2> QED BY <1>4, <2>1, SmallRemainder
<1>6. Placed(b) /\ DOMAIN b.ring = Slots /\ Capacity(b) = Capacity(m)
  BY <1>1 DEF SameLocation, Placed, Capacity, First
<1>7. DOMAIN r = DOMAIN b.ring OBVIOUS
<1> HIDE DEF r
<1>8. /\ SameLocation(d, b) /\ d.head = b.head /\ d.count = b.count + 1 /\ d.tags = b.tags
      /\ d.ring = r /\ d.tail_t = s.timestamp
  BY <1>1, <1>3, <1>7 DEF Shape, Fields, SameLocation
<1>9. Capacity(d) = Capacity(m) BY <1>6, <1>8 DEF SameLocation, Capacity, First
<1>10. /\ Named(d) /\ NamesOf(d) = NamesOf(b)
       /\ Queue(d) = Append(Queue(b), [value |-> e.value, tag |-> b.tags[b.begin + e.tagindex]])
  <2>1. b.tags[b.begin + e.tagindex] # 0 /\ e.tagindex \in 0..(b.tagcount - 1)
    BY <1>0, <1>2, <1>5
  <2>2. d.ring = [b.ring EXCEPT ![b.tail] = e] BY <1>8 DEF r
  <2>3. InRing(b) /\ Follows(b) /\ b.count < Capacity(b) BY <1>1
  <2>4. Placed(b) /\ DOMAIN b.ring = Slots /\ Named(b) BY <1>2, <1>6
  <2>5. SameLocation(d, b) /\ d.head = b.head /\ d.count = b.count + 1 /\ d.tags = b.tags BY <1>8
  <2> QED BY ONLY <2>1, <2>2, <2>3, <2>4, <2>5, AppendedQueue
<1>11. Queue(d) = Append(Queue(b), x) BY <1>2, <1>4, <1>5, <1>10
<1> QED BY <1>2, <1>8, <1>9, <1>10, <1>11 DEF d

-----------------------------------------------------------------------------
\* The inductive invariant of the names; nothing is claimed after an interrupted
\* operation.
NamesInv == rtc.magic /\ tears = 0 => Named(rtc)

\* What a step does to the content, as long as no operation was interrupted.
Emptied == Queue(rtc') = <<>> /\ Named(rtc')

Stores(s) ==
  LET x == [value |-> s.value % ValueMod, tag |-> s.tag]
  IN /\ Named(rtc') /\ rtc'.tail_t = s.timestamp /\ Capacity(rtc') = Capacity(rtc)
     /\ Queue(rtc') = IF Restarts(rtc, s) THEN Append(<<>>, x)
                      ELSE Append(IF rtc.count = Capacity(rtc) THEN Tail(Queue(rtc))
                                  ELSE Queue(rtc), x)
     /\ NamesOf(rtc') = (IF Restarts(rtc, s) THEN {} ELSE NamesOf(rtc)) \cup {s.tag}

Loses(n) ==
  /\ Named(rtc') /\ Queue(rtc') = SubSeq(Queue(rtc), n + 1, Len(Queue(rtc)))
  /\ rtc'.tail_t = rtc.tail_t /\ NamesOf(rtc') = NamesOf(rtc) /\ FreeOf(rtc') = FreeOf(rtc)
  /\ Capacity(rtc') = Capacity(rtc)

\* A FIFO that was just prepared is empty.
LEMMA EmptyNames ==
  ASSUME NEW m, m.count = 0, m.tagcount \in TagCounts, DOMAIN m.tags = Slots
  PROVE  Queue(m) = <<>> /\ Named(m)
<1>1. m.tagcount \in 1..16 BY FifoAssumption
<1>2. 0..(0 - 1) = {} /\ 1..0 = {} OBVIOUS
<1> QED BY <1>1, <1>2 DEF Queue, Named

\* Dropping n samples, or all if there are fewer.
LEMMA LosesIs ==
  ASSUME RingInv, NamesInv, rtc.magic, InPlace(rtc), tears = 0, NEW n \in Nat,
         rtc' = Dropped(rtc, DropCount(rtc, n))
  PROVE  Loses(n)
<1>0. Shape(rtc) /\ InRing(rtc) /\ Follows(rtc) /\ Named(rtc) /\ rtc.count \in Nat
  BY RingReady DEF RingInv, NamesInv, InRing
<1> DEFINE k == DropCount(rtc, n)
<1>1. k \in Nat /\ k <= rtc.count /\ k = (IF rtc.count <= n THEN rtc.count ELSE n)
  BY <1>0 DEF DropCount
<1> HIDE DEF k
<1>2. rtc' = Dropped(rtc, k) BY DEF k
<1>3. /\ SameLocation(rtc', rtc) /\ rtc'.count = rtc.count - k /\ rtc'.tags = rtc.tags
      /\ rtc'.tail_t = rtc.tail_t
  BY <1>0, <1>2, DroppedFields
<1>4. /\ Named(rtc') /\ NamesOf(rtc') = NamesOf(rtc)
      /\ \A i \in 1..rtc'.count : Queue(rtc')[i] = Queue(rtc)[k + i]
  BY <1>0, <1>1, <1>2, DroppedQueue
<1>5. FreeOf(rtc') = FreeOf(rtc) /\ Capacity(rtc') = Capacity(rtc)
  BY <1>3 DEF SameLocation, FreeOf, TagSlots, Capacity, First
<1>6. Queue(rtc') = SubSeq(Queue(rtc), n + 1, Len(Queue(rtc)))
  <2> DEFINE F == Queue(rtc)
             G == Queue(rtc')
  <2> PICK c \in Nat : c = rtc.count BY <1>0
  <2> PICK l \in Nat : l = rtc'.count BY <1>1, <1>3
  <2>1. Listed(F, c) /\ Listed(G, l) BY DEF Listed, Queue
  <2>2. \A i \in 1..l : G[i] = F[k + i] BY <1>4
  <2> HIDE DEF F, G
  <2>3. (n <= c => l = c - n) /\ (n > c => l = 0) BY <1>1, <1>3
  <2>4. \A i \in 1..l : G[i] = F[n + i]
    <3>1. CASE n <= c
      <4>1. k = n BY <1>1, <3>1
      <4> QED BY <2>2, <4>1
    <3>2. CASE ~(n <= c)
      <4>1. l = 0 /\ 1..0 = {} BY <2>3, <3>2
      <4> QED BY <4>1
    <3> QED BY <3>1, <3>2
  <2>5. Behind(G, F, n, c) BY <2>1, <2>3, <2>4 DEF Behind
  <2>6. G = SubSeq(F, n + 1, Len(F)) BY <2>1, <2>5, AsSuffix
  <2> QED BY <2>6 DEF F, G
<1> QED BY <1>3, <1>4, <1>5, <1>6 DEF Loses

\* Every step empties the content, stores a sample, loses the oldest samples or
\* is an interruption.
LEMMA ContentNext ==
  ASSUME RingInv, NamesInv, [Next]_vars, tears' = 0
  PROVE  \/ rtc'.magic /\ Emptied
         \/ tears = 0 /\ rtc.magic /\ InPlace(rtc) /\ rtc'.magic /\ \E s \in Samples : Stores(s)
         \/ tears = 0 /\ rtc.magic /\ rtc'.magic /\ \E n \in Drops \cup {1} : Loses(n)
         \/ UNCHANGED vars
<1>0. /\ Shape(rtc) /\ tears \in Nat /\ DOMAIN rtc.ring = Slots
      /\ rtc.magic /\ InPlace(rtc) => Placed(rtc) /\ InRing(rtc) /\ (tears = 0 => Follows(rtc))
      /\ rtc.magic /\ tears = 0 => Named(rtc)
  BY RingReady DEF RingInv, NamesInv
<1>1. ASSUME NEW n \in TagCounts, rtcfifo_prepare(n) PROVE rtc'.magic /\ Emptied
  <2>1. rtc' = PreparedDefault(rtc, n) BY <1>1 DEF rtcfifo_prepare
  <2>2. rtc'.magic /\ rtc'.count = 0 /\ rtc'.tagcount \in TagCounts /\ DOMAIN rtc'.tags = Slots
    BY <1>0, <2>1, DefaultRing
  <2> QED BY <2>2, EmptyNames DEF Emptied
<1>2. ASSUME NEW n \in TagCounts, NEW st \in Storages, rtcfifo_prepare_storage(n, st)
      PROVE  rtc'.magic /\ Emptied
  <2>1. rtc' = PutLoc(PreparedDefault(rtc, n), st.begin, st.end, n)
    BY <1>2 DEF rtcfifo_prepare_storage
  <2>2. rtc'.magic /\ rtc'.count = 0 BY <1>0, <2>1, StorageRing
  <2>3. rtc'.tagcount \in TagCounts /\ DOMAIN rtc'.tags = Slots BY <1>0, <2>1, StorageNames
  <2> QED BY <2>2, <2>3, EmptyNames DEF Emptied
<1>3. ASSUME NEW s \in Samples, rtcfifo_put(s)
      PROVE  tears = 0 /\ rtc.magic /\ InPlace(rtc) /\ rtc'.magic /\ Stores(s)
  <2>1. rtc.magic /\ InPlace(rtc) /\ rtc' = store_sample(rtc, s) /\ tears = 0
    BY <1>3 DEF rtcfifo_put
  <2>2. rtc'.magic BY <1>0, <2>1, StoreRing DEF SameLocation
  <2>3. Stores(s) BY <1>0, <2>1, PutQueue DEF Stores
  <2> QED BY <2>1, <2>2, <2>3
<1>4. ASSUME rtcfifo_pop PROVE tears = 0 /\ rtc.magic /\ rtc'.magic /\ Loses(1)
  <2>1. rtc.magic /\ InPlace(rtc) /\ rtc.count > 0 /\ rtc' = Dropped(rtc, 1) /\ tears = 0
    BY <1>4 DEF rtcfifo_pop
  <2>2. DropCount(rtc, 1) = 1 BY <1>0, <2>1 DEF DropCount, InRing
  <2>3. Loses(1) BY <2>1, <2>2, LosesIs
  <2>4. rtc'.magic BY <1>0, <2>1, DroppedFields DEF SameLocation
  <2> QED BY <2>1, <2>3, <2>4
<1>5. ASSUME NEW n \in Drops, rtcfifo_drop(n)
      PROVE  tears = 0 /\ rtc.magic /\ rtc'.magic /\ Loses(n)
  <2>1. rtc.magic /\ InPlace(rtc) /\ rtc' = Dropped(rtc, DropCount(rtc, n)) /\ tears = 0
    BY <1>5 DEF rtcfifo_drop
  <2>2. n \in Nat BY FifoAssumption
  <2>3. Loses(n) BY <2>1, <2>2, LosesIs
  <2>4. rtc'.magic BY <1>0, <2>1, DroppedFields DEF SameLocation
  <2> QED BY <2>1, <2>3, <2>4
<1>6. CASE Reset BY <1>0, <1>6 DEF Reset
<1>7. ASSUME NEW n \in TagCounts, ResetPrepare(n) PROVE FALSE BY <1>0, <1>7 DEF ResetPrepare
<1> QED BY <1>1, <1>2, <1>3, <1>4, <1>5, <1>6, <1>7 DEF Next

\* So the invariant of the names is kept.
LEMMA NamesNext == RingInv /\ NamesInv /\ [Next]_vars => NamesInv'
<1> SUFFICES ASSUME RingInv, NamesInv, [Next]_vars, rtc'.magic, tears' = 0 PROVE Named(rtc')
  BY DEF NamesInv
<1>1. \/ Emptied \/ (\E s \in Samples : Stores(s)) \/ (\E n \in Drops \cup {1} : Loses(n))
      \/ UNCHANGED vars
  BY ContentNext
<1>2. CASE UNCHANGED vars BY <1>2 DEF vars, NamesInv
<1> QED BY <1>1, <1>2 DEF Emptied, Stores, Loses

\* Seen through the refinement mapping every step is one of module
\* SampleFifoContract.
LEMMA ContractNext ==
  ASSUME RingInv, TimesInv, NamesInv, [Next]_vars
  PROVE  [Contract!QNext]_(Contract!cvars)
<1>1. CASE tears' # 0 BY <1>1 DEF Contract!QNext
<1>2. CASE UNCHANGED vars
  <2>1. rtc' = rtc /\ tears' = tears BY <1>2 DEF vars
  <2> QED BY <2>1 DEF Contract!cvars
<1>3. CASE tears' = 0 /\ rtc'.magic /\ Emptied
  <2>1. Contract!QPrepare BY <1>3 DEF Contract!QPrepare, Emptied, Queue
  <2> QED BY <2>1 DEF Contract!QNext
<1>4. ASSUME tears' = 0, tears = 0, rtc.magic, InPlace(rtc), rtc'.magic,
             NEW s \in Samples, Stores(s)
      PROVE  Contract!QNext
  <2>0. /\ Shape(rtc) /\ InRing(rtc) /\ Placed(rtc) /\ Named(rtc) /\ Timed(rtc) /\ rtc.count \in Nat
    BY <1>4, RingReady DEF RingInv, NamesInv, TimesInv, InRing
  <2>1. /\ Len(Queue(rtc)) = rtc.count /\ (Queue(rtc) = <<>> <=> rtc.count = 0)
    BY <2>0, QueueIs
  <2>2. Contract!Evicts(s) <=> \/ s.tag \notin NamesOf(rtc) /\ Cardinality(FreeOf(rtc)) = 0
                               \/ Queue(rtc) # <<>> /\ (s.timestamp - rtc.tail_t) % TimeMod > MaxDelta
    BY <1>4 DEF Contract!Evicts, Queue, NamesOf, FreeOf
  <2>3. Contract!Evicts(s) <=> Restarts(rtc, s) BY <2>0, <2>1, <2>2, RestartsIs
  <2> DEFINE x == [value |-> s.value % ValueMod, tag |-> s.tag]
  <2>4. Append(<<>>, x) = <<x>> OBVIOUS
  <2>5. Contract!QPut(s) <=>
          /\ Queue(rtc') = IF Contract!Evicts(s) THEN <<x>>
                           ELSE Append(IF Len(Queue(rtc)) = Capacity(rtc) THEN Tail(Queue(rtc))
                                       ELSE Queue(rtc), x)
          /\ NamesOf(rtc') = (IF Contract!Evicts(s) THEN {} ELSE NamesOf(rtc)) \cup {s.tag}
          /\ rtc'.tail_t = s.timestamp
          /\ Capacity(rtc') = Capacity(rtc)
    BY <1>4 DEF Contract!QPut, Queue, NamesOf
  <2>6. Contract!QPut(s) BY <1>4, <2>1, <2>3, <2>4, <2>5 DEF Stores
  <2> QED BY <1>4, <2>6 DEF Contract!QNext
<1>5. ASSUME tears' = 0, tears = 0, rtc.magic, rtc'.magic, NEW n \in Drops \cup {1}, Loses(n)
      PROVE  Contract!QNext
  <2>1. Contract!QDrop(n) <=>
          /\ Queue(rtc') = SubSeq(Queue(rtc), n + 1, Len(Queue(rtc)))
          /\ rtc'.tail_t = rtc.tail_t /\ NamesOf(rtc') = NamesOf(rtc)
          /\ Cardinality(FreeOf(rtc')) = Cardinality(FreeOf(rtc))
          /\ Capacity(rtc') = Capacity(rtc)
    BY <1>5 DEF Contract!QDrop, Queue, NamesOf, FreeOf
  <2>2. Contract!QDrop(n) BY <1>5, <2>1 DEF Loses
  <2> QED BY <1>5, <2>2 DEF Contract!QNext
<1> QED BY <1>1, <1>2, <1>3, <1>4, <1>5, ContentNext

\* For every location that holds the default head, ring size, name table, clock
\* and delta width: as long as no operation is interrupted the control block, the
\* table of names and the ring are a bounded queue of samples, which loses its
\* oldest sample when it is full and all of them for the two reasons the
\* documentation gives.  (At another location the FIFO stays empty until the next
\* prepare(): its operations are not modelled there.)
THEOREM SamplesImplementFifo == Spec => ImplementsFifo
<1>1. Init => ~rtc.magic
  <2> SUFFICES ASSUME Init PROVE ~rtc.magic OBVIOUS
  <2>1. PICK t, r :
          rtc = [magic |-> FALSE, begin |-> 0, end |-> 0, tagcount |-> 0, count |-> 0,
                 head |-> 0, tail |-> 0, head_t |-> 0, tail_t |-> 0, tags |-> t, ring |-> r]
    BY Zenon DEF Init
  <2> QED BY <2>1
<1>2. Init => TimesInv /\ NamesInv BY <1>1 DEF TimesInv, NamesInv
<1>3. Init => Contract!QInit BY <1>1 DEF Contract!QInit
<1>4. RingInv /\ TimesInv /\ NamesInv /\ [Next]_vars => [Contract!QNext]_(Contract!cvars)
  BY ContractNext
<1> QED
  BY <1>2, <1>3, <1>4, TimesNext, NamesNext, RingAlways, PTL DEF Spec, ImplementsFifo, Contract!QSpec
=============================================================================
