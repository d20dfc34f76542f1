------------------------- MODULE MqttReceiveProofs -------------------------
(***************************************************************************)
(* Proofs about MqttReceive, for any messages, any lengths and any cut of  *)
(* the stream into segments that does not divide the length of a message.  *)
(***************************************************************************)
EXTENDS MqttReceive, TLAPS

Message == [start : Nat, rem : Nat, qos : 0..2, id : Nat]

\* The id lies within the message, and the length in four bytes.
Good(m) == m.id <= m.rem /\ m.rem < Span[4]

End(m) == m.start + Total(m)

\* Messages follow each other without a gap.
StreamInv ==
  /\ stream \in Seq(Message)
  /\ \A i \in 1..Len(stream) : Good(stream[i])
  /\ \A i, j \in 1..Len(stream) : i < j => End(stream[i]) <= stream[j].start
  /\ \A i \in 1..Len(stream) : i + 1 \in 1..Len(stream) => stream[i + 1].start = End(stream[i])

\* The first byte of the message to be handled next.
place == IF Len(handled) < Len(stream) THEN stream[Len(handled) + 1].start ELSE sent

\* What has been handled is what was sent first.
HandledInv ==
  /\ handled \in Seq([start : Nat, whole : BOOLEAN])
  /\ Len(handled) <= Len(stream)
  /\ \A i \in 1..Len(handled) :
       /\ handled[i].start = stream[i].start
       /\ handled[i].whole = (Total(stream[i]) <= max_message_length)

\* While a segment is read: what is left of it, or the message it completed.
ReadingInv ==
  /\ state = "NORMAL"
  /\ in_buffer.from = place
  /\ rest = NoBuffer => /\ in_buffer = Bytes(place, got) /\ place <= got
                        /\ recv_buffer = NoBuffer
  /\ rest # NoBuffer => /\ Len(handled) < Len(stream)
                        /\ Total(stream[Len(handled) + 1]) <= max_message_length
                        /\ in_buffer = Bytes(place, End(stream[Len(handled) + 1]))
                        /\ recv_buffer = in_buffer /\ size = Total(stream[Len(handled) + 1])
                        /\ rest = Bytes(End(stream[Len(handled) + 1]), got)
                        /\ End(stream[Len(handled) + 1]) <= got

\* Between segments: what is kept of the message to be handled next, or what
\* is to be skipped of the one before it.
WaitingInv ==
  /\ rest = NoBuffer
  /\ state = "NORMAL" => recv_buffer = NoBuffer /\ place = got
  /\ state = "SHORT" => /\ recv_buffer = Bytes(place, got) /\ size = got - place
                        /\ Len(handled) < Len(stream)
                        /\ place < got /\ got < End(stream[Len(handled) + 1])
  /\ state = "BUFFERING" => /\ recv_buffer = Bytes(place, got)
                            /\ Len(handled) < Len(stream)
                            /\ size = Total(stream[Len(handled) + 1])
                            /\ size <= max_message_length
                            /\ place < got /\ got < End(stream[Len(handled) + 1])
  /\ state = "SKIPPING" => /\ recv_buffer = NoBuffer
                           /\ size \in Nat \ {0} /\ place = got + size

\* Nothing is kept without a connection.
DownInv == state = "NORMAL" /\ recv_buffer = NoBuffer /\ rest = NoBuffer /\ ~reading

TypeInv ==
  /\ up \in BOOLEAN /\ reading \in BOOLEAN
  /\ got \in Nat /\ got <= sent /\ ~WithinLength(got)
  /\ state \in {"NORMAL", "SHORT", "BUFFERING", "SKIPPING"}

IInv ==
  /\ TypeInv
  /\ StreamInv
  /\ HandledInv
  /\ up /\ reading => ReadingInv
  /\ up /\ ~reading => WaitingInv
  /\ ~up => DownInv

-----------------------------------------------------------------------------
(* Lengths. *)

\* The numbers that fit into one to four bytes.
LEMMA SpanNat == Span \in [1..4 -> Nat] /\ Span[1] \in Nat /\ Span[2] \in Nat /\ Span[3] \in Nat /\ Span[4] \in Nat
<1> DEFINE B == LENGTH_BASE
<1>1. B \in Nat BY ReceiveAssumption
<1>2. B * B \in Nat BY <1>1
<1>3. (B * B) * B \in Nat BY <1>1, <1>2
<1>4. ((B * B) * B) * B \in Nat BY <1>1, <1>3
<1>5. Span = <<B, B * B, B * B * B, B * B * B * B>> BY DEF Span
<1> HIDE DEF B
<1> QED BY <1>1, <1>2, <1>3, <1>4, <1>5

\* A length of up to four bytes has a number of bytes, and fits into them.
LEMMA LenBytesFits ==
  ASSUME NEW r \in Nat, r < Span[4]
  PROVE  LenBytes(r) \in 1..4 /\ r < Span[LenBytes(r)]
<1> DEFINE Q(n) == r < Span[n] /\ \A k \in 1..(n - 1) : r >= Span[k]
<1>1. \E n \in 1..4 : Q(n)
  <2>1. CASE r < Span[1] BY <2>1, SpanNat
  <2>2. CASE r >= Span[1] /\ r < Span[2]
    <3>1. \A k \in 1..(2 - 1) : r >= Span[k] BY <2>2, SpanNat
    <3> QED BY <3>1, <2>2
  <2>3. CASE r >= Span[1] /\ r >= Span[2] /\ r < Span[3]
    <3>1. \A k \in 1..(3 - 1) : k = 1 \/ k = 2 OBVIOUS
    <3>2. \A k \in 1..(3 - 1) : r >= Span[k] BY <2>3, <3>1
    <3> QED BY <3>2, <2>3
  <2>4. CASE r >= Span[1] /\ r >= Span[2] /\ r >= Span[3]
    <3>1. \A k \in 1..(4 - 1) : k = 1 \/ k = 2 \/ k = 3 OBVIOUS
    <3>2. \A k \in 1..(4 - 1) : r >= Span[k] BY <2>4, <3>1
    <3> QED BY <3>2
  <2> QED BY <2>1, <2>2, <2>3, <2>4, SpanNat
<1>2. LenBytes(r) = CHOOSE n \in 1..4 : Q(n) BY DEF LenBytes
<1> HIDE DEF Q
<1>3. LenBytes(r) \in 1..4 /\ Q(LenBytes(r)) BY <1>1, <1>2
<1> QED BY <1>3 DEF Q

\* The length of a message is known from its first byte not at all, and from
\* its length bytes on exactly.
LEMMA LengthKnown ==
  ASSUME NEW m \in Message, Good(m), NEW n \in Nat \ {0}
  PROVE  /\ n = 1 => mqtt_get_total_length(m, n) = -1
         /\ n >= 1 + LenBytes(m.rem) => mqtt_get_total_length(m, n) = Total(m)
         /\ Total(m) \in Nat /\ Total(m) >= 2 /\ Total(m) >= 1 + LenBytes(m.rem) + m.id
         /\ LenBytes(m.rem) \in 1..4
<1>1. m.rem \in Nat /\ m.id \in Nat /\ m.id <= m.rem /\ m.rem < Span[4] BY DEF Message, Good
<1>2. LenBytes(m.rem) \in 1..4 /\ m.rem < Span[LenBytes(m.rem)] BY <1>1, LenBytesFits
<1>3. Span[LenBytes(m.rem)] \in Nat BY <1>2, SpanNat
<1>4. m.rem % Span[LenBytes(m.rem)] = m.rem BY <1>1, <1>2, <1>3
<1>5. n = 1 => mqtt_get_total_length(m, n) = -1 BY DEF mqtt_get_total_length
<1>6. ASSUME n >= 1 + LenBytes(m.rem) PROVE mqtt_get_total_length(m, n) = Total(m)
  <2>1. n # 1 /\ ~(n - 1 < LenBytes(m.rem)) BY <1>2, <1>6
  <2>2. mqtt_get_total_length(m, n) = (m.rem % Span[LenBytes(m.rem)]) + 1 + LenBytes(m.rem)
    BY <2>1 DEF mqtt_get_total_length
  <2> QED BY <2>2, <1>4, <1>1, <1>2 DEF Total
<1> QED BY <1>1, <1>2, <1>5, <1>6 DEF Total

-----------------------------------------------------------------------------
(* Places in the stream. *)

\* A message of the stream: where it begins and ends.
LEMMA MessageAt ==
  ASSUME StreamInv, NEW i \in 1..Len(stream)
  PROVE  /\ stream[i] \in Message /\ Good(stream[i])
         /\ stream[i].start \in Nat /\ stream[i].rem \in Nat
         /\ Total(stream[i]) \in Nat /\ Total(stream[i]) >= 2
         /\ LenBytes(stream[i].rem) \in 1..4
         /\ End(stream[i]) \in Nat /\ stream[i].start < End(stream[i])
<1>1. stream[i] \in Message /\ Good(stream[i]) BY DEF StreamInv
<1>2. stream[i].start \in Nat /\ stream[i].rem \in Nat BY <1>1 DEF Message
<1>3. Total(stream[i]) \in Nat /\ Total(stream[i]) >= 2 /\ LenBytes(stream[i].rem) \in 1..4
  <2>1. 1 \in Nat \ {0} OBVIOUS
  <2> QED BY <1>1, <2>1, LengthKnown
<1> QED BY <1>1, <1>2, <1>3 DEF End

\* No message ends behind what was sent.
LEMMA SentLast ==
  ASSUME StreamInv
  PROVE  /\ sent \in Nat
         /\ \A i \in 1..Len(stream) : End(stream[i]) <= sent
<1>0. Len(stream) \in Nat BY DEF StreamInv
<1>1. CASE stream = <<>>
  <2>1. sent = 0 /\ Len(stream) = 0 BY <1>1 DEF sent
  <2> QED BY <2>1
<1>2. CASE stream # <<>>
  <2>1. Len(stream) \in 1..Len(stream) BY <1>2, <1>0 DEF StreamInv
  <2>2. sent = End(stream[Len(stream)]) BY <1>2 DEF sent, End
  <2>3. sent \in Nat BY <2>1, <2>2, MessageAt
  <2>4. ASSUME NEW i \in 1..Len(stream) PROVE End(stream[i]) <= sent
    <3>1. CASE i = Len(stream) BY <3>1, <2>2, <2>3
    <3>2. CASE i < Len(stream)
      <4>1. End(stream[i]) <= stream[Len(stream)].start BY <3>2, <2>1 DEF StreamInv
      <4>2. stream[Len(stream)].start < End(stream[Len(stream)]) /\ stream[Len(stream)].start \in Nat
        BY <2>1, MessageAt
      <4>3. End(stream[i]) \in Nat BY MessageAt
      <4> QED BY <4>1, <4>2, <4>3, <2>2, <2>3
    <3> QED BY <3>1, <3>2, <1>0
  <2> QED BY <2>3, <2>4
<1> QED BY <1>1, <1>2

\* The message to be handled next is the only one that begins at its place.
LEMMA NextMessage ==
  ASSUME StreamInv, HandledInv
  PROVE  /\ place \in Nat /\ place <= sent
         /\ Len(handled) \in Nat /\ Len(stream) \in Nat
         /\ Len(handled) < Len(stream) => Len(handled) + 1 \in 1..Len(stream)
         /\ Len(handled) < Len(stream) => place = stream[Len(handled) + 1].start
         /\ \A i \in 1..Len(stream) : stream[i].start = place =>
              Len(handled) < Len(stream) /\ i = Len(handled) + 1
<1> DEFINE H == Len(handled)
<1>1. H \in Nat /\ Len(stream) \in Nat /\ H <= Len(stream) BY DEF HandledInv, StreamInv
<1>2. sent \in Nat /\ \A i \in 1..Len(stream) : End(stream[i]) <= sent BY SentLast
<1>3. CASE H < Len(stream)
  <2>1. H + 1 \in 1..Len(stream) BY <1>1, <1>3
  <2>2. place = stream[H + 1].start BY <1>3 DEF place
  <2>3. place \in Nat /\ place < End(stream[H + 1]) /\ End(stream[H + 1]) \in Nat
    BY <2>1, <2>2, MessageAt
  <2>4. place <= sent BY <2>1, <2>3, <1>2
  <2>5. ASSUME NEW i \in 1..Len(stream), stream[i].start = place PROVE i = H + 1
    <3>1. CASE i < H + 1
      <4>1. End(stream[i]) <= stream[H + 1].start BY <3>1, <2>1 DEF StreamInv
      <4>2. stream[i].start < End(stream[i]) /\ End(stream[i]) \in Nat BY MessageAt
      <4> QED BY <4>1, <4>2, <2>2, <2>3, <2>5
    <3>2. CASE H + 1 < i
      <4>1. End(stream[H + 1]) <= stream[i].start BY <3>2, <2>1 DEF StreamInv
      <4> QED BY <4>1, <2>2, <2>3, <2>5
    <3> QED BY <3>1, <3>2, <1>1
  <2> QED BY <1>1, <1>3, <2>1, <2>2, <2>3, <2>4, <2>5
<1>4. CASE ~(H < Len(stream))
  <2>1. place = sent BY <1>4 DEF place
  <2>2. ASSUME NEW i \in 1..Len(stream), stream[i].start = place PROVE FALSE
    <3>1. stream[i].start < End(stream[i]) /\ End(stream[i]) \in Nat BY MessageAt
    <3>2. End(stream[i]) <= sent BY <1>2
    <3> QED BY <3>1, <3>2, <2>1, <2>2, <1>2
  <2> QED BY <1>1, <1>2, <1>4, <2>1, <2>2
<1> QED BY <1>3, <1>4

\* A cut of the stream does not divide the length of a message.
LEMMA Undivided ==
  ASSUME StreamInv, got \in Nat, ~WithinLength(got), NEW i \in 1..Len(stream),
         stream[i].start < got
  PROVE  \/ got - stream[i].start = 1
         \/ got - stream[i].start >= 1 + LenBytes(stream[i].rem)
<1>1. stream[i].start \in Nat /\ LenBytes(stream[i].rem) \in 1..4 BY MessageAt
<1>2. ~(stream[i].start + 1 < got /\ got < stream[i].start + 1 + LenBytes(stream[i].rem))
  BY DEF WithinLength
<1> QED BY <1>1, <1>2

\* Nothing of this depends on the segments.
LEMMA Unmoved ==
  ASSUME StreamInv, HandledInv, UNCHANGED <<stream, handled>>
  PROVE  /\ StreamInv' /\ HandledInv' /\ place' = place /\ sent' = sent
         /\ WithinLength(got)' <=> WithinLength(got')
<1>1. StreamInv' BY DEF StreamInv
<1>2. HandledInv' BY DEF HandledInv
<1>3. sent' = sent BY DEF sent
<1>4. place' = place BY <1>3 DEF place
<1>5. WithinLength(got)' <=> WithinLength(got') BY DEF WithinLength
<1> QED BY <1>1, <1>2, <1>3, <1>4, <1>5

-----------------------------------------------------------------------------
(* The message at the place is handled. *)

\* Then the next one is the one behind it.
LEMMA Handling ==
  ASSUME StreamInv, HandledInv, Len(handled) < Len(stream), UNCHANGED stream,
         NEW w \in BOOLEAN, w = (Total(stream[Len(handled) + 1]) <= max_message_length),
         handled' = Append(handled, [start |-> stream[Len(handled) + 1].start, whole |-> w])
  PROVE  /\ StreamInv' /\ HandledInv' /\ sent' = sent
         /\ place' = End(stream[Len(handled) + 1])
         /\ WithinLength(got)' <=> WithinLength(got')
<1> DEFINE H == Len(handled)
           note == [start |-> stream[H + 1].start, whole |-> w]
<1>1. StreamInv' /\ sent' = sent BY DEF StreamInv, sent
<1>2. WithinLength(got)' <=> WithinLength(got') BY DEF WithinLength
<1>3. H \in Nat /\ Len(stream) \in Nat /\ H + 1 \in 1..Len(stream) BY NextMessage
<1>4. stream[H + 1].start \in Nat BY <1>3, MessageAt
<1>5. note \in [start : Nat, whole : BOOLEAN] BY <1>4
<1>6. /\ handled' \in Seq([start : Nat, whole : BOOLEAN]) /\ Len(handled') = H + 1
      /\ handled'[H + 1] = note /\ \A i \in 1..H : handled'[i] = handled[i]
  <2> HIDE DEF note
  <2>1. handled \in Seq([start : Nat, whole : BOOLEAN]) BY DEF HandledInv
  <2>2. handled' = Append(handled, note) BY DEF note
  <2> QED BY <2>1, <2>2, <1>5
<1>7. HandledInv'
  <2>1. Len(handled') <= Len(stream') BY <1>3, <1>6
  <2>2. ASSUME NEW i \in 1..Len(handled')
        PROVE  /\ handled'[i].start = stream'[i].start
               /\ handled'[i].whole = (Total(stream'[i]) <= max_message_length)
    <3>1. CASE i = H + 1 BY <3>1, <1>6
    <3>2. CASE i # H + 1
      <4>1. i \in 1..H BY <3>2, <1>3, <1>6
      <4>2. /\ handled[i].start = stream[i].start
            /\ handled[i].whole = (Total(stream[i]) <= max_message_length)
        BY <4>1 DEF HandledInv
      <4> QED BY <4>1, <4>2, <1>6
    <3> QED BY <3>1, <3>2
  <2> QED BY <2>1, <2>2, <1>6 DEF HandledInv, Total
<1>8. place' = End(stream[H + 1])
  <2>1. CASE H + 1 < Len(stream)
    <3>1. H + 1 + 1 \in 1..Len(stream) BY <2>1, <1>3
    <3>2. place' = stream[H + 1 + 1].start BY <2>1, <1>6 DEF place
    <3> QED BY <3>1, <3>2, <1>3 DEF StreamInv
  <2>2. CASE ~(H + 1 < Len(stream))
    <3>1. H + 1 = Len(stream) /\ stream # <<>> BY <2>2, <1>3
    <3>2. place' = sent BY <2>2, <1>6, <1>1 DEF place
    <3> QED BY <3>1, <3>2 DEF sent, End
  <2> QED BY <2>1, <2>2
<1> QED BY <1>1, <1>2, <1>7, <1>8

-----------------------------------------------------------------------------
(* The actions. *)

\* Before the first connection nothing is kept.
LEMMA InitIInv == Init => IInv
<1> SUFFICES ASSUME Init PROVE IInv OBVIOUS
<1>1. stream = <<>> /\ handled = <<>> /\ got = 0 BY DEF Init
<1>2. stream \in Seq(Message) /\ Len(stream) = 0 BY <1>1
<1>3. handled \in Seq([start : Nat, whole : BOOLEAN]) /\ Len(handled) = 0 BY <1>1
<1>4. StreamInv BY <1>2 DEF StreamInv
<1>5. HandledInv BY <1>2, <1>3 DEF HandledInv
<1>6. sent = 0 BY <1>1 DEF sent
<1>7. ~WithinLength(got) BY <1>2 DEF WithinLength
<1>8. TypeInv
  <2>1. up \in BOOLEAN /\ reading \in BOOLEAN BY DEF Init
  <2>2. state \in {"NORMAL", "SHORT", "BUFFERING", "SKIPPING"} BY DEF Init
  <2>3. got \in Nat /\ got <= sent BY <1>1, <1>6
  <2> QED BY <2>1, <2>2, <2>3, <1>7 DEF TypeInv
<1>9. ~up /\ DownInv BY DEF Init, DownInv
<1> QED BY <1>4, <1>5, <1>8, <1>9 DEF IInv

\* A connection begins with nothing kept of the last one.
LEMMA ConnectedIInv == ASSUME IInv, Connected PROVE IInv'
<1>1. stream' = <<>> /\ handled' = <<>> /\ got' = 0 BY DEF Connected
<1>2. stream' \in Seq(Message) /\ Len(stream') = 0 BY <1>1
<1>3. handled' \in Seq([start : Nat, whole : BOOLEAN]) /\ Len(handled') = 0 BY <1>1
<1>4. StreamInv' BY <1>2 DEF StreamInv
<1>5. HandledInv' BY <1>2, <1>3 DEF HandledInv
<1>6. sent' = 0 /\ place' = 0 BY <1>1, <1>2, <1>3 DEF sent, place
<1>7. ~WithinLength(got)' BY <1>2 DEF WithinLength
<1>8. DownInv /\ up' = TRUE /\ UNCHANGED <<heap, in_buffer, rest, reading>>
  BY DEF IInv, Connected
<1>9. TypeInv'
  <2>1. up' \in BOOLEAN /\ reading' \in BOOLEAN BY <1>8 DEF IInv, TypeInv
  <2>2. state' \in {"NORMAL", "SHORT", "BUFFERING", "SKIPPING"} BY <1>8 DEF DownInv, heap
  <2>3. got' \in Nat /\ got' <= sent' BY <1>1, <1>6
  <2> QED BY <2>1, <2>2, <2>3, <1>7 DEF TypeInv
<1>10. WaitingInv' /\ ~reading' BY <1>1, <1>6, <1>8 DEF WaitingInv, DownInv, heap
<1> QED BY <1>4, <1>5, <1>8, <1>9, <1>10 DEF IInv

\* Whatever ends the connection leaves nothing.
LEMMA DownIInv ==
  ASSUME IInv, UNCHANGED <<stream, got, handled>>, up' = FALSE, reading' = FALSE,
         rest' = NoBuffer, state' = "NORMAL", recv_buffer' = NoBuffer
  PROVE  IInv'
<1>1. StreamInv' /\ HandledInv' /\ sent' = sent /\ (WithinLength(got)' <=> WithinLength(got'))
  BY Unmoved DEF IInv
<1>2. TypeInv' BY <1>1 DEF IInv, TypeInv
<1>3. DownInv' BY DEF DownInv
<1> QED BY <1>1, <1>2, <1>3 DEF IInv

\* Between segments there is no rest of one to lose.
LEMMA DisconnectedIInv == ASSUME IInv, mqtt_socket_disconnected PROVE IInv'
<1>1. rest = NoBuffer /\ reading = FALSE
  BY DEF IInv, TypeInv, WaitingInv, mqtt_socket_disconnected
<1> QED BY <1>1, DownIInv DEF mqtt_socket_disconnected

\* A segment that cannot be joined ends the connection.
LEMMA SegmentFailsIInv == ASSUME IInv, SegmentFails PROVE IInv'
<1>1. rest = NoBuffer /\ reading = FALSE BY DEF IInv, TypeInv, WaitingInv, SegmentFails
<1> QED BY <1>1, DownIInv DEF SegmentFails

\* What is sent comes behind everything, so that no place moves.
LEMMA BrokerSendsIInv ==
  ASSUME IInv, NEW k \in Kinds, BrokerSends(k)
  PROVE  IInv'
<1> DEFINE L == Len(stream)
           m == [start |-> sent, rem |-> k.rem, qos |-> k.qos, id |-> k.id]
<1>1. TypeInv /\ StreamInv /\ HandledInv BY DEF IInv
<1>2. L \in Nat /\ Len(handled) \in Nat /\ Len(handled) <= L BY <1>1 DEF StreamInv, HandledInv
<1>3. sent \in Nat /\ \A i \in 1..L : End(stream[i]) <= sent BY <1>1, SentLast
<1>4. m \in Message /\ m.start = sent
  <2>1. k.rem \in Nat /\ k.qos \in 0..2 /\ k.id \in Nat BY ReceiveAssumption
  <2> QED BY <2>1, <1>3 DEF Message
<1>5. Good(m)
  <2>1. k.id <= k.rem /\ k.rem < LENGTH_BASE * LENGTH_BASE * LENGTH_BASE * LENGTH_BASE
    BY ReceiveAssumption
  <2>2. Span[4] = LENGTH_BASE * LENGTH_BASE * LENGTH_BASE * LENGTH_BASE BY DEF Span
  <2> QED BY <2>1, <2>2 DEF Good
<1>6. UNCHANGED <<up, got, heap, in_buffer, rest, reading, handled>> BY DEF BrokerSends
<1> HIDE DEF m
<1>7. /\ stream' \in Seq(Message) /\ Len(stream') = L + 1 /\ stream' # <<>>
      /\ stream'[L + 1] = m /\ \A i \in 1..L : stream'[i] = stream[i]
  <2>1. stream' = Append(stream, m) BY DEF BrokerSends, m
  <2>2. stream \in Seq(Message) BY <1>1 DEF StreamInv
  <2>3. m \in Message BY <1>4
  <2>4. stream' \in Seq(Message) /\ Len(stream') = L + 1 BY <2>1, <2>2, <2>3
  <2>5. stream'[L + 1] = m /\ \A i \in 1..L : stream'[i] = stream[i] BY <2>1, <2>2, <2>3
  <2>6. stream' # <<>> BY <2>4, <1>2
  <2> QED BY <2>4, <2>5, <2>6
<1>8. ASSUME NEW i \in 1..(L + 1), i \notin 1..L PROVE i = L + 1 BY <1>2, <1>8
<1>9. StreamInv'
  <2>1. \A i \in 1..(L + 1) : Good(stream'[i]) BY <1>5, <1>7, <1>8, <1>1 DEF StreamInv
  <2>2. ASSUME NEW i \in 1..(L + 1), NEW j \in 1..(L + 1), i < j
        PROVE  End(stream'[i]) <= stream'[j].start
    <3>1. i \in 1..L /\ stream'[i] = stream[i] BY <2>2, <1>2, <1>7
    <3>2. CASE j \in 1..L
      <4>1. End(stream[i]) <= stream[j].start BY <3>1, <3>2, <2>2, <1>1 DEF StreamInv
      <4> QED BY <4>1, <3>1, <3>2, <1>7
    <3>3. CASE j = L + 1 BY <3>1, <3>3, <1>7, <1>4, <1>3
    <3> QED BY <3>2, <3>3, <1>8
  <2>3. ASSUME NEW i \in 1..(L + 1), i + 1 \in 1..(L + 1)
        PROVE  stream'[i + 1].start = End(stream'[i])
    <3>1. i \in 1..L /\ stream'[i] = stream[i] BY <2>3, <1>2, <1>7
    <3>2. CASE i + 1 \in 1..L
      <4>1. stream[i + 1].start = End(stream[i]) BY <3>1, <3>2, <1>1 DEF StreamInv
      <4> QED BY <4>1, <3>1, <3>2, <1>7
    <3>3. CASE i + 1 = L + 1
      <4>1. i = L /\ stream # <<>> BY <3>3, <3>1, <1>2
      <4>2. sent = End(stream[L]) BY <4>1 DEF sent, End
      <4> QED BY <4>1, <4>2, <3>1, <3>3, <1>7, <1>4
    <3> QED BY <3>2, <3>3, <1>8, <2>3
  <2> QED BY <2>1, <2>2, <2>3, <1>7 DEF StreamInv, Good, End, Total
<1>10. HandledInv'
  <2>1. ASSUME NEW i \in 1..Len(handled)
        PROVE  /\ handled[i].start = stream'[i].start
               /\ handled[i].whole = (Total(stream'[i]) <= max_message_length)
    <3>1. i \in 1..L BY <1>2
    <3>2. stream'[i] = stream[i] BY <3>1, <1>7
    <3> QED BY <3>2, <1>1 DEF HandledInv
  <2>2. handled' \in Seq([start : Nat, whole : BOOLEAN]) BY <1>1, <1>6 DEF HandledInv
  <2>3. Len(handled') <= Len(stream') BY <1>2, <1>6, <1>7
  <2> QED BY <2>1, <2>2, <2>3, <1>6 DEF HandledInv, Total
<1>11. sent' = sent + Total(m) /\ Total(m) \in Nat
  <2>1. sent' = End(m) BY <1>7 DEF sent, End, Total
  <2>2. Total(m) \in Nat
    <3>1. L + 1 \in 1..Len(stream') BY <1>2, <1>7
    <3>2. 1 \in Nat \ {0} OBVIOUS
    <3> QED BY <3>2, <1>4, <1>5, LengthKnown
  <2> QED BY <2>1, <2>2, <1>4 DEF End
<1>12. place' = place
  <2>1. CASE Len(handled) < L
    <3>1. Len(handled) + 1 \in 1..L /\ Len(handled) < L + 1 BY <2>1, <1>2
    <3> QED BY <3>1, <2>1, <1>6, <1>7 DEF place
  <2>2. CASE ~(Len(handled) < L)
    <3>1. Len(handled) = L /\ L < L + 1 BY <2>2, <1>2
    <3>2. place = sent BY <2>2 DEF place
    <3>3. place' = stream'[L + 1].start BY <3>1, <1>6, <1>7 DEF place
    <3> QED BY <3>2, <3>3, <1>4, <1>7
  <2> QED BY <2>1, <2>2
<1>13. Len(handled) < L => /\ Len(handled') < Len(stream')
                           /\ stream'[Len(handled') + 1] = stream[Len(handled) + 1]
  <2>1. Len(handled) < L => Len(handled) + 1 \in 1..L /\ Len(handled) < L + 1 BY <1>2
  <2> QED BY <2>1, <1>6, <1>7
<1>14. ~WithinLength(got)'
  <2>1. got \in Nat /\ got <= sent /\ ~WithinLength(got) BY <1>1 DEF TypeInv
  <2>2. ASSUME NEW i \in 1..(L + 1)
        PROVE  ~(stream'[i].start + 1 < got /\ got < stream'[i].start + 1 + LenBytes(stream'[i].rem))
    <3>1. CASE i \in 1..L BY <3>1, <2>1, <1>7 DEF WithinLength
    <3>2. CASE i = L + 1 BY <3>2, <2>1, <1>3, <1>4, <1>7
    <3> QED BY <3>1, <3>2, <1>8
  <2> QED BY <2>2, <1>6, <1>7 DEF WithinLength, LenBytes, Span
<1>15. TypeInv'
  <2>1. got' \in Nat /\ got' <= sent' BY <1>1, <1>3, <1>6, <1>11 DEF TypeInv
  <2>2. up' \in BOOLEAN /\ reading' \in BOOLEAN BY <1>1, <1>6 DEF TypeInv
  <2>3. state' \in {"NORMAL", "SHORT", "BUFFERING", "SKIPPING"} BY <1>1, <1>6 DEF TypeInv, heap
  <2> QED BY <2>1, <2>2, <2>3, <1>14 DEF TypeInv
<1>16. up' /\ reading' => ReadingInv'
  <2>1. ASSUME ReadingInv PROVE ReadingInv'
    BY <2>1, <1>6, <1>12, <1>13 DEF ReadingInv, heap, NoBuffer, Bytes, End, Total
  <2> QED BY <2>1, <1>6 DEF IInv
<1>17. up' /\ ~reading' => WaitingInv'
  <2>1. ASSUME WaitingInv PROVE WaitingInv'
    BY <2>1, <1>6, <1>12, <1>13 DEF WaitingInv, heap, NoBuffer, Bytes, End, Total
  <2> QED BY <2>1, <1>6 DEF IInv
<1>18. ~up' => DownInv' BY <1>6 DEF IInv, DownInv, heap
<1> QED BY <1>9, <1>10, <1>15, <1>16, <1>17, <1>18 DEF IInv

\* A segment continues what is kept, or what is skipped.
LEMMA SegmentIInv ==
  ASSUME IInv, SplitLength = FALSE, NEW n \in 1..(sent - got), Segment(n)
  PROVE  IInv'
<1> DEFINE seg == Bytes(got, got + n)
           m == stream[Len(handled) + 1]
<1>1. TypeInv /\ StreamInv /\ HandledInv BY DEF IInv
<1>2. up /\ ~reading /\ WaitingInv BY DEF IInv, Segment
<1>3. UNCHANGED <<up, stream, handled>> /\ got' = got + n BY DEF Segment
<1>4. got \in Nat /\ n \in Nat \ {0} /\ got + n <= sent /\ sent \in Nat
  <2>1. got \in Nat /\ sent \in Nat BY <1>1, SentLast DEF TypeInv
  <2> QED BY <2>1
<1>5. StreamInv' /\ HandledInv' /\ place' = place /\ sent' = sent /\ (WithinLength(got)' <=> WithinLength(got'))
  BY <1>1, <1>3, Unmoved
<1>6. ~WithinLength(got)' BY <1>3, <1>5 DEF Segment
<1>7. place \in Nat BY <1>1, NextMessage
<1>8. Len(handled) < Len(stream) => /\ place = m.start /\ Total(m) \in Nat /\ Total(m) >= 2
                                    /\ End(m) = place + Total(m)
  <2>1. ASSUME Len(handled) < Len(stream) PROVE Len(handled) + 1 \in 1..Len(stream) /\ place = m.start
    BY <2>1, <1>1, NextMessage
  <2>2. ASSUME Len(handled) < Len(stream) PROVE Total(m) \in Nat /\ Total(m) >= 2
    BY <2>1, <2>2, <1>1, MessageAt
  <2> QED BY <2>1, <2>2 DEF End
<1>9. Len(handled)' = Len(handled) /\ Len(stream)' = Len(stream) /\ stream'[Len(handled') + 1] = m
  BY <1>3
<1>10. Total(m)' = Total(m) /\ End(m)' = End(m) BY <1>3 DEF Total, End, LenBytes, Span
<1> HIDE DEF m
<1>11. ASSUME state' \in {"NORMAL", "SHORT", "BUFFERING", "SKIPPING"}, reading' \in BOOLEAN
       PROVE  TypeInv'
  <2>1. up' \in BOOLEAN BY <1>1, <1>3 DEF TypeInv
  <2>2. got' \in Nat /\ got' <= sent' BY <1>3, <1>4, <1>5
  <2> QED BY <1>6, <1>11, <2>1, <2>2 DEF TypeInv
<1>12. ASSUME state' = "NORMAL", reading' = TRUE, ReadingInv' PROVE IInv'
  <2>1. TypeInv' BY <1>11, <1>12
  <2> QED BY <1>2, <1>3, <1>5, <1>12, <2>1 DEF IInv
<1>13. ASSUME state' \in {"BUFFERING", "SKIPPING"}, reading' = reading, WaitingInv' PROVE IInv'
  <2>1. TypeInv' BY <1>1, <1>11, <1>13 DEF TypeInv
  <2> QED BY <1>2, <1>3, <1>5, <1>13, <2>1 DEF IInv
<1>14. ASSUME rest' = NoBuffer, in_buffer' = Bytes(place, got'), recv_buffer' = NoBuffer,
              place <= got', state' = "NORMAL", reading' = TRUE
       PROVE  IInv'
  <2>1. in_buffer'.from = place BY <1>14 DEF Bytes
  <2>2. ReadingInv' BY <1>14, <2>1, <1>5 DEF ReadingInv, NoBuffer, Bytes
  <2> QED BY <2>2, <1>12, <1>14
<1>15. CASE ReceiveNormal(seg)
  <2>1. recv_buffer = NoBuffer /\ place = got /\ rest = NoBuffer
    BY <1>2, <1>15 DEF ReceiveNormal, WaitingInv
  <2> QED BY <2>1, <1>14, <1>15, <1>3, <1>4 DEF ReceiveNormal, heap
<1>16. CASE ReceiveShort(seg)
  <2>1. recv_buffer = Bytes(place, got) /\ rest = NoBuffer /\ place < got
    BY <1>2, <1>16 DEF ReceiveShort, WaitingInv
  <2>2. in_buffer' = Bytes(place, got') BY <2>1, <1>16, <1>3 DEF ReceiveShort, Joined, Bytes
  <2> QED BY <2>1, <2>2, <1>14, <1>16, <1>3, <1>4, <1>7 DEF ReceiveShort
<1>17. CASE ReceiveBuffering(seg)
  <2>1. /\ recv_buffer = Bytes(place, got) /\ rest = NoBuffer
        /\ Len(handled) < Len(stream) /\ size = Total(m) /\ size <= max_message_length
        /\ place < got /\ got < End(m)
    BY <1>2, <1>17 DEF ReceiveBuffering, WaitingInv, m
  <2>2. Length(recv_buffer) = got - place /\ Length(seg) = n
    BY <2>1, <1>4 DEF Length, Bytes
  <2>3. End(m) = place + Total(m) /\ Total(m) \in Nat BY <2>1, <1>8
  <2>4. Completes(seg) <=> got + n >= End(m) BY <2>1, <2>2, <2>3, <1>4, <1>7 DEF Completes
  <2>5. CASE ~Completes(seg)
    <3>1. Copied(seg) = seg BY <2>5 DEF Copied
    <3>2. recv_buffer' = Bytes(place, got')
      BY <1>17, <2>1, <3>1, <1>3 DEF ReceiveBuffering, Joined, Bytes
    <3>3. UNCHANGED <<state, rest, reading, size>> /\ state = "BUFFERING"
      BY <1>17, <2>5 DEF ReceiveBuffering
    <3>4. got' < End(m) /\ place < got' BY <2>1, <2>3, <2>4, <2>5, <1>3, <1>4, <1>7
    <3>5. WaitingInv'
      BY <2>1, <3>2, <3>3, <3>4, <1>5, <1>9, <1>10 DEF WaitingInv, NoBuffer, Bytes, m
    <3> QED BY <3>3, <3>5, <1>13
  <2>6. CASE Completes(seg)
    <3>1. Copied(seg) = Bytes(got, End(m))
      <4>1. Copied(seg) = Bytes(seg.from, seg.from + size - Length(recv_buffer)) BY <2>6 DEF Copied
      <4>2. seg.from = got BY DEF Bytes
      <4>3. got + size - (got - place) = End(m) BY <2>1, <2>3, <1>4, <1>7
      <4> QED BY <4>1, <4>2, <4>3, <2>2
    <3>2. recv_buffer' = Bytes(place, End(m))
      BY <1>17, <2>1, <3>1 DEF ReceiveBuffering, Joined, Bytes
    <3>3. /\ in_buffer' = recv_buffer' /\ state' = "NORMAL" /\ reading' = TRUE
          /\ rest' = Bytes(Copied(seg).upto, seg.upto) /\ size' = size
      BY <1>17, <2>6 DEF ReceiveBuffering
    <3>4. rest' = Bytes(End(m), got') BY <3>1, <3>3, <1>3 DEF Bytes
    <3>5. rest' # NoBuffer
      <4>1. End(m) # -1 BY <2>3, <1>7
      <4> QED BY <4>1, <3>4 DEF NoBuffer, Bytes
    <3>6. End(m) <= got' BY <2>4, <2>6, <1>3, <2>3, <1>4, <1>7
    <3>7. in_buffer'.from = place BY <3>2, <3>3 DEF Bytes
    <3>8. ReadingInv'
      <4>1. rest' # NoBuffer' BY <3>5 DEF NoBuffer, Bytes
      <4> QED BY <2>1, <3>2, <3>3, <3>4, <3>6, <3>7, <4>1, <1>5, <1>9, <1>10
            DEF ReadingInv, Bytes, m
    <3> QED BY <3>3, <3>8, <1>12
  <2> QED BY <2>5, <2>6
<1>18. CASE ReceiveSkipping(seg)
  <2>1. /\ recv_buffer = NoBuffer /\ rest = NoBuffer /\ size \in Nat \ {0} /\ place = got + size
    BY <1>2, <1>18 DEF ReceiveSkipping, WaitingInv
  <2>2. Length(seg) = n BY <1>4 DEF Length, Bytes
  <2>3. CASE size > n
    <3>1. /\ size' = size - n /\ UNCHANGED <<state, reading, recv_buffer, rest>>
          /\ state = "SKIPPING"
      BY <1>18, <2>2, <2>3, <2>1, <1>4 DEF ReceiveSkipping
    <3>2. size' \in Nat \ {0} /\ place = got' + size' BY <2>1, <2>3, <3>1, <1>3, <1>4
    <3>3. WaitingInv' BY <2>1, <3>1, <3>2, <1>5 DEF WaitingInv, NoBuffer, Bytes
    <3> QED BY <3>1, <3>3, <1>13
  <2>4. CASE size <= n
    <3>1. /\ in_buffer' = Bytes(seg.from + size, seg.upto) /\ state' = "NORMAL" /\ reading' = TRUE
          /\ UNCHANGED <<recv_buffer, rest>>
      BY <1>18, <2>2, <2>4, <2>1, <1>4 DEF ReceiveSkipping
    <3>2. in_buffer' = Bytes(place, got') BY <3>1, <2>1, <1>3 DEF Bytes
    <3>3. place <= got' BY <2>1, <2>4, <1>3, <1>4
    <3> QED BY <3>1, <3>2, <3>3, <2>1, <1>14
  <2> QED BY <2>1, <2>3, <2>4, <1>4
<1> QED BY <1>15, <1>16, <1>17, <1>18 DEF Segment

\* Nothing is left of a segment: the place is where the next one begins.
LEMMA NothingLeftIInv == ASSUME IInv, NothingLeft PROVE IInv'
<1>1. TypeInv /\ StreamInv /\ HandledInv BY DEF IInv
<1>2. reading /\ Length(in_buffer) = 0 /\ reading' = FALSE
  BY DEF NothingLeft
<1>3. UNCHANGED <<up, stream, got, heap, in_buffer, rest, handled>> BY DEF NothingLeft
<1>4. up /\ ReadingInv BY <1>2 DEF IInv, DownInv
<1>5. StreamInv' /\ HandledInv' /\ place' = place /\ sent' = sent /\ (WithinLength(got)' <=> WithinLength(got'))
  BY <1>1, <1>3, Unmoved
<1>6. got \in Nat /\ place \in Nat BY <1>1, NextMessage DEF TypeInv
<1>7. rest = NoBuffer
  <2> SUFFICES ASSUME rest # NoBuffer PROVE FALSE OBVIOUS
  <2> DEFINE m == stream[Len(handled) + 1]
  <2>1. Len(handled) < Len(stream) /\ in_buffer = Bytes(place, End(m)) BY <1>4 DEF ReadingInv
  <2>2. Len(handled) + 1 \in 1..Len(stream) /\ place = m.start BY <2>1, <1>1, NextMessage
  <2>3. place < End(m) /\ End(m) \in Nat BY <2>2, <1>1, MessageAt
  <2>4. Length(in_buffer) = End(m) - place BY <2>1 DEF Length, Bytes
  <2> QED BY <2>3, <2>4, <1>2, <1>6
<1>8. recv_buffer = NoBuffer /\ place = got /\ state = "NORMAL"
  <2>1. recv_buffer = NoBuffer /\ in_buffer = Bytes(place, got) /\ state = "NORMAL"
    BY <1>4, <1>7 DEF ReadingInv
  <2>2. Length(in_buffer) = got - place BY <2>1 DEF Length, Bytes
  <2> QED BY <2>1, <2>2, <1>2, <1>6
<1>9. WaitingInv' BY <1>3, <1>5, <1>7, <1>8 DEF WaitingInv, heap, NoBuffer, Bytes
<1>10. TypeInv' BY <1>1, <1>2, <1>3, <1>5 DEF TypeInv, heap
<1> QED BY <1>2, <1>3, <1>4, <1>5, <1>9, <1>10 DEF IInv

\* What the bytes read tell of the length of the message at the place: nothing
\* from its first byte, else all of it. A message that was completed is known
\* and not too long.
LEMMA ReadFacts ==
  ASSUME IInv, up, reading, Length(in_buffer) > 0,
         NEW i \in 1..Len(stream), stream[i].start = in_buffer.from
  PROVE  /\ StreamInv /\ HandledInv /\ ReadingInv
         /\ Len(handled) < Len(stream) /\ i = Len(handled) + 1
         /\ place = stream[i].start /\ place \in Nat /\ got \in Nat
         /\ Total(stream[i]) \in Nat /\ Total(stream[i]) >= 2 /\ End(stream[i]) = place + Total(stream[i])
         /\ Length(in_buffer) \in Nat \ {0}
         /\ rest = NoBuffer => Length(in_buffer) = got - place
         /\ rest # NoBuffer => Length(in_buffer) = Total(stream[i])
         /\ \/ /\ Length(in_buffer) = 1
               /\ mqtt_get_total_length(stream[i], Length(in_buffer)) = -1
            \/ mqtt_get_total_length(stream[i], Length(in_buffer)) = Total(stream[i])
         /\ ~mqtt_get_id(stream[i], Length(in_buffer)) => Length(in_buffer) < Total(stream[i])
         /\ rest # NoBuffer => mqtt_get_total_length(stream[i], Length(in_buffer)) = Total(stream[i])
<1> DEFINE m == stream[i]
           n == Length(in_buffer)
<1>1. TypeInv /\ StreamInv /\ HandledInv /\ ReadingInv BY DEF IInv
<1>2. in_buffer.from = place BY <1>1 DEF ReadingInv
<1>3. /\ Len(handled) < Len(stream) /\ i = Len(handled) + 1 /\ place = m.start
      /\ place \in Nat /\ got \in Nat
  BY <1>1, <1>2, NextMessage DEF TypeInv
<1>4. /\ m \in Message /\ Good(m) /\ m.rem \in Nat /\ Total(m) \in Nat /\ Total(m) >= 2
      /\ LenBytes(m.rem) \in 1..4 /\ End(m) = place + Total(m)
  <2>1. /\ m \in Message /\ Good(m) /\ m.rem \in Nat /\ Total(m) \in Nat /\ Total(m) >= 2
        /\ LenBytes(m.rem) \in 1..4
    BY <1>1, MessageAt
  <2> QED BY <2>1, <1>3 DEF End
<1>5. rest = NoBuffer => n = got - place BY <1>1 DEF ReadingInv, Length, Bytes
<1>6. rest # NoBuffer => n = Total(m)
  <2>1. rest # NoBuffer => in_buffer = Bytes(place, End(m)) BY <1>1, <1>3 DEF ReadingInv
  <2>2. rest # NoBuffer => n = End(m) - place BY <2>1 DEF Length, Bytes
  <2> QED BY <2>2, <1>3, <1>4
<1>7. n \in Nat \ {0} BY <1>3, <1>4, <1>5, <1>6
<1>8. n = 1 \/ n >= 1 + LenBytes(m.rem)
  <2>1. CASE rest = NoBuffer
    <3>1. m.start < got /\ ~WithinLength(got) BY <2>1, <1>1, <1>3, <1>5, <1>7 DEF TypeInv
    <3>2. got - m.start = 1 \/ got - m.start >= 1 + LenBytes(m.rem)
      BY <3>1, <1>1, <1>3, Undivided
    <3> QED BY <3>2, <2>1, <1>3, <1>5
  <2>2. CASE rest # NoBuffer BY <2>2, <1>4, <1>6 DEF Total
  <2> QED BY <2>1, <2>2
<1>9. /\ n = 1 => mqtt_get_total_length(m, n) = -1
      /\ n >= 1 + LenBytes(m.rem) => mqtt_get_total_length(m, n) = Total(m)
      /\ Total(m) >= 1 + LenBytes(m.rem) + m.id
  BY <1>4, <1>7, LengthKnown
<1>10. \/ n = 1 /\ mqtt_get_total_length(m, n) = -1
       \/ mqtt_get_total_length(m, n) = Total(m)
  BY <1>8, <1>9
<1>11. m.id \in Nat BY <1>4 DEF Message
<1>12. ~mqtt_get_id(m, n) => n < Total(m) BY <1>4, <1>7, <1>9, <1>11 DEF mqtt_get_id
<1>13. rest # NoBuffer => mqtt_get_total_length(m, n) = Total(m) BY <1>4, <1>6, <1>9 DEF Total
<1> HIDE DEF m, n
<1>14. /\ Total(m) \in Nat /\ Total(m) >= 2 /\ End(m) = place + Total(m) BY <1>4
<1> QED BY <1>1, <1>3, <1>14, <1>5, <1>6, <1>7, <1>10, <1>12, <1>13 DEF m, n

\* After a message, reading goes on behind it.
LEMMA ProcessedIInv ==
  ASSUME IInv, up, reading, Length(in_buffer) > 0,
         NEW i \in 1..Len(stream), stream[i].start = in_buffer.from,
         UNCHANGED <<stream, got>>,
         message_length(stream[i], Length(in_buffer)) = Total(stream[i]),
         Total(stream[i]) <= Length(in_buffer),
         NEW w \in BOOLEAN, w = (Total(stream[i]) <= max_message_length),
         Note(stream[i], w), MessageProcessed(stream[i], Length(in_buffer))
  PROVE  IInv'
<1> DEFINE m == stream[i]
           n == Length(in_buffer)
<1>1. /\ StreamInv /\ HandledInv /\ ReadingInv /\ TypeInv
      /\ Len(handled) < Len(stream) /\ i = Len(handled) + 1
      /\ place = m.start /\ place \in Nat /\ got \in Nat
      /\ Total(m) \in Nat /\ End(m) = place + Total(m)
      /\ rest = NoBuffer => n = got - place
  BY ReadFacts DEF IInv
<1>2. /\ StreamInv' /\ HandledInv' /\ sent' = sent /\ place' = End(m)
      /\ WithinLength(got)' <=> WithinLength(got')
  BY <1>1, Handling DEF Note
<1>3. in_buffer' = Bytes(End(m), got) /\ recv_buffer' = NoBuffer /\ End(m) <= got
  <2>1. CASE rest # NoBuffer
    <3>1. in_buffer' = rest /\ recv_buffer' = NoBuffer BY <2>1 DEF MessageProcessed
    <3>2. rest = Bytes(End(m), got) /\ End(m) <= got BY <2>1, <1>1 DEF ReadingInv
    <3> QED BY <3>1, <3>2
  <2>2. CASE rest = NoBuffer
    <3>1. in_buffer' = Bytes(in_buffer.from + Total(m), in_buffer.upto) /\ recv_buffer' = recv_buffer
      BY <2>2 DEF MessageProcessed
    <3>2. in_buffer = Bytes(place, got) /\ recv_buffer = NoBuffer BY <2>2, <1>1 DEF ReadingInv
    <3>3. in_buffer.from = place /\ in_buffer.upto = got BY <3>2 DEF Bytes
    <3>4. End(m) <= got BY <2>2, <1>1
    <3> QED BY <3>1, <3>2, <3>3, <3>4, <1>1
  <2> QED BY <2>1, <2>2
<1>4. rest' = NoBuffer /\ state' = "NORMAL" /\ up'
  BY <1>1 DEF MessageProcessed, ReadingInv
<1>5. Length(in_buffer') = got - End(m) BY <1>3 DEF Length, Bytes
<1>6. reading' = (got - End(m) > 0) BY <1>5 DEF MessageProcessed
<1>7. TypeInv'
  <2>1. got' \in Nat /\ got' <= sent' /\ ~WithinLength(got)' BY <1>1, <1>2 DEF TypeInv
  <2>2. up' \in BOOLEAN BY <1>1 DEF TypeInv, MessageProcessed
  <2>3. reading' \in BOOLEAN BY <1>6
  <2> QED BY <2>1, <2>2, <2>3, <1>4 DEF TypeInv
<1>8. CASE reading'
  <2>1. in_buffer'.from = place' BY <1>2, <1>3 DEF Bytes
  <2>2. in_buffer' = Bytes(place', got') /\ place' <= got' BY <1>2, <1>3
  <2>3. ReadingInv' BY <2>1, <2>2, <1>3, <1>4 DEF ReadingInv, NoBuffer, Bytes
  <2> QED BY <2>3, <1>2, <1>4, <1>7, <1>8 DEF IInv
<1>9. CASE ~reading'
  <2>1. ~(got - End(m) > 0) BY <1>6, <1>9
  <2>2. place' = got' BY <2>1, <1>1, <1>2, <1>3
  <2>3. WaitingInv' BY <2>2, <1>3, <1>4 DEF WaitingInv, NoBuffer, Bytes
  <2> QED BY <2>3, <1>2, <1>4, <1>7, <1>9 DEF IInv
<1> QED BY <1>8, <1>9

\* A message of the segment is handled, kept, or handled and skipped.
LEMMA ReadPacketIInv == ASSUME IInv, ReadPacket PROVE IInv'
<1>1. reading /\ Length(in_buffer) > 0 /\ UNCHANGED <<stream, got>> BY DEF ReadPacket
<1>2. up BY <1>1 DEF IInv, DownInv
<1> DEFINE n == Length(in_buffer)
<1>3. PICK i \in 1..Len(stream) :
        /\ stream[i].start = in_buffer.from
        /\ \/ Overflow(stream[i], n) \/ Partial(stream[i], n)
           \/ PartialFails(stream[i], n) \/ Whole(stream[i], n)
  BY DEF ReadPacket
<1> DEFINE m == stream[i]
<1>4. /\ StreamInv /\ HandledInv /\ ReadingInv /\ TypeInv
      /\ Len(handled) < Len(stream) /\ i = Len(handled) + 1
      /\ place = m.start /\ place \in Nat /\ got \in Nat
      /\ Total(m) \in Nat /\ Total(m) >= 2 /\ End(m) = place + Total(m)
      /\ n \in Nat \ {0}
      /\ rest = NoBuffer => n = got - place
      /\ rest # NoBuffer => n = Total(m)
      /\ \/ n = 1 /\ mqtt_get_total_length(m, n) = -1
         \/ mqtt_get_total_length(m, n) = Total(m)
      /\ ~mqtt_get_id(m, n) => n < Total(m)
      /\ rest # NoBuffer => mqtt_get_total_length(m, n) = Total(m)
  <2>1. stream[i].start = in_buffer.from BY <1>3
  <2> QED BY <2>1, <1>1, <1>2, ReadFacts DEF IInv
<1>5. max_message_length \in Nat BY ReceiveAssumption
<1>6. rest # NoBuffer => Total(m) <= max_message_length BY <1>4 DEF ReadingInv
<1> HIDE DEF n
<1>7. message_length(m, n) = -1 \/ message_length(m, n) = Total(m) BY <1>4 DEF message_length
<1>8. message_length(m, n) # -1 => mqtt_get_total_length(m, n) = Total(m)
  BY <1>4, <1>7 DEF message_length
<1>9. message_length(m, n) # -1 => (TooLong(m, n) <=> ~(Total(m) <= max_message_length))
  BY <1>4, <1>5, <1>8 DEF TooLong
<1>10. rest # NoBuffer => message_length(m, n) = Total(m)
  <2>1. rest # NoBuffer => ~TooLong(m, n) BY <1>4, <1>5, <1>6 DEF TooLong
  <2> QED BY <2>1, <1>4 DEF message_length
<1>11. message_length(m, n) = -1 => n < Total(m)
  <2>1. message_length(m, n) = -1 => mqtt_get_total_length(m, n) = -1 \/ IdMissing(m, n)
    BY DEF message_length
  <2>2. IdMissing(m, n) => n < Total(m) BY <1>4 DEF IdMissing
  <2> QED BY <2>1, <2>2, <1>4
<1>12. CASE Overflow(m, n)
  <2>1. message_length(m, n) = Total(m) /\ (FALSE = (Total(m) <= max_message_length)) /\ Note(m, FALSE)
    <3>1. message_length(m, n) # -1 /\ TooLong(m, n) /\ Note(m, FALSE) BY <1>12 DEF Overflow
    <3>2. message_length(m, n) = Total(m) BY <3>1, <1>7
    <3>3. ~(Total(m) <= max_message_length) BY <3>1, <1>9
    <3>4. FALSE = (Total(m) <= max_message_length) BY <3>3
    <3> QED BY ONLY <3>1, <3>2, <3>4
  <2>2. CASE message_length(m, n) <= n
    <3>1. MessageProcessed(m, n)
      <4>1. ~(message_length(m, n) > n) BY <2>1, <2>2, <1>4
      <4> QED BY <4>1, <1>12 DEF Overflow
    <3>2. Total(m) <= n BY <2>1, <2>2
    <3>3. FALSE \in BOOLEAN OBVIOUS
    <3> QED BY <2>1, <3>1, <3>2, <3>3, <1>1, <1>2, <1>3, ProcessedIInv DEF n
  <2>3. CASE message_length(m, n) > n
    <3>1. /\ state' = "SKIPPING" /\ size' = Total(m) - n /\ reading' = FALSE /\ rest' = NoBuffer
          /\ UNCHANGED <<up, recv_buffer>>
      <4>1. ~(message_length(m, n) <= n) BY <2>1, <2>3, <1>4
      <4> QED BY <4>1, <2>1, <1>12 DEF Overflow
    <3>2. rest = NoBuffer BY <2>1, <1>6
    <3>3. recv_buffer = NoBuffer /\ n = got - place BY <3>2, <1>4 DEF ReadingInv
    <3>4. /\ StreamInv' /\ HandledInv' /\ sent' = sent /\ place' = End(m)
          /\ WithinLength(got)' <=> WithinLength(got')
      <4>1. FALSE \in BOOLEAN OBVIOUS
      <4> QED BY <4>1, <2>1, <1>1, <1>4, Handling DEF Note
    <3>5. size' \in Nat \ {0} /\ place' = got' + size' BY <2>1, <2>3, <3>1, <3>3, <3>4, <1>1, <1>4
    <3>6. WaitingInv' BY <3>1, <3>3, <3>5 DEF WaitingInv, NoBuffer, Bytes
    <3>7. TypeInv'
      <4>1. got' \in Nat /\ got' <= sent' /\ ~WithinLength(got)' BY <3>4, <1>1, <1>4 DEF TypeInv
      <4>2. up' \in BOOLEAN /\ reading' \in BOOLEAN BY <3>1, <1>4 DEF TypeInv
      <4> QED BY <4>1, <4>2, <3>1 DEF TypeInv
    <3> QED BY <3>1, <3>4, <3>6, <3>7, <1>2 DEF IInv
  <2> QED BY <2>1, <2>2, <2>3, <1>4
<1>13. CASE Partial(m, n)
  <2>1. n < Total(m) BY <1>4, <1>7, <1>11, <1>13 DEF Partial
  <2>2. rest = NoBuffer BY <2>1, <1>4
  <2>3. in_buffer = Bytes(place, got) /\ n = got - place BY <2>2, <1>4 DEF ReadingInv
  <2>4. recv_buffer' = Bytes(place, got') BY <2>3, <1>1, <1>13 DEF Partial
  <2>5. reading' = FALSE /\ rest' = NoBuffer /\ UNCHANGED <<up, stream, handled>>
    BY <1>1, <1>13 DEF Partial
  <2>6. /\ StreamInv' /\ HandledInv' /\ place' = place /\ sent' = sent
        /\ WithinLength(got)' <=> WithinLength(got')
    BY <1>4, <2>5, Unmoved
  <2>7. place < got' /\ got' < End(m) BY <2>1, <2>3, <1>1, <1>4
  <2>8. stream'[Len(handled') + 1] = m /\ Len(handled') < Len(stream') BY <2>5, <1>4
  <2>9. End(m)' = End(m) /\ Total(m)' = Total(m) BY <2>5 DEF End, Total, LenBytes, Span
  <2>10. CASE message_length(m, n) > 0
    <3>1. state' = "BUFFERING" /\ size' = message_length(m, n) BY <2>10, <1>13 DEF Partial
    <3>2. message_length(m, n) # -1 BY <2>10
    <3>3. message_length(m, n) = Total(m) /\ Total(m) <= max_message_length
      BY <3>2, <1>7, <1>9, <1>13 DEF Partial
    <3>4. WaitingInv'
      BY <3>1, <3>3, <2>4, <2>5, <2>6, <2>7, <2>8 DEF WaitingInv, NoBuffer, Bytes, End, Total
    <3>5. TypeInv'
      <4>1. got' \in Nat /\ got' <= sent' /\ ~WithinLength(got)' BY <2>6, <1>1, <1>4 DEF TypeInv
      <4>2. up' \in BOOLEAN /\ reading' \in BOOLEAN BY <2>5, <1>4 DEF TypeInv
      <4> QED BY <4>1, <4>2, <3>1 DEF TypeInv
    <3> QED BY <2>5, <2>6, <3>4, <3>5, <1>2 DEF IInv
  <2>11. CASE ~(message_length(m, n) > 0)
    <3>1. state' = "SHORT" /\ size' = n BY <2>11, <1>13 DEF Partial
    <3>2. WaitingInv'
      <4>1. size' = got' - place BY <3>1, <2>3, <1>1
      <4> QED BY <3>1, <4>1, <2>4, <2>5, <2>6, <2>7, <2>8 DEF WaitingInv, NoBuffer, Bytes, End, Total
    <3>3. TypeInv'
      <4>1. got' \in Nat /\ got' <= sent' /\ ~WithinLength(got)' BY <2>6, <1>1, <1>4 DEF TypeInv
      <4>2. up' \in BOOLEAN /\ reading' \in BOOLEAN BY <2>5, <1>4 DEF TypeInv
      <4> QED BY <4>1, <4>2, <3>1 DEF TypeInv
    <3> QED BY <2>5, <2>6, <3>2, <3>3, <1>2 DEF IInv
  <2> QED BY <2>10, <2>11
<1>14. CASE PartialFails(m, n) BY <1>14, <1>1, DownIInv DEF PartialFails
<1>15. CASE Whole(m, n)
  <2>1. message_length(m, n) = Total(m) /\ Total(m) <= n /\ MessageProcessed(m, n)
    BY <1>7, <1>15 DEF Whole
  <2>2. Total(m) <= max_message_length BY <2>1, <1>4, <1>9, <1>15 DEF Whole
  <2>3. Note(m, TRUE) BY <2>1, <1>15 DEF Whole, Note
  <2>4. TRUE \in BOOLEAN /\ TRUE = (Total(m) <= max_message_length) BY <2>2
  <2> QED BY <2>1, <2>3, <2>4, <1>1, <1>2, <1>3, ProcessedIInv DEF n
<1> QED BY <1>3, <1>12, <1>13, <1>14, <1>15

-----------------------------------------------------------------------------
(* Theorems. *)

\* No step leaves the invariant while segments do not divide a length.
LEMMA StepIInv == ASSUME IInv, SplitLength = FALSE, [Next]_vars PROVE IInv'
<1>1. CASE UNCHANGED vars
  <2>1. UNCHANGED <<up, stream, got, state, recv_buffer, size, in_buffer, rest, reading, handled>>
    BY <1>1 DEF vars, heap
  <2>2. /\ StreamInv' /\ HandledInv' /\ place' = place /\ sent' = sent
        /\ WithinLength(got)' <=> WithinLength(got')
    BY <2>1, Unmoved DEF IInv
  <2>3. TypeInv' BY <2>1, <2>2 DEF IInv, TypeInv
  <2>4. ReadingInv' <=> ReadingInv
    BY <2>1, <2>2 DEF ReadingInv, NoBuffer, Bytes, End, Total, LenBytes, Span
  <2>5. WaitingInv' <=> WaitingInv
    BY <2>1, <2>2 DEF WaitingInv, NoBuffer, Bytes, End, Total, LenBytes, Span
  <2>6. DownInv' <=> DownInv BY <2>1 DEF DownInv, NoBuffer, Bytes
  <2> QED BY <2>1, <2>2, <2>3, <2>4, <2>5, <2>6 DEF IInv
<1>2. CASE Next
  BY <1>2, ConnectedIInv, DisconnectedIInv, BrokerSendsIInv, SegmentIInv, SegmentFailsIInv,
     ReadPacketIInv, NothingLeftIInv DEF Next
<1> QED BY <1>1, <1>2

\* The invariant gives the properties: a message that has come is handled, since
\* what waits between segments is incomplete or behind what has come.
LEMMA IInvReassembled == IInv => Reassembled
<1> SUFFICES ASSUME IInv PROVE Reassembled OBVIOUS
<1>1. TypeInv /\ StreamInv /\ HandledInv BY DEF IInv
<1> DEFINE H == Len(handled)
<1>2. place \in Nat /\ H \in Nat /\ Len(stream) \in Nat /\ got \in Nat
  BY <1>1, NextMessage DEF TypeInv
<1>3. ASSUME up, ~reading, NEW i \in 1..Len(stream), End(stream[i]) <= got PROVE i <= H
  <2> SUFFICES ASSUME ~(i <= H) PROVE FALSE OBVIOUS
  <2>1. H < Len(stream) BY <1>2
  <2>2. H + 1 \in 1..Len(stream) /\ place = stream[H + 1].start BY <2>1, <1>1, NextMessage
  <2>3. End(stream[H + 1]) \in Nat /\ place < End(stream[H + 1]) BY <2>2, <1>1, MessageAt
  <2>4. End(stream[i]) \in Nat /\ stream[i].start < End(stream[i]) /\ stream[i].start \in Nat
    BY <1>1, MessageAt
  <2>5. End(stream[H + 1]) <= End(stream[i])
    <3>1. CASE i = H + 1 BY <3>1, <2>3
    <3>2. CASE H + 1 < i
      <4>1. End(stream[H + 1]) <= stream[i].start BY <3>2, <2>2, <1>1 DEF StreamInv
      <4> QED BY <4>1, <2>3, <2>4
    <3> QED BY <3>1, <3>2, <1>2
  <2>6. End(stream[H + 1]) <= got BY <2>3, <2>4, <2>5, <1>2, <1>3
  <2>7. WaitingInv BY <1>3 DEF IInv
  <2>8. CASE state = "NORMAL"
    <3>1. place = got BY <2>7, <2>8 DEF WaitingInv
    <3> QED BY <3>1, <2>3, <2>6, <1>2
  <2>9. CASE state = "SHORT" \/ state = "BUFFERING"
    <3>1. got < End(stream[H + 1]) BY <2>7, <2>9 DEF WaitingInv
    <3> QED BY <3>1, <2>3, <2>6, <1>2
  <2>10. CASE state = "SKIPPING"
    <3>1. size \in Nat /\ place = got + size BY <2>7, <2>10 DEF WaitingInv
    <3> QED BY <3>1, <2>3, <2>6, <1>2
  <2> QED BY <2>8, <2>9, <2>10, <1>1 DEF TypeInv
<1>4. HandledInOrder
  <2>1. up /\ ~reading =>
          \A i \in 1..Len(stream) : stream[i].start + Total(stream[i]) <= got => i <= Len(handled)
    BY <1>3 DEF End
  <2> QED BY <2>1, <1>1 DEF HandledInOrder, HandledInv
<1>5. ASSUME up, reading, Length(in_buffer) > 0
      PROVE  \E i \in 1..Len(stream) : stream[i].start = in_buffer.from
  <2>1. ReadingInv BY <1>5 DEF IInv
  <2>2. in_buffer.from = place BY <2>1 DEF ReadingInv
  <2>3. H < Len(stream)
    <3>1. CASE rest # NoBuffer BY <3>1, <2>1 DEF ReadingInv
    <3>2. CASE rest = NoBuffer
      <4>1. in_buffer = Bytes(place, got) BY <3>2, <2>1 DEF ReadingInv
      <4>2. Length(in_buffer) = got - place BY <4>1 DEF Length, Bytes
      <4>3. place < got BY <4>2, <1>2, <1>5
      <4>4. got <= sent /\ sent \in Nat BY <1>1, SentLast DEF TypeInv
      <4>5. ~(H < Len(stream)) => place = sent BY DEF place
      <4> QED BY <4>3, <4>4, <4>5, <1>2
    <3> QED BY <3>1, <3>2
  <2>4. H + 1 \in 1..Len(stream) /\ place = stream[H + 1].start BY <2>3, <1>1, NextMessage
  <2> QED BY <2>2, <2>4
<1>6. ASSUME up, ~reading, recv_buffer # NoBuffer PROVE recv_buffer.upto = got
  <2>1. WaitingInv BY <1>6 DEF IInv
  <2>2. recv_buffer = Bytes(place, got) BY <2>1, <1>1, <1>6 DEF WaitingInv, TypeInv
  <2> QED BY <2>2 DEF Bytes
<1>7. InStep BY <1>5, <1>6 DEF InStep
<1> QED BY <1>4, <1>7 DEF Reassembled

\* The same for the copy on the heap.
LEMMA IInvHeapAccounted == IInv => HeapAccounted
<1> SUFFICES ASSUME IInv PROVE HeapAccounted OBVIOUS
<1>1. TypeInv /\ StreamInv /\ HandledInv BY DEF IInv
<1>2. place \in Nat /\ got \in Nat BY <1>1, NextMessage DEF TypeInv
<1>3. Bytes(place, got) # NoBuffer /\ Length(Bytes(place, got)) = got - place
  <2>1. place # -1 BY <1>2
  <2> QED BY <2>1 DEF Bytes, NoBuffer, Length
<1> DEFINE m == stream[Len(handled) + 1]
<1>4. Len(handled) < Len(stream) => Total(m) \in Nat /\ End(m) = place + Total(m)
  <2>1. Len(handled) < Len(stream) => Len(handled) + 1 \in 1..Len(stream) /\ place = m.start
    BY <1>1, NextMessage
  <2> QED BY <2>1, <1>1, MessageAt DEF End
<1>5. CASE ~up BY <1>5 DEF IInv, DownInv, HeapAccounted
<1>6. CASE up /\ reading
  <2>1. ReadingInv BY <1>6 DEF IInv
  <2>2. CASE rest = NoBuffer BY <2>1, <2>2, <1>6 DEF ReadingInv, HeapAccounted
  <2>3. CASE rest # NoBuffer
    <3>1. /\ Len(handled) < Len(stream) /\ recv_buffer = Bytes(place, End(m)) /\ size = Total(m)
          /\ state = "NORMAL"
      BY <2>1, <2>3 DEF ReadingInv
    <3>2. Length(recv_buffer) = End(m) - place BY <3>1 DEF Length, Bytes
    <3>3. Length(recv_buffer) <= size BY <3>1, <3>2, <1>2, <1>4
    <3> QED BY <3>1, <3>3, <1>6 DEF HeapAccounted
  <2> QED BY <2>2, <2>3
<1>7. CASE up /\ ~reading
  <2>1. WaitingInv BY <1>7 DEF IInv
  <2>2. CASE state = "NORMAL" \/ state = "SKIPPING" BY <2>1, <2>2 DEF WaitingInv, HeapAccounted
  <2>3. CASE state = "SHORT" BY <2>1, <2>3, <1>2, <1>3 DEF WaitingInv, HeapAccounted
  <2>4. CASE state = "BUFFERING"
    <3>1. /\ recv_buffer = Bytes(place, got) /\ Len(handled) < Len(stream) /\ size = Total(m)
          /\ size <= max_message_length /\ got < End(m)
      BY <2>1, <2>4 DEF WaitingInv
    <3>2. Length(recv_buffer) <= size BY <3>1, <1>2, <1>3, <1>4
    <3> QED BY <3>1, <3>2, <2>4, <1>3 DEF HeapAccounted
  <2> QED BY <2>2, <2>3, <2>4, <1>1 DEF TypeInv
<1> QED BY <1>5, <1>6, <1>7, <1>1 DEF TypeInv

\* However the broker's stream is cut into segments, but for a cut within the
\* length of a message, every message is handled once, in order, with the
\* segment that completes it, and what waits on the heap continues with the
\* next byte of the connection.
THEOREM AlwaysReassembled == SplitLength = FALSE /\ Spec => []Reassembled
<1>1. Init => IInv BY InitIInv
<1>2. SplitLength = FALSE /\ IInv /\ [Next]_vars => IInv' BY StepIInv
<1>3. IInv => Reassembled BY IInvReassembled
<1>4. (SplitLength = FALSE)' <=> (SplitLength = FALSE) OBVIOUS
<1> QED BY <1>1, <1>2, <1>3, <1>4, PTL DEF Spec

\* The copy of an incomplete message stays within its allocation, which
\* max_message_length limits once the length is known, and is there between
\* segments exactly while a message is being put together.
THEOREM HeapAlwaysAccounted == SplitLength = FALSE /\ Spec => []HeapAccounted
<1>1. Init => IInv BY InitIInv
<1>2. SplitLength = FALSE /\ IInv /\ [Next]_vars => IInv' BY StepIInv
<1>3. IInv => HeapAccounted BY IInvHeapAccounted
<1>4. (SplitLength = FALSE)' <=> (SplitLength = FALSE) OBVIOUS
<1> QED BY <1>1, <1>2, <1>3, <1>4, PTL DEF Spec
=============================================================================
