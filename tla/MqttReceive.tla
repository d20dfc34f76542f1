---------------------------- MODULE MqttReceive ----------------------------
(***************************************************************************)
(* How mqtt_socket_received(), app/modules/mqtt.c, finds the messages in   *)
(* the segments of a connection: messages that share a segment, that are   *)
(* put together from several, and that are longer than the client accepts  *)
(* and are skipped.  MqttClient models what is done with them.             *)
(*                                                                         *)
(* A byte is its position in the stream of the connection, and a buffer an *)
(* interval of positions.  The connection is past its CONNACK.             *)
(***************************************************************************)
EXTENDS Integers, Sequences

CONSTANTS
  Kinds,              \* messages of the broker: remaining length, QoS, and the
                      \* bytes after the length that the id takes to be known
  LENGTH_BASE,        \* values of a byte of the length, 128 in the code
  max_message_length, \* mud->conf.max_message_length
  SplitLength,        \* may a segment end within the length of a message?
  MaxMessages,        \* bound: messages of a connection
  MaxConnections      \* bound: connections

ASSUME ReceiveAssumption ==
  /\ Kinds \subseteq [rem : Nat, qos : 0..2, id : Nat]
  /\ LENGTH_BASE \in Nat /\ LENGTH_BASE > 1
  /\ \A k \in Kinds : k.id <= k.rem /\ k.rem < LENGTH_BASE * LENGTH_BASE * LENGTH_BASE * LENGTH_BASE
  /\ max_message_length \in Nat \ {0}
  /\ SplitLength \in BOOLEAN
  /\ MaxMessages \in Nat /\ MaxConnections \in Nat

VARIABLES
  up,          \* there is a connection
  stream,      \* messages the broker has sent on it, with their first byte
  got,         \* bytes of the stream that have come in segments
  state,       \* recv_buffer_state
  recv_buffer, \* what was copied to the heap, or NoBuffer
  size,        \* recv_buffer_size, and recv_buffer_skip, which shares its memory
  in_buffer,   \* what is left to read of the segment, or of what it completed
  rest,        \* continuation_buffer: the segment after what it completed
  reading,     \* at READPACKET
  handled,     \* history: messages handled, and whether whole
  connections  \* counter for the bound

heap == <<state, recv_buffer, size>>
vars == <<up, stream, got, heap, in_buffer, rest, reading, handled, connections>>

Bytes(a, b) == [from |-> a, upto |-> b]
Length(buf) == buf.upto - buf.from
NoBuffer == Bytes(-1, -1)

-----------------------------------------------------------------------------
(* Messages. *)

\* Lengths that take up to n bytes.
Span == <<LENGTH_BASE, LENGTH_BASE * LENGTH_BASE, LENGTH_BASE * LENGTH_BASE * LENGTH_BASE,
          LENGTH_BASE * LENGTH_BASE * LENGTH_BASE * LENGTH_BASE>>

\* Bytes that the remaining length r takes.
LenBytes(r) == CHOOSE n \in 1..4 : r < Span[n] /\ \A k \in 1..(n - 1) : r >= Span[k]

Total(m) == 1 + LenBytes(m.rem) + m.rem
sent == IF stream = <<>> THEN 0 ELSE stream[Len(stream)].start + Total(stream[Len(stream)])

\* What n bytes of m tell of its length. The test for a length that is not
\* complete is never met: the digits at hand are taken for all of it.
mqtt_get_total_length(m, n) ==
  LET digits == IF n - 1 < LenBytes(m.rem) THEN n - 1 ELSE LenBytes(m.rem) IN
  IF n = 1 THEN -1 ELSE (m.rem % Span[digits]) + 1 + digits

\* mqtt_get_id() is not 0.
mqtt_get_id(m, n) == n >= 1 + LenBytes(m.rem) + m.id

-----------------------------------------------------------------------------
Init ==
  /\ up = FALSE /\ stream = <<>> /\ got = 0
  /\ state = "NORMAL" /\ recv_buffer = NoBuffer /\ size = 0
  /\ in_buffer = NoBuffer /\ rest = NoBuffer /\ reading = FALSE
  /\ handled = <<>> /\ connections = 0

Connected ==
  /\ ~up /\ connections < MaxConnections
  /\ up' = TRUE
  /\ connections' = connections + 1
  /\ stream' = <<>> /\ got' = 0 /\ handled' = <<>>
  /\ UNCHANGED <<heap, in_buffer, rest, reading>>

\* Fault model: a message that was begun is kept for the next connection.
mqtt_socket_disconnected_keeps ==
  /\ up /\ ~reading
  /\ up' = FALSE
  /\ UNCHANGED <<stream, got, heap, in_buffer, rest, reading, handled, connections>>

\* By the broker, or after mqtt_socket_do_disconnect().
mqtt_socket_disconnected ==
  /\ up /\ ~reading
  /\ up' = FALSE
  /\ state' = "NORMAL" /\ recv_buffer' = NoBuffer /\ size' = 0
  /\ UNCHANGED <<stream, got, in_buffer, rest, reading, handled, connections>>

BrokerSends(k) ==
  /\ up /\ Len(stream) < MaxMessages
  /\ stream' = Append(stream, [start |-> sent, rem |-> k.rem, qos |-> k.qos, id |-> k.id])
  /\ UNCHANGED <<up, got, heap, in_buffer, rest, reading, handled, connections>>

-----------------------------------------------------------------------------
(* The switch of mqtt_socket_received() on the state, for a segment. *)

\* Segment b is copied behind a: the bytes between them are those a stands for
\* only if it ends where b begins, which Reassembled demands.
Joined(a, b) == Bytes(a.from, b.upto)

ReceiveNormal(seg) ==
  /\ state = "NORMAL"
  /\ in_buffer' = seg
  /\ reading' = TRUE
  /\ UNCHANGED <<heap, rest>>

ReceiveShort(seg) ==
  /\ state = "SHORT"
  /\ in_buffer' = Joined(recv_buffer, seg)
  /\ recv_buffer' = NoBuffer
  /\ state' = "NORMAL"
  /\ reading' = TRUE
  /\ UNCHANGED <<size, rest>>

Completes(seg) == Length(recv_buffer) + Length(seg) >= size

\* Fault model: the whole segment is copied.
Copied_all(seg) == seg

Copied(seg) ==
  IF Completes(seg) THEN Bytes(seg.from, seg.from + size - Length(recv_buffer)) ELSE seg

ReceiveBuffering(seg) ==
  /\ state = "BUFFERING"
  /\ recv_buffer' = Joined(recv_buffer, Copied(seg))
  /\ \/ /\ ~Completes(seg)
        /\ UNCHANGED <<state, in_buffer, rest, reading>>
     \/ /\ Completes(seg)
        /\ in_buffer' = recv_buffer'
        /\ rest' = Bytes(Copied(seg).upto, seg.upto)
        /\ state' = "NORMAL"
        /\ reading' = TRUE
  /\ UNCHANGED size

ReceiveSkipping(seg) ==
  /\ state = "SKIPPING"
  /\ \/ /\ size > Length(seg)
        /\ size' = size - Length(seg)
        /\ UNCHANGED <<state, in_buffer, reading>>
     \/ /\ size <= Length(seg)
        /\ in_buffer' = Bytes(seg.from + size, seg.upto)
        /\ size' = 0
        /\ state' = "NORMAL"
        /\ reading' = TRUE
  /\ UNCHANGED <<recv_buffer, rest>>

\* Does position p lie within the length of a message, behind its first byte?
WithinLength(p) ==
  \E i \in 1..Len(stream) :
    stream[i].start + 1 < p /\ p < stream[i].start + 1 + LenBytes(stream[i].rem)

Segment(n) ==
  LET seg == Bytes(got, got + n) IN
  /\ up /\ ~reading
  /\ SplitLength \/ ~WithinLength(got + n)
  /\ got' = got + n
  /\ \/ ReceiveNormal(seg)
     \/ ReceiveShort(seg)
     \/ ReceiveBuffering(seg)
     \/ ReceiveSkipping(seg)
  /\ UNCHANGED <<up, stream, handled, connections>>

\* No memory to join the segment: mqtt_socket_do_disconnect().
SegmentFails ==
  /\ up /\ ~reading /\ state = "SHORT" /\ got < sent
  /\ up' = FALSE
  /\ state' = "NORMAL" /\ recv_buffer' = NoBuffer /\ size' = 0
  /\ UNCHANGED <<stream, got, in_buffer, rest, reading, handled, connections>>

-----------------------------------------------------------------------------
(* READPACKET: a message m of which n bytes are there. *)

TooLong(m, n) == mqtt_get_total_length(m, n) > max_message_length
IdMissing(m, n) == m.qos > 0 /\ ~mqtt_get_id(m, n)

\* message_length, -1 for one that is too long and has no id yet.
message_length(m, n) ==
  IF TooLong(m, n) /\ IdMissing(m, n) THEN -1 ELSE mqtt_get_total_length(m, n)

Note(m, whole) == handled' = Append(handled, [start |-> m.start, whole |-> whole])

\* RX_MESSAGE_PROCESSED: on with the rest of the segment.
MessageProcessed(m, n) ==
  /\ IF rest # NoBuffer
     THEN in_buffer' = rest /\ recv_buffer' = NoBuffer
     ELSE in_buffer' = Bytes(in_buffer.from + message_length(m, n), in_buffer.upto) /\ UNCHANGED recv_buffer
  /\ rest' = NoBuffer
  /\ reading' = (Length(in_buffer') > 0)
  /\ UNCHANGED <<up, state, size>>

\* Too long: the beginning goes to the callback, the rest is skipped.
Overflow(m, n) ==
  /\ TooLong(m, n) /\ message_length(m, n) # -1
  /\ Note(m, FALSE)
  /\ \/ /\ message_length(m, n) > n
        /\ state' = "SKIPPING"
        /\ size' = message_length(m, n) - n
        /\ reading' = FALSE
        /\ rest' = NoBuffer
        /\ UNCHANGED <<up, recv_buffer, in_buffer>>
     \/ /\ message_length(m, n) <= n
        /\ MessageProcessed(m, n)

\* Not all there, or not enough to know: kept on the heap.
Partial(m, n) ==
  /\ ~TooLong(m, n) \/ message_length(m, n) = -1
  /\ message_length(m, n) = -1 \/ message_length(m, n) > n
  /\ recv_buffer' = in_buffer
  /\ size' = IF message_length(m, n) > 0 THEN message_length(m, n) ELSE n
  /\ state' = IF message_length(m, n) > 0 THEN "BUFFERING" ELSE "SHORT"
  /\ reading' = FALSE
  /\ rest' = NoBuffer
  /\ UNCHANGED <<up, in_buffer, handled>>

\* No memory for it: mqtt_socket_do_disconnect().
PartialFails(m, n) ==
  /\ ~TooLong(m, n) \/ message_length(m, n) = -1
  /\ message_length(m, n) = -1 \/ message_length(m, n) > n
  /\ up' = FALSE
  /\ state' = "NORMAL" /\ recv_buffer' = NoBuffer /\ size' = 0
  /\ reading' = FALSE
  /\ rest' = NoBuffer
  /\ UNCHANGED <<in_buffer, handled>>

\* Handled as MqttClient says.
Whole(m, n) ==
  /\ ~TooLong(m, n) /\ message_length(m, n) # -1 /\ message_length(m, n) <= n
  /\ Note(m, message_length(m, n) = Total(m))
  /\ MessageProcessed(m, n)

\* Only a buffer that begins with a message is followed (see Reassembled).
ReadPacket ==
  /\ reading /\ Length(in_buffer) > 0
  /\ \E i \in 1..Len(stream) :
       LET m == stream[i]
           n == Length(in_buffer) IN
       /\ m.start = in_buffer.from
       /\ Overflow(m, n) \/ Partial(m, n) \/ PartialFails(m, n) \/ Whole(m, n)
  /\ UNCHANGED <<stream, got, connections>>

\* Nothing is left after what was skipped.
NothingLeft ==
  /\ reading /\ Length(in_buffer) = 0
  /\ reading' = FALSE
  /\ UNCHANGED <<up, stream, got, heap, in_buffer, rest, handled, connections>>

Next ==
  \/ Connected
  \/ mqtt_socket_disconnected
  \/ \E k \in Kinds : BrokerSends(k)
  \/ \E n \in 1..(sent - got) : Segment(n)
  \/ SegmentFails
  \/ ReadPacket
  \/ NothingLeft

Spec == Init /\ [][Next]_vars

-----------------------------------------------------------------------------
(* Properties. *)

\* However the stream is cut into segments, every message is handled once, in
\* order, whole unless it is too long, and not later than with the segment
\* that completes it.
HandledInOrder ==
  /\ Len(handled) <= Len(stream)
  /\ \A i \in 1..Len(handled) :
       /\ handled[i].start = stream[i].start
       /\ handled[i].whole = (Total(stream[i]) <= max_message_length)
  /\ up /\ ~reading =>
       \A i \in 1..Len(stream) : stream[i].start + Total(stream[i]) <= got => i <= Len(handled)

\* What is read begins with a message, what is kept ends where the next
\* segment begins: no byte is lost, and none of an earlier connection is kept.
InStep ==
  up => /\ reading /\ Length(in_buffer) > 0 =>
             \E i \in 1..Len(stream) : stream[i].start = in_buffer.from
        /\ ~reading /\ recv_buffer # NoBuffer => recv_buffer.upto = got

\* Segments are put together to the messages that were sent.
Reassembled == HandledInOrder /\ InStep

\* The copy on the heap stays within what was allocated, which max_message_length
\* limits but for the beginning of a message that is waiting for its id; between
\* segments there is a copy exactly while a message is being put together.
HeapAccounted ==
  /\ Length(recv_buffer) <= size \/ recv_buffer = NoBuffer
  /\ state = "BUFFERING" => size <= max_message_length
  /\ ~reading => (recv_buffer # NoBuffer <=> state \in {"SHORT", "BUFFERING"})
=============================================================================
