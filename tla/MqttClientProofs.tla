-------------------------- MODULE MqttClientProofs --------------------------
(***************************************************************************)
(* The message that TCP acknowledges is the head of the client's queue, in *)
(* every behaviour of MqttClient, for every space of message ids and any   *)
(* number of calls and messages.                                           *)
(*                                                                         *)
(* InFlightIsHead is not inductive: an answer that came while a message is *)
(* on its way could take that message off the queue.  The strengthening    *)
(* says why none comes: at most one answer is owed or on its way at any    *)
(* time, and while there is one the head of the queue is sent, so that no  *)
(* other message leaves.  On top of it the ledger of publications is       *)
(* proved: every publish() has its one callback or is still pending.       *)
(***************************************************************************)
EXTENDS MqttClient, SequenceTheorems, FunctionTheorems, FiniteSetTheorems, TLAPS

\* No message of s has a type in K; at most one has.
NoneOf(s, K) == \A i \in 1..Len(s) : s[i].type \notin K
OneOf(s, K) == \A i, j \in 1..Len(s) :
                  s[i].type \in K /\ s[j].type \in K => i = j

\* The requests whose answers refer to a pending message.
Asking == {"SUBSCRIBE", "UNSUBSCRIBE", "PUBLISH", "PUBREL", "PUBREC"}

\* No answer to a pending message is owed or on its way; at most one is.
Quiet == NoneOf(due, Asking) /\ NoneOf(down, Completing) /\ NoneOf(rx, Completing)
Lone == \/ OneOf(due, Asking) /\ NoneOf(down, Completing) /\ NoneOf(rx, Completing)
        \/ NoneOf(due, Asking) /\ OneOf(down, Completing) /\ NoneOf(rx, Completing)
        \/ NoneOf(due, Asking) /\ NoneOf(down, Completing) /\ OneOf(rx, Completing)

\* Outside mqtt_socket_received there is no segment, and without a connection there
\* are no messages.
Places == /\ pc = "idle" => rx = <<>>
          /\ link # "up" => wire = <<>> /\ due = <<>> /\ down = <<>> /\ rx = <<>>
          /\ \A i \in 1..Len(due) : NeedsAnswer(due[i])

\* Until TCP has acknowledged CONNECT nothing else is sent and no broker answers.
Handshake == connState = "CONNECT_SENDING" /\ link = "up" =>
               /\ sending
               /\ due = <<>>
               /\ \A i \in 1..Len(down) : down[i].type = "OTHER"
               /\ \A i \in 1..Len(rx) : rx[i].type = "OTHER"

HeadIsSent == queue # <<>> /\ Head(queue).sent

\* A message on its way has no answer, and an answer means that the head is sent.
Exchange == /\ wire # <<>> => Quiet
            /\ ~Quiet => HeadIsSent
            /\ Lone

IInv == TypeOK /\ Places /\ Handshake /\ InFlightIsHead /\ Exchange

-----------------------------------------------------------------------------
(* Sequences of messages.                                                   *)

\* A message joins a sequence.
LEMMA AppendCounts ==
  ASSUME NEW S, NEW s \in Seq(S), NEW e \in S, NEW K
  PROVE  /\ NoneOf(s, K) /\ e.type \notin K => NoneOf(Append(s, e), K)
         /\ NoneOf(s, K) => OneOf(Append(s, e), K)
         /\ OneOf(s, K) /\ e.type \notin K => OneOf(Append(s, e), K)
  BY DEF NoneOf, OneOf

\* A message leaves the front of a sequence.
LEMMA TailCounts ==
  ASSUME NEW S, NEW s \in Seq(S), NEW K, s # <<>>
  PROVE  /\ NoneOf(s, K) => NoneOf(Tail(s), K)
         /\ OneOf(s, K) => OneOf(Tail(s), K)
         /\ OneOf(s, K) /\ Head(s).type \in K => NoneOf(Tail(s), K)
  BY DEF NoneOf, OneOf

\* A message is taken out of a sequence.
LEMMA RemoveCounts ==
  ASSUME NEW S, NEW s \in Seq(S), NEW K, NEW i \in 1..Len(s)
  PROVE  /\ RemoveAt(s, i) \in Seq(S)
         /\ \A j \in 1..Len(RemoveAt(s, i)) :
              \E k \in 1..Len(s) : k # i /\ RemoveAt(s, i)[j] = s[k]
         /\ NoneOf(s, K) => NoneOf(RemoveAt(s, i), K)
         /\ OneOf(s, K) => OneOf(RemoveAt(s, i), K)
         /\ OneOf(s, K) /\ s[i].type \in K => NoneOf(RemoveAt(s, i), K)
<1> DEFINE r == RemoveAt(s, i)
           a == SubSeq(s, 1, i - 1)
           b == SubSeq(s, i + 1, Len(s))
<1>a. a \in Seq(S) /\ Len(a) = i - 1 /\ \A j \in 1..Len(a) : a[j] = s[j]
  OBVIOUS
<1>b. b \in Seq(S) /\ Len(b) = Len(s) - i /\ \A j \in 1..Len(b) : b[j] = s[i + j]
  OBVIOUS
<1>c. r = a \o b
  BY DEF RemoveAt
<1> HIDE DEF a, b, r
<1>d. /\ r \in Seq(S) /\ Len(r) = Len(a) + Len(b)
      /\ \A j \in 1..Len(r) : r[j] = IF j <= Len(a) THEN a[j] ELSE b[j - Len(a)]
  <2>1. a \in Seq(S) /\ b \in Seq(S)
    BY <1>a, <1>b
  <2>2. /\ a \o b \in Seq(S) /\ Len(a \o b) = Len(a) + Len(b)
        /\ \A j \in 1..Len(a) + Len(b) :
             (a \o b)[j] = IF j <= Len(a) THEN a[j] ELSE b[j - Len(a)]
    BY ONLY <2>1, ConcatProperties, Zenon
  <2> QED
    BY ONLY <2>2, <1>c, Zenon
<1>1. r \in Seq(S) /\ Len(r) = Len(s) - 1
  BY <1>a, <1>b, <1>d
<1>2. \A j \in 1..Len(r) : r[j] = IF j < i THEN s[j] ELSE s[j + 1]
  <2> TAKE j \in 1..Len(r)
  <2>1. CASE j < i
    BY <2>1, <1>a, <1>d
  <2>2. CASE ~(j < i)
    <3>1. j - Len(a) \in 1..Len(b) /\ i + (j - Len(a)) = j + 1 /\ ~(j <= Len(a))
      BY <2>2, <1>a, <1>b, <1>d
    <3> QED
      BY <2>2, <3>1, <1>b, <1>d
  <2> QED
    BY <2>1, <2>2
<1>3. \A j \in 1..Len(r) : \E k \in 1..Len(s) :
         k # i /\ r[j] = s[k] /\ k = IF j < i THEN j ELSE j + 1
  BY <1>1, <1>2
<1>4. NoneOf(s, K) => NoneOf(r, K)
  BY <1>3 DEF NoneOf
<1>5. OneOf(s, K) => OneOf(r, K)
  <2> SUFFICES ASSUME OneOf(s, K), NEW x \in 1..Len(r), NEW y \in 1..Len(r),
                      r[x].type \in K, r[y].type \in K
               PROVE  x = y
    BY DEF OneOf
  <2>1. PICK k \in 1..Len(s) : r[x] = s[k] /\ k = IF x < i THEN x ELSE x + 1
    BY <1>3
  <2>2. PICK l \in 1..Len(s) : r[y] = s[l] /\ l = IF y < i THEN y ELSE y + 1
    BY <1>3
  <2>3. k = l
    BY <2>1, <2>2 DEF OneOf
  <2> QED
    BY <2>1, <2>2, <2>3
<1>6. OneOf(s, K) /\ s[i].type \in K => NoneOf(r, K)
  BY <1>3 DEF OneOf, NoneOf
<1> QED
  BY <1>1, <1>3, <1>4, <1>5, <1>6 DEF r

\* A sequence is cut in two.
LEMMA CutCounts ==
  ASSUME NEW S, NEW s \in Seq(S), NEW K, NEW n \in 1..Len(s),
         NEW a \in Seq(S), Len(a) = n, \A j \in 1..Len(a) : a[j] = s[j],
         NEW b \in Seq(S), Len(b) = Len(s) - n, \A j \in 1..Len(b) : b[j] = s[n + j]
  PROVE  /\ NoneOf(s, K) => NoneOf(a, K) /\ NoneOf(b, K)
         /\ OneOf(s, K) => \/ OneOf(a, K) /\ NoneOf(b, K)
                           \/ NoneOf(a, K) /\ OneOf(b, K)
<1>1. \A j \in 1..Len(a) : \E k \in 1..Len(s) : a[j] = s[k]
  OBVIOUS
<1>2. \A j \in 1..Len(b) : \E k \in 1..Len(s) : b[j] = s[k]
  OBVIOUS
<1>3. NoneOf(s, K) => NoneOf(a, K) /\ NoneOf(b, K)
  BY <1>1, <1>2 DEF NoneOf
<1>4. ASSUME OneOf(s, K) PROVE OneOf(a, K) /\ OneOf(b, K)
  <2>1. OneOf(a, K)
    BY <1>4 DEF OneOf
  <2>2. ASSUME NEW x \in 1..Len(b), NEW y \in 1..Len(b), b[x].type \in K, b[y].type \in K
        PROVE  x = y
    <3>1. n + x \in 1..Len(s) /\ n + y \in 1..Len(s) /\ b[x] = s[n + x] /\ b[y] = s[n + y]
      OBVIOUS
    <3>2. n + x = n + y
      BY <3>1, <2>2, <1>4 DEF OneOf
    <3> QED
      BY <3>2
  <2> QED
    BY <2>1, <2>2 DEF OneOf
<1>5. OneOf(s, K) => NoneOf(a, K) \/ NoneOf(b, K)
  BY DEF OneOf, NoneOf
<1> QED
  BY <1>1, <1>2, <1>3, <1>4, <1>5

-----------------------------------------------------------------------------
(* Sending.                                                                 *)

\* The head of a queue is marked as sent.
LEMMA MarkSent ==
  ASSUME NEW q \in Seq(Node), q # <<>>
  PROVE  LET p == [q EXCEPT ![1].sent = TRUE]
         IN  /\ p \in Seq(Node) /\ p # <<>>
             /\ Head(p).sent
             /\ Msg(Head(p).type, Head(p).id, Head(p).qos)
                  = Msg(Head(q).type, Head(q).id, Head(q).qos)
<1> DEFINE r == [q[1] EXCEPT !.sent = TRUE]
           p == [q EXCEPT ![1] = r]
<1>1. q[1] \in Node /\ 1 \in 1..Len(q) /\ Head(q) = q[1]
  OBVIOUS
<1>2. r \in Node /\ r.sent /\ r.type = q[1].type /\ r.id = q[1].id /\ r.qos = q[1].qos
  BY <1>1 DEF Node
<1> HIDE DEF r
<1>3. p \in Seq(Node) /\ Len(p) = Len(q) /\ p[1] = r
  BY <1>1, <1>2, ExceptSeq
<1>4. p # <<>> /\ Head(p) = r
  BY <1>3, <1>1
<1> QED
  BY <1>1, <1>2, <1>3, <1>4 DEF r, Msg

\* mqtt_send_if_possible() changes nothing, or sends the head of a queue that was not
\* sent, and only when nothing is on its way.
LEMMA SendFacts ==
  ASSUME NEW q \in Seq(Node), NEW s \in BOOLEAN, NEW w \in Seq(Wire),
         NEW t \in Armed \cup {"off", "missed"},
         ~s => w = <<>>,
         mishaps \subseteq {"send_failed", "segment_dropped", "closed_early"},
         SendIfPossible(q, s, w, t)
  PROVE  /\ queue' \in Seq(Node) /\ wire' \in Seq(Wire) /\ sending' \in BOOLEAN
         /\ timer' \in Armed \cup {"off", "missed"}
         /\ mishaps' \subseteq {"send_failed", "segment_dropped", "closed_early"}
         /\ \/ queue' = q /\ sending' = s /\ wire' = w
            \/ /\ q # <<>> /\ ~Head(q).sent /\ ~s /\ sending'
               /\ queue' # <<>> /\ Head(queue').sent
               /\ \/ wire' = <<>>
                  \/ /\ link = "up"
                     /\ Len(wire') = 1
                     /\ wire'[1] = Msg(Head(queue').type, Head(queue').id,
                                       Head(queue').qos)
<1>1. CASE ~(~s /\ q # <<>> /\ ~Head(q).sent)
  BY <1>1 DEF SendIfPossible
<1>2. CASE ~s /\ q # <<>> /\ ~Head(q).sent
  <2> DEFINE m == Msg(Head(q).type, Head(q).id, Head(q).qos)
  <2>1. w = <<>>
    BY <1>2
  <2>2. /\ queue' = [q EXCEPT ![1].sent = TRUE]
        /\ sending' = TRUE /\ timer' = "send"
        /\ EspconnSend(w, m)
    BY <1>2 DEF SendIfPossible
  <2>3. queue' \in Seq(Node) /\ queue' # <<>> /\ Head(queue').sent
        /\ Msg(Head(queue').type, Head(queue').id, Head(queue').qos) = m
    BY <1>2, <2>2, MarkSent
  <2>4. m \in Wire
    <3>1. Head(q) \in Node
      BY <1>2
    <3> QED
      BY <3>1 DEF Msg, Wire, Node
  <2> HIDE DEF m
  <2>5. \/ link = "up" /\ wire' = Append(w, m) /\ mishaps' = mishaps
        \/ wire' = w /\ mishaps' = mishaps \cup {"send_failed"}
    BY <2>2 DEF EspconnSend
  <2>6. mishaps' \subseteq {"send_failed", "segment_dropped", "closed_early"}
    BY <2>5
  <2>7. Append(w, m) \in Seq(Wire) /\ Len(Append(w, m)) = 1 /\ Append(w, m)[1] = m
    BY <2>1, <2>4
  <2>8. /\ wire' \in Seq(Wire)
        /\ \/ wire' = <<>>
           \/ link = "up" /\ Len(wire') = 1 /\ wire'[1] = m
    <3>1. CASE link = "up" /\ wire' = Append(w, m)
      BY <3>1, <2>7
    <3>2. CASE wire' = w
      BY <3>2, <2>1
    <3> QED
      BY <3>1, <3>2, <2>5
  <2> QED
    BY <1>2, <2>2, <2>3, <2>6, <2>8 DEF Armed
<1> QED
  BY <1>1, <1>2

-----------------------------------------------------------------------------
(* The initial states, and the steps one by one.                            *)

\* No message is lost or pending when the program starts.
LEMMA InitIInv == Init => IInv
<1> SUFFICES ASSUME Init PROVE IInv
  OBVIOUS
<1>1. TypeOK
  <2>1. <<>> \in Seq(Node) /\ <<>> \in Seq(Wire) /\ <<>> \in Seq(Down)
    OBVIOUS
  <2>2. nextId \in 0 .. IdSpan - 1
    BY SpanAssumption DEF Init
  <2> QED
    BY <2>1, <2>2 DEF Init, TypeOK
<1> QED
  BY <1>1 DEF Init, IInv, Places, Handshake, InFlightIsHead, Exchange, Quiet, Lone,
              NoneOf, OneOf

\* A step that leaves the messages, the queue and the state of the handshake alone.
LEMMA StillIInv ==
  ASSUME IInv, TypeOK', pc' = "idle" => rx' = <<>>,
         UNCHANGED <<connState, sending, queue, link, wire, due, down, rx>>
  PROVE  IInv'
<1>1. Places'
  BY DEF IInv, Places, NeedsAnswer
<1>2. Handshake'
  BY DEF IInv, Handshake
<1>3. InFlightIsHead'
  BY DEF IInv, InFlightIsHead
<1>4. Exchange'
  BY DEF IInv, Exchange, Quiet, Lone, HeadIsSent, NoneOf, OneOf
<1> QED
  BY <1>1, <1>2, <1>3, <1>4 DEF IInv

\* A step that ends or begins a connection: no message is anywhere.
LEMMA EmptyIInv ==
  ASSUME TypeOK', wire' = <<>>, due' = <<>>, down' = <<>>, rx' = <<>>,
         connState' = "CONNECT_SENDING" /\ link' = "up" => sending'
  PROVE  IInv'
<1>1. Places'
  BY DEF Places
<1>2. Handshake'
  BY DEF Handshake
<1>3. InFlightIsHead'
  BY DEF InFlightIsHead
<1>4. Exchange'
  BY DEF Exchange, Quiet, Lone, NoneOf, OneOf
<1> QED
  BY <1>1, <1>2, <1>3, <1>4 DEF IInv

\* mqtt_send_if_possible() after a change of the queue that keeps its head.
LEMMA SendKeeps ==
  ASSUME IInv, NEW q \in Seq(Node), NEW t \in Armed \cup {"off", "missed"},
         queue # <<>> => q # <<>> /\ Head(q) = Head(queue),
         SendIfPossible(q, sending, wire, t),
         pc' = "idle" => rx = <<>>,
         UNCHANGED <<connState, link, due, down, rx>>,
         TypeOK'
  PROVE  IInv'
<1>1. /\ queue \in Seq(Node) /\ wire \in Seq(Wire) /\ sending \in BOOLEAN
      /\ mishaps \subseteq {"send_failed", "segment_dropped", "closed_early"}
  BY DEF IInv, TypeOK
<1>2. ~sending => wire = <<>>
  BY DEF IInv, InFlightIsHead
<1>3. \/ queue' = q /\ sending' = sending /\ wire' = wire
      \/ /\ q # <<>> /\ ~Head(q).sent /\ ~sending /\ sending'
         /\ queue' # <<>> /\ Head(queue').sent
         /\ \/ wire' = <<>>
            \/ /\ link = "up"
               /\ Len(wire') = 1
               /\ wire'[1] = Msg(Head(queue').type, Head(queue').id, Head(queue').qos)
  BY <1>1, <1>2, SendFacts
<1>4. Places'
  BY <1>3 DEF IInv, Places, NeedsAnswer
<1>5. Handshake'
  BY <1>3 DEF IInv, Handshake
<1>6. Quiet' <=> Quiet
  BY DEF Quiet, NoneOf
<1>7. Lone'
  BY DEF IInv, Exchange, Lone, NoneOf, OneOf
<1>8. CASE queue' = q /\ sending' = sending /\ wire' = wire
  <2>1. InFlightIsHead'
    BY <1>8 DEF IInv, InFlightIsHead
  <2>2. Exchange'
    BY <1>6, <1>7, <1>8 DEF IInv, Exchange, HeadIsSent
  <2> QED
    BY <1>4, <1>5, <2>1, <2>2 DEF IInv
<1>9. CASE /\ q # <<>> /\ ~Head(q).sent /\ ~sending /\ sending'
           /\ queue' # <<>> /\ Head(queue').sent
           /\ \/ wire' = <<>>
              \/ /\ link = "up"
                 /\ Len(wire') = 1
                 /\ wire'[1] = Msg(Head(queue').type, Head(queue').id, Head(queue').qos)
  <2>1. Quiet
    BY <1>9 DEF IInv, Exchange, HeadIsSent
  <2>2. ~(connState = "CONNECT_SENDING" /\ link = "up")
    BY <1>9 DEF IInv, Handshake
  <2>3. InFlightIsHead'
    BY <1>9, <2>2 DEF InFlightIsHead
  <2>4. Exchange'
    BY <1>6, <1>7, <1>9, <2>1 DEF Exchange, HeadIsSent
  <2> QED
    BY <1>4, <1>5, <2>3, <2>4 DEF IInv
<1> QED
  BY <1>3, <1>8, <1>9

\* connect(), lookups and the ends of connections.
LEMMA ConnectIInv == ASSUME IInv, mqtt_socket_connect PROVE IInv'
<1>1. TypeOK'
  <2>1. told' \subseteq {"connect", "connfail", "offline"}
    BY DEF mqtt_socket_connect
  <2>2. mishaps' \subseteq {"send_failed", "segment_dropped", "closed_early"}
    BY DEF mqtt_socket_connect
  <2>3. link' \in {"none", "resolving", "connecting", "up", "closing"}
    BY DEF mqtt_socket_connect
  <2>4. sending' \in BOOLEAN /\ timer' \in Armed \cup {"off", "missed"}
    BY DEF mqtt_socket_connect
  <2>5. published' \in Nat /\ pubacked' \in Nat /\ received' \in Nat /\ connects' \in Nat
    BY DEF IInv, TypeOK, mqtt_socket_connect
  <2>6. UNCHANGED <<connState, keepalive_sent, nextId, queue, wire, rx, pc, due, down,
                    silent, calls, incoming>>
    BY DEF mqtt_socket_connect, rxVars, brokerVars
  <2> QED
    BY <2>1, <2>2, <2>3, <2>4, <2>5, <2>6 DEF IInv, TypeOK
<1>2. wire' = <<>> /\ due' = <<>> /\ down' = <<>> /\ rx' = <<>>
  BY DEF IInv, Places, mqtt_socket_connect, rxVars, brokerVars
<1>3. link' # "up"
  BY DEF mqtt_socket_connect
<1> QED
  BY <1>1, <1>2, <1>3, EmptyIInv

\* mqtt_socket_disconnected() after any callbacks: nothing is left of the connection.
LEMMA DisconnectedIInv ==
  ASSUME IInv, NEW cbs \in SUBSET {"connect", "connfail", "offline"},
         pc = "idle", Disconnected(cbs), connState' \in {connState, "INIT"},
         mishaps' \in {mishaps, mishaps \cup {"closed_early"}}
  PROVE  IInv'
<1>1. TypeOK'
  <2>1. queue' \in Seq(Node) /\ wire' \in Seq(Wire) /\ due' \in Seq(Wire) /\ down' \in Seq(Down)
    BY DEF Disconnected
  <2>2. told' \subseteq {"connect", "connfail", "offline"}
    BY DEF IInv, TypeOK, Disconnected
  <2>3. mishaps' \subseteq {"send_failed", "segment_dropped", "closed_early"}
    BY DEF IInv, TypeOK
  <2> QED
    BY <2>1, <2>2, <2>3 DEF IInv, TypeOK, Disconnected, rxVars, ledger, bounds
<1>2. wire' = <<>> /\ due' = <<>> /\ down' = <<>> /\ rx' = <<>> /\ link' = "none"
  BY DEF IInv, Places, Disconnected, rxVars
<1> QED
  BY <1>1, <1>2, EmptyIInv

\* The answer of the lookup.
LEMMA DnsIInv == ASSUME IInv, socket_dns_found PROVE IInv'
<1>1. CASE Disconnected({"connfail"}) /\ connState' \in {connState, "INIT"} /\ mishaps' = mishaps
  BY <1>1, DisconnectedIInv DEF socket_dns_found
<1>2. CASE /\ connState' = "INIT"
           /\ link' = "connecting"
           /\ UNCHANGED <<keepalive_sent, nextId, told, sendVars, rxVars,
                          brokerVars, ledger, bounds>>
  <2>1. TypeOK'
    BY <1>2 DEF IInv, TypeOK, sendVars, rxVars, brokerVars, ledger, bounds
  <2>2. wire' = <<>> /\ due' = <<>> /\ down' = <<>> /\ rx' = <<>>
    BY <1>2 DEF IInv, Places, socket_dns_found, sendVars, rxVars, brokerVars
  <2> QED
    BY <1>2, <2>1, <2>2, EmptyIInv
<1> QED
  BY <1>1, <1>2 DEF socket_dns_found

\* The end of a connection, by either side or by TCP.
LEMMA EndIInv ==
  ASSUME IInv, mqtt_socket_reconnected \/ mqtt_socket_disconnected PROVE IInv'
<1>1. CASE mqtt_socket_reconnected
  BY <1>1, DisconnectedIInv DEF mqtt_socket_reconnected
<1>2. CASE mqtt_socket_disconnected
  BY <1>2, DisconnectedIInv DEF mqtt_socket_disconnected
<1> QED
  BY <1>1, <1>2

\* The CONNECT message is sent, or espconn_send() refuses it.
LEMMA ConnectedIInv == ASSUME IInv, mqtt_socket_connected PROVE IInv'
<1> DEFINE m == Msg("CONNECT", 0, 0)
<1>1. m \in Wire /\ m.type = "CONNECT"
  BY DEF Msg, Wire, ToBroker
<1> HIDE DEF m
<1>2. /\ due' = <<>> /\ down' = <<>> /\ rx' = <<>> /\ pc' = "idle"
      /\ sending' /\ link' = "up" /\ connState' = "CONNECT_SENDING"
  BY DEF IInv, Places, mqtt_socket_connected, rxVars, brokerVars
<1>3. wire' = <<m>> \/ wire' = <<>>
  BY DEF mqtt_socket_connected, m
<1>4. wire' \in Seq(Wire) /\ (wire' # <<>> => Len(wire') = 1 /\ wire'[1] = m)
  <2>1. <<m>> \in Seq(Wire) /\ Len(<<m>>) = 1 /\ <<m>>[1] = m
    BY <1>1
  <2>2. <<>> \in Seq(Wire)
    OBVIOUS
  <2> QED
    BY <1>3, <2>1, <2>2, Zenon
<1>5. TypeOK'
  <2>1. mishaps' \subseteq {"send_failed", "segment_dropped", "closed_early"}
    BY DEF IInv, TypeOK, mqtt_socket_connected
  <2> QED
    BY <1>4, <2>1 DEF IInv, TypeOK, mqtt_socket_connected, rxVars, brokerVars,
                      ledger, bounds, Armed
<1>6. Places' /\ Handshake'
  BY <1>2 DEF Places, Handshake
<1>7. InFlightIsHead'
  BY <1>1, <1>2, <1>4 DEF InFlightIsHead
<1>8. Exchange'
  BY <1>2 DEF Exchange, Quiet, Lone, NoneOf, OneOf
<1> QED
  BY <1>5, <1>6, <1>7, <1>8 DEF IInv

-----------------------------------------------------------------------------
\* The calls of the application that queue a message.
LEMMA RequestIInv ==
  ASSUME IInv, NEW type \in ToBroker, NEW id \in Nat, NEW qos \in 0..2,
         Request(type, id, qos),
         nextId' \in 0 .. IdSpan - 1, published' \in Nat
  PROVE  IInv'
<1> DEFINE n == [type |-> type, id |-> id, qos |-> qos, sent |-> FALSE]
           q == Append(queue, n)
<1>1. n \in Node
  BY DEF Node
<1> HIDE DEF n
<1>2. queue \in Seq(Node) /\ wire \in Seq(Wire) /\ sending \in BOOLEAN
      /\ timer \in Armed \cup {"off", "missed"}
      /\ mishaps \subseteq {"send_failed", "segment_dropped", "closed_early"}
  BY DEF IInv, TypeOK
<1>3. q \in Seq(Node) /\ (queue # <<>> => q # <<>> /\ Head(q) = Head(queue))
  BY <1>1, <1>2
<1>4. SendIfPossible(q, sending, wire, timer)
  BY DEF Request, Enqueued, n
<1> HIDE DEF q
<1>5. ~sending => wire = <<>>
  BY DEF IInv, InFlightIsHead
<1>6. /\ queue' \in Seq(Node) /\ wire' \in Seq(Wire) /\ sending' \in BOOLEAN
      /\ timer' \in Armed \cup {"off", "missed"}
      /\ mishaps' \subseteq {"send_failed", "segment_dropped", "closed_early"}
  BY <1>2, <1>3, <1>4, <1>5, SendFacts
<1>7. UNCHANGED <<connState, keepalive_sent, link, told, rx, pc, due, down, silent,
                  pubacked, received, connects, incoming>>
  BY DEF Request, rxVars, brokerVars
<1>8. calls' \in Nat
  BY DEF Request, IInv, TypeOK
<1>9. TypeOK'
  BY <1>6, <1>7, <1>8 DEF IInv, TypeOK
<1>10. pc' = "idle" => rx = <<>>
  BY <1>7 DEF IInv, Places
<1> QED
  BY <1>2, <1>3, <1>4, <1>7, <1>9, <1>10, SendKeeps

\* The calls of the application.
LEMMA CallsIInv ==
  ASSUME IInv, \/ mqtt_socket_publish \/ mqtt_socket_subscribe
               \/ mqtt_socket_unsubscribe \/ mqtt_socket_close
  PROVE  IInv'
<1>1. nextId \in 0 .. IdSpan - 1 /\ published \in Nat
  BY DEF IInv, TypeOK
<1>2. NextMessageId \in 0 .. IdSpan - 1 /\ NextMessageId \in Nat
  BY <1>1, SpanAssumption DEF NextMessageId
<1>3. ASSUME NEW qos \in 0..2,
             nextId' = IF qos = 0 THEN nextId ELSE NextMessageId,
             Request("PUBLISH", IF qos = 0 THEN 0 ELSE NextMessageId, qos),
             published' = published + 1
      PROVE  IInv'
  <2>1. nextId' \in 0 .. IdSpan - 1 /\ published' \in Nat
    BY <1>1, <1>2, <1>3
  <2> DEFINE id == IF qos = 0 THEN 0 ELSE NextMessageId
  <2>2. id \in Nat
    BY <1>2
  <2>3. Request("PUBLISH", id, qos)
    BY <1>3
  <2> HIDE DEF id
  <2> QED
    BY <2>1, <2>2, <2>3, RequestIInv DEF ToBroker
<1>4. CASE mqtt_socket_publish
  BY <1>3, <1>4 DEF mqtt_socket_publish
<1>5. CASE mqtt_socket_subscribe
  <2>1. Request("SUBSCRIBE", NextMessageId, 1) /\ nextId' \in 0 .. IdSpan - 1
        /\ published' \in Nat
    BY <1>1, <1>2, <1>5 DEF mqtt_socket_subscribe
  <2> QED
    BY <1>2, <2>1, RequestIInv DEF ToBroker
<1>6. CASE mqtt_socket_unsubscribe
  <2>1. Request("UNSUBSCRIBE", NextMessageId, 1) /\ nextId' \in 0 .. IdSpan - 1
        /\ published' \in Nat
    BY <1>1, <1>2, <1>6 DEF mqtt_socket_unsubscribe
  <2> QED
    BY <1>2, <2>1, RequestIInv DEF ToBroker
<1>7. CASE mqtt_socket_close
  <2>1. Request("DISCONNECT", 0, 0) /\ nextId' \in 0 .. IdSpan - 1
        /\ published' \in Nat
    BY <1>1, <1>7 DEF mqtt_socket_close
  <2> QED
    BY <2>1, RequestIInv DEF ToBroker
<1> QED
  BY <1>4, <1>5, <1>6, <1>7

-----------------------------------------------------------------------------
\* The broker owes at most one answer after TCP has delivered a message, and none if
\* the message asks for none.
LEMMA DeliveredFacts ==
  ASSUME IInv, wire # <<>>, Delivered
  PROVE  /\ due' \in Seq(Wire)
         /\ \A i \in 1..Len(due') : NeedsAnswer(due'[i])
         /\ OneOf(due', Asking)
         /\ (Head(wire).type \notin Asking \/ ~NeedsAnswer(Head(wire)))
              => NoneOf(due', Asking)
         /\ UNCHANGED <<down, silent>>
<1>1. wire \in Seq(Wire) /\ due \in Seq(Wire) /\ Head(wire) \in Wire
  BY DEF IInv, TypeOK
<1>2. NoneOf(due, Asking) /\ \A i \in 1..Len(due) : NeedsAnswer(due[i])
  BY DEF IInv, Exchange, Quiet, Places
<1>3. OneOf(due, Asking)
  BY <1>2 DEF NoneOf, OneOf
<1> DEFINE m == Head(wire)
<1>4. due' = IF NeedsAnswer(m) THEN Append(due, m) ELSE due
  BY DEF Delivered
<1>5. m \in Wire
  BY <1>1
<1> HIDE DEF m
<1>6. /\ OneOf(Append(due, m), Asking)
      /\ m.type \notin Asking => NoneOf(Append(due, m), Asking)
  BY <1>1, <1>2, <1>5, AppendCounts
<1>7. NeedsAnswer(m) => \A i \in 1..Len(Append(due, m)) : NeedsAnswer(Append(due, m)[i])
  <2> SUFFICES ASSUME NeedsAnswer(m), NEW i \in 1..Len(Append(due, m))
               PROVE  NeedsAnswer(Append(due, m)[i])
    OBVIOUS
  <2>1. Append(due, m)[i] = m \/ (i \in 1..Len(due) /\ Append(due, m)[i] = due[i])
    BY <1>1, <1>5
  <2> QED
    BY <2>1, <1>2
<1>8. Append(due, m) \in Seq(Wire)
  BY <1>1, <1>5
<1>9. CASE NeedsAnswer(m)
  <2>1. due' = Append(due, m)
    BY <1>4, <1>9
  <2> QED
    BY <2>1, <1>6, <1>7, <1>8, <1>9 DEF Delivered, m
<1>10. CASE ~NeedsAnswer(m)
  <2>1. due' = due
    BY <1>4, <1>10
  <2> QED
    BY <2>1, <1>1, <1>2, <1>3 DEF Delivered
<1> QED
  BY <1>9, <1>10

\* mqtt_socket_sent(), case by case.
LEMMA SentIInv == ASSUME IInv, mqtt_socket_sent PROVE IInv'
<1>1. wire # <<>> /\ pc = "idle" /\ link = "up"
  BY DEF mqtt_socket_sent
<1>2. /\ queue \in Seq(Node) /\ wire \in Seq(Wire) /\ Len(wire) = 1
      /\ mishaps \subseteq {"send_failed", "segment_dropped", "closed_early"}
      /\ Quiet /\ rx = <<>>
  BY <1>1 DEF IInv, TypeOK, InFlightIsHead, Exchange, Places
<1>3. Tail(wire) = <<>> /\ Head(wire) = wire[1]
  <2>1. Tail(wire) \in Seq(Wire) /\ Len(Tail(wire)) = 0
    BY <1>1, <1>2
  <2>2. Tail(wire) = <<>>
    BY <2>1, EmptySeq
  <2> QED
    BY <1>1, <1>2, <2>2
<1>4. UNCHANGED <<keepalive_sent, nextId, told, rx, pc, published, connects, calls, incoming>>
  BY DEF mqtt_socket_sent, rxVars, bounds
<1>5. received' \in Nat
  BY DEF mqtt_socket_sent, IInv, TypeOK
<1>6. CASE ConnectSent
  <2>1. /\ wire' = <<>> /\ sending' = FALSE /\ timer' = "send" /\ connState' = "CONNECT_SENT"
        /\ UNCHANGED <<link, queue, mishaps, pubacked>> /\ Delivered
    BY <1>3, <1>6 DEF ConnectSent
  <2>2. wire[1].type = "CONNECT"
    BY <1>1, <1>6 DEF IInv, InFlightIsHead, ConnectSent
  <2>3. /\ due' \in Seq(Wire) /\ \A i \in 1..Len(due') : NeedsAnswer(due'[i])
        /\ NoneOf(due', Asking) /\ UNCHANGED <<down, silent>>
    BY <1>1, <1>3, <2>1, <2>2, DeliveredFacts DEF Asking
  <2>4. TypeOK'
    <3>1. <<>> \in Seq(Wire)
      OBVIOUS
    <3>2. wire' \in Seq(Wire)
      BY <2>1, <3>1
    <3>3. timer' \in Armed \cup {"off", "missed"} /\ sending' \in BOOLEAN
      BY <2>1 DEF Armed
    <3> QED
      BY <1>4, <1>5, <2>1, <2>3, <3>2, <3>3 DEF IInv, TypeOK
  <2>5. Places'
    BY <1>1, <1>2, <1>4, <2>1, <2>3 DEF Places, NeedsAnswer
  <2>6. Handshake' /\ InFlightIsHead'
    BY <2>1 DEF Handshake, InFlightIsHead
  <2>7. Quiet'
    BY <1>2, <1>4, <2>3 DEF Quiet, NoneOf
  <2>8. Exchange'
    BY <2>1, <2>7 DEF Exchange, Quiet, Lone, NoneOf, OneOf
  <2> QED
    BY <2>4, <2>5, <2>6, <2>8 DEF IInv
<1>7. ASSUME connState # "CONNECT_SENDING"
      PROVE  /\ queue # <<>> /\ Head(queue).sent /\ Head(queue) \in Node
             /\ Head(wire).type = Head(queue).type
             /\ Head(wire).qos = Head(queue).qos
  BY <1>1, <1>2, <1>3, <1>7 DEF IInv, InFlightIsHead, Msg
<1>8. CASE HeadDone
  <2>1. /\ SendIfPossible(Tail(queue), FALSE, Tail(wire), "keepalive") /\ Delivered
        /\ connState # "CONNECT_SENDING" /\ DoneWhenSent(Head(queue))
        /\ UNCHANGED <<connState, link>>
    BY <1>8 DEF HeadDone
  <2>2. Head(wire).type \notin Asking \/ ~NeedsAnswer(Head(wire))
    BY <1>7, <2>1 DEF DoneWhenSent, NeedsAnswer, Asking
  <2>3. /\ due' \in Seq(Wire) /\ \A i \in 1..Len(due') : NeedsAnswer(due'[i])
        /\ NoneOf(due', Asking) /\ UNCHANGED <<down, silent>>
    BY <1>1, <2>1, <2>2, DeliveredFacts
  <2>4. Tail(queue) \in Seq(Node) /\ Tail(wire) \in Seq(Wire)
    BY <1>1, <1>2, <1>7, <2>1
  <2>5. /\ queue' \in Seq(Node) /\ wire' \in Seq(Wire) /\ sending' \in BOOLEAN
        /\ timer' \in Armed \cup {"off", "missed"}
        /\ mishaps' \subseteq {"send_failed", "segment_dropped", "closed_early"}
        /\ \/ wire' = <<>>
           \/ /\ sending' /\ queue' # <<>> /\ Head(queue').sent
              /\ Len(wire') = 1
              /\ wire'[1] = Msg(Head(queue').type, Head(queue').id, Head(queue').qos)
    <3>1. "keepalive" \in Armed \cup {"off", "missed"} /\ FALSE \in BOOLEAN
      BY DEF Armed
    <3> QED
      BY <1>2, <1>3, <2>1, <2>4, <3>1, SendFacts
  <2>6. pubacked' \in Nat
    BY <1>8 DEF HeadDone, IInv, TypeOK
  <2>7. TypeOK'
    BY <1>4, <1>5, <2>1, <2>3, <2>5, <2>6 DEF IInv, TypeOK
  <2>8. Places'
    BY <1>1, <1>2, <1>4, <2>1, <2>3 DEF Places, NeedsAnswer
  <2>9. Handshake' /\ InFlightIsHead'
    BY <2>1, <2>5 DEF Handshake, InFlightIsHead
  <2>10. Quiet'
    BY <1>2, <1>4, <2>3 DEF Quiet, NoneOf
  <2>11. Exchange'
    BY <2>10 DEF Exchange, Quiet, Lone, NoneOf, OneOf
  <2> QED
    BY <2>7, <2>8, <2>9, <2>11 DEF IInv
<1>9. CASE DisconnectSent
  <2>1. /\ queue' = Tail(queue) /\ sending' = FALSE /\ timer' = "keepalive"
        /\ link' = "closing" /\ wire' = <<>> /\ due' = <<>> /\ down' = <<>>
        /\ UNCHANGED <<connState, silent, mishaps, pubacked>> /\ queue # <<>>
    BY <1>9 DEF DisconnectSent, DoDisconnect, RestartKeepalive
  <2>2. queue' \in Seq(Node) /\ wire' \in Seq(Wire) /\ due' \in Seq(Wire) /\ down' \in Seq(Down)
    BY <1>2, <2>1
  <2>3. timer' \in Armed \cup {"off", "missed"} /\ sending' \in BOOLEAN
    BY <2>1 DEF Armed
  <2>4. TypeOK'
    BY <1>4, <1>5, <2>1, <2>2, <2>3 DEF IInv, TypeOK
  <2> QED
    BY <1>2, <1>4, <2>1, <2>4, EmptyIInv
<1>10. CASE HeadWaits
  <2>1. /\ sending' = FALSE /\ timer' = "keepalive" /\ wire' = <<>> /\ Delivered
        /\ connState # "CONNECT_SENDING"
        /\ UNCHANGED <<connState, link, queue, mishaps, pubacked>>
    BY <1>3, <1>10 DEF HeadWaits, RestartKeepalive
  <2>2. /\ due' \in Seq(Wire) /\ \A i \in 1..Len(due') : NeedsAnswer(due'[i])
        /\ OneOf(due', Asking) /\ UNCHANGED <<down, silent>>
    BY <1>1, <2>1, DeliveredFacts
  <2>3. TypeOK'
    <3>1. <<>> \in Seq(Wire)
      OBVIOUS
    <3>2. wire' \in Seq(Wire)
      BY <2>1, <3>1
    <3>3. timer' \in Armed \cup {"off", "missed"} /\ sending' \in BOOLEAN
      BY <2>1 DEF Armed
    <3> QED
      BY <1>4, <1>5, <2>1, <2>2, <3>2, <3>3 DEF IInv, TypeOK
  <2>4. Places'
    BY <1>1, <1>2, <1>4, <2>1, <2>2 DEF Places, NeedsAnswer
  <2>5. Handshake' /\ InFlightIsHead'
    BY <2>1 DEF Handshake, InFlightIsHead
  <2>6. Lone'
    BY <1>2, <1>4, <2>2 DEF Quiet, Lone, NoneOf, OneOf
  <2>7. HeadIsSent'
    BY <1>7, <2>1 DEF HeadIsSent
  <2>8. Exchange'
    BY <2>1, <2>6, <2>7 DEF Exchange
  <2> QED
    BY <2>3, <2>4, <2>5, <2>8 DEF IInv
<1> QED
  BY <1>6, <1>8, <1>9, <1>10 DEF mqtt_socket_sent

\* The timer.
LEMMA TimerIInv == ASSUME IInv, mqtt_socket_timer PROVE IInv'
<1>1. UNCHANGED <<nextId, rx, pc, published, pubacked, received, connects, calls, incoming>>
  BY DEF mqtt_socket_timer, rxVars, ledger, bounds
<1>2. pc = "idle" /\ rx = <<>>
  BY DEF mqtt_socket_timer, IInv, Places
<1>3. CASE ConnectTimeout \/ KeepaliveTimeout
  <2>1. /\ timer' = "off" /\ link' = "closing" /\ wire' = <<>> /\ due' = <<>> /\ down' = <<>>
        /\ UNCHANGED <<silent, keepalive_sent, sending, queue, mishaps>>
    BY <1>3 DEF ConnectTimeout, KeepaliveTimeout, DoDisconnect
  <2>2. /\ connState' \in {connState, "INIT"}
        /\ told' \subseteq {"connect", "connfail", "offline"}
    BY <1>3 DEF ConnectTimeout, KeepaliveTimeout, IInv, TypeOK
  <2>3. wire' \in Seq(Wire) /\ due' \in Seq(Wire) /\ down' \in Seq(Down)
    BY <2>1
  <2>4. TypeOK'
    BY <1>1, <2>1, <2>2, <2>3 DEF IInv, TypeOK
  <2> QED
    BY <1>1, <1>2, <2>1, <2>4, EmptyIInv
<1>4. CASE TimerIgnored \/ TimerStale
  <2>1. /\ timer' \in {"off", "missed"}
        /\ UNCHANGED <<connState, link, told, due, down, silent, keepalive_sent, sending,
                       queue, wire, mishaps>>
    BY <1>4 DEF TimerIgnored, TimerStale, brokerVars
  <2>2. TypeOK'
    BY <1>1, <2>1 DEF IInv, TypeOK
  <2> QED
    BY <1>1, <1>2, <2>1, <2>2, StillIInv
<1>5. CASE SendKeepalive
  <2> DEFINE n == [type |-> "PINGREQ", id |-> 0, qos |-> 0, sent |-> FALSE]
             q == Append(queue, n)
  <2>1. n \in Node
    BY DEF Node, ToBroker
  <2> HIDE DEF n
  <2>2. queue \in Seq(Node) /\ wire \in Seq(Wire) /\ sending \in BOOLEAN
        /\ mishaps \subseteq {"send_failed", "segment_dropped", "closed_early"}
    BY DEF IInv, TypeOK
  <2>3. q \in Seq(Node) /\ (queue # <<>> => q # <<>> /\ Head(q) = Head(queue))
    BY <2>1, <2>2
  <2>4. SendIfPossible(q, sending, wire, "off")
    BY <1>5 DEF SendKeepalive, Enqueued, n
  <2> HIDE DEF q
  <2>5. ~sending => wire = <<>>
    BY DEF IInv, InFlightIsHead
  <2>6. /\ queue' \in Seq(Node) /\ wire' \in Seq(Wire) /\ sending' \in BOOLEAN
        /\ timer' \in Armed \cup {"off", "missed"}
        /\ mishaps' \subseteq {"send_failed", "segment_dropped", "closed_early"}
    BY <2>2, <2>3, <2>4, <2>5, SendFacts
  <2>7. keepalive_sent' = TRUE /\ UNCHANGED <<connState, link, told, due, down, silent>>
    BY <1>5 DEF SendKeepalive, brokerVars
  <2>8. keepalive_sent' \in BOOLEAN
    BY <2>7
  <2>9. TypeOK'
    BY <1>1, <2>6, <2>7, <2>8 DEF IInv, TypeOK
  <2> QED
    BY <1>1, <1>2, <2>3, <2>4, <2>7, <2>9, SendKeeps
<1> QED
  BY <1>3, <1>4, <1>5 DEF mqtt_socket_timer

-----------------------------------------------------------------------------
(* Receiving.                                                               *)

\* A segment is cut off from the messages on their way.
LEMMA ArrivesIInv == ASSUME IInv, SegmentArrives PROVE IInv'
<1>1. PICK n \in 1..Len(down) : /\ rx' = SubSeq(down, 1, n)
                                /\ down' = SubSeq(down, n + 1, Len(down))
  BY DEF SegmentArrives
<1>2. /\ link = "up" /\ pc' = "next" /\ rx = <<>> /\ down \in Seq(Down)
      /\ UNCHANGED <<connState, keepalive_sent, nextId, link, told, sending, timer, queue,
                     wire, mishaps, due, silent, published, pubacked, received,
                     connects, calls, incoming>>
  BY DEF SegmentArrives, IInv, Places, TypeOK, sendVars, ledger, bounds
<1>3. /\ rx' \in Seq(Down) /\ down' \in Seq(Down)
      /\ \A j \in 1..Len(rx') : \E k \in 1..Len(down) : rx'[j] = down[k]
      /\ \A j \in 1..Len(down') : \E k \in 1..Len(down) : down'[j] = down[k]
      /\ NoneOf(down, Completing) => NoneOf(rx', Completing) /\ NoneOf(down', Completing)
      /\ OneOf(down, Completing) =>
           \/ OneOf(rx', Completing) /\ NoneOf(down', Completing)
           \/ NoneOf(rx', Completing) /\ OneOf(down', Completing)
  <2>1. down \in Seq(Down) /\ n \in 1..Len(down)
    BY <1>1, <1>2
  <2>2. rx' \in Seq(Down) /\ Len(rx') = n /\ \A j \in 1..Len(rx') : rx'[j] = down[j]
    BY <1>1, <2>1
  <2>3. /\ down' \in Seq(Down) /\ Len(down') = Len(down) - n
        /\ \A j \in 1..Len(down') : down'[j] = down[n + j]
    BY <1>1, <2>1
  <2>4. /\ \A j \in 1..Len(rx') : \E k \in 1..Len(down) : rx'[j] = down[k]
        /\ \A j \in 1..Len(down') : \E k \in 1..Len(down) : down'[j] = down[k]
    <3>1. ASSUME NEW j \in 1..Len(rx') PROVE j \in 1..Len(down)
      BY <2>1, <2>2
    <3>2. ASSUME NEW j \in 1..Len(down') PROVE n + j \in 1..Len(down)
      BY <2>1, <2>3
    <3> QED
      BY <2>2, <2>3, <3>1, <3>2, Zenon
  <2>5. /\ NoneOf(down, Completing) => NoneOf(rx', Completing) /\ NoneOf(down', Completing)
        /\ OneOf(down, Completing) =>
             \/ OneOf(rx', Completing) /\ NoneOf(down', Completing)
             \/ NoneOf(rx', Completing) /\ OneOf(down', Completing)
    BY ONLY <2>1, <2>2, <2>3, CutCounts, Zenon
  <2> QED
    BY <2>2, <2>3, <2>4, <2>5
<1>4. TypeOK'
  BY <1>2, <1>3 DEF IInv, TypeOK
<1>5. Places'
  BY <1>2 DEF IInv, Places, NeedsAnswer
<1>6. Handshake'
  BY <1>2, <1>3 DEF IInv, Handshake
<1>7. InFlightIsHead'
  BY <1>2 DEF IInv, InFlightIsHead
<1>8. NoneOf(due', Asking) <=> NoneOf(due, Asking)
  BY <1>2
<1>9. OneOf(due', Asking) <=> OneOf(due, Asking)
  BY <1>2
<1>10. Quiet => Quiet'
  BY <1>3, <1>8 DEF Quiet
<1>11. NoneOf(rx', Completing) => OneOf(rx', Completing)
  BY DEF NoneOf, OneOf
<1>12. Lone'
  BY <1>3, <1>8, <1>9, <1>11 DEF IInv, Exchange, Lone
<1>13. Exchange'
  BY <1>2, <1>10, <1>12 DEF IInv, Exchange, HeadIsSent
<1> QED
  BY <1>4, <1>5, <1>6, <1>7, <1>13 DEF IInv

\* CONNACK, or something else in its place.
LEMMA ConnackIInv == ASSUME IInv, ReceiveConnack PROVE IInv'
<1>1. /\ rx # <<>> /\ rx' = <<>> /\ pc' = "callback" /\ timer' = "keepalive"
      /\ UNCHANGED <<nextId, queue, sending, published, pubacked, received,
                     connects, calls, incoming>>
  BY DEF ReceiveConnack, RestartKeepalive, ledger, bounds
<1>2. link = "up" /\ rx \in Seq(Down) /\ Head(rx) = rx[1] /\ 1 \in 1..Len(rx)
  BY <1>1 DEF IInv, Places, TypeOK
<1>3. /\ rx' \in Seq(Down) /\ timer' \in Armed \cup {"off", "missed"}
      /\ mishaps' \subseteq {"send_failed", "segment_dropped", "closed_early"}
      /\ told' \subseteq {"connect", "connfail", "offline"}
  <2>1. <<>> \in Seq(Down)
    OBVIOUS
  <2>2. rx' \in Seq(Down)
    BY <1>1, <2>1
  <2>3. mishaps' \subseteq {"send_failed", "segment_dropped", "closed_early"}
    BY DEF ReceiveConnack, IInv, TypeOK
  <2>4. told' \subseteq {"connect", "connfail", "offline"}
    BY DEF ReceiveConnack, IInv, TypeOK
  <2> QED
    BY <1>1, <2>2, <2>3, <2>4 DEF Armed
<1>4. CASE Head(rx).type = "CONNACK"
  <2>1. /\ connState = "CONNECT_SENT" /\ connState' = "DATA" /\ keepalive_sent' = FALSE
        /\ UNCHANGED <<link, wire, due, down, silent>>
    BY <1>2, <1>4 DEF ReceiveConnack, IInv, Handshake, brokerVars
  <2>2. TypeOK'
    <3>1. keepalive_sent' \in BOOLEAN
      BY <2>1
    <3> QED
      BY <1>1, <1>3, <2>1, <3>1 DEF IInv, TypeOK
  <2>3. Places'
    BY <1>1, <1>2, <2>1 DEF IInv, Places, NeedsAnswer
  <2>4. Handshake'
    BY <2>1 DEF Handshake
  <2>5. InFlightIsHead'
    BY <1>1, <2>1 DEF IInv, InFlightIsHead
  <2>6. NoneOf(rx', Completing) /\ OneOf(rx', Completing)
    BY <1>1 DEF NoneOf, OneOf
  <2>7. Quiet => Quiet'
    BY <2>1, <2>6 DEF Quiet
  <2>8. Lone'
    BY <2>1, <2>6 DEF IInv, Exchange, Lone
  <2>9. Exchange'
    BY <1>1, <2>1, <2>7, <2>8 DEF IInv, Exchange, HeadIsSent
  <2> QED
    BY <2>2, <2>3, <2>4, <2>5, <2>9 DEF IInv
<1>5. CASE Head(rx).type # "CONNACK"
  <2>1. /\ connState' = "INIT" /\ link' = "closing"
        /\ wire' = <<>> /\ due' = <<>> /\ down' = <<>>
        /\ UNCHANGED <<silent, keepalive_sent>>
    BY <1>5 DEF ReceiveConnack, DoDisconnect
  <2>2. wire' \in Seq(Wire) /\ due' \in Seq(Wire) /\ down' \in Seq(Down)
    BY <2>1
  <2>3. TypeOK'
    BY <1>1, <1>3, <2>1, <2>2 DEF IInv, TypeOK
  <2> QED
    BY <1>1, <2>1, <2>3, EmptyIInv
<1> QED
  BY <1>4, <1>5

\* The queue after a message; only an answer can take its head away.
LEMMA HandledFacts ==
  ASSUME NEW q \in Seq(Node), NEW m \in Down
  PROVE  /\ Handled(q, m) \in Seq(Node)
         /\ m.type \notin Completing /\ q # <<>> =>
              Handled(q, m) # <<>> /\ Head(Handled(q, m)) = Head(q)
<1>1. m.id \in Nat /\ m.type \in FromBroker
  BY DEF Down
<1>2. ASSUME NEW p \in Seq(Node), NEW type \in ToBroker
      PROVE  /\ Enqueued(p, type, m.id, 0) \in Seq(Node)
             /\ p # <<>> => /\ Enqueued(p, type, m.id, 0) # <<>>
                            /\ Head(Enqueued(p, type, m.id, 0)) = Head(p)
  <2> DEFINE n == [type |-> type, id |-> m.id, qos |-> 0, sent |-> FALSE]
  <2>1. n \in Node
    BY <1>1 DEF Node
  <2>2. Enqueued(p, type, m.id, 0) = Append(p, n)
    BY DEF Enqueued
  <2> HIDE DEF n
  <2> QED
    BY <2>1, <2>2
<1>3. "PUBACK" \in ToBroker /\ "PUBREC" \in ToBroker /\ "PINGRESP" \in ToBroker
      /\ FollowUp(m.type) \in ToBroker
  BY DEF ToBroker, FollowUp
<1>4. CASE Matches(q, m)
  <2>1. q # <<>> /\ m.type \in Completing
    BY <1>4 DEF Matches
  <2>2. Tail(q) \in Seq(Node)
    BY <2>1
  <2>3. Handled(q, m) = IF m.type \in Continuing
                        THEN Enqueued(Tail(q), FollowUp(m.type), m.id, 0)
                        ELSE Tail(q)
    BY <1>4, <2>1 DEF Handled, Completing
  <2> QED
    BY <1>2, <1>3, <2>1, <2>2, <2>3
<1>5. CASE ~Matches(q, m)
  <2>1. \/ Handled(q, m) = Enqueued(q, "PUBACK", m.id, 0)
        \/ Handled(q, m) = Enqueued(q, "PUBREC", m.id, 0)
        \/ Handled(q, m) = Enqueued(q, "PINGRESP", m.id, 0)
        \/ Handled(q, m) = q
    BY <1>5 DEF Handled
  <2> QED
    BY <1>2, <1>3, <2>1
<1> QED
  BY <1>4, <1>5

\* A message on an established connection.
LEMMA DataIInv == ASSUME IInv, ReceiveData PROVE IInv'
<1> DEFINE m == Head(rx)
<1>1. /\ rx # <<>> /\ rx' = Tail(rx) /\ queue' = Handled(queue, m) /\ connState = "DATA"
      /\ UNCHANGED <<connState, nextId, link, told, sending, timer, wire, mishaps,
                     due, down, silent, published, received, connects, calls, incoming>>
  BY DEF ReceiveData, brokerVars, bounds
<1>2. /\ queue \in Seq(Node) /\ rx \in Seq(Down) /\ m \in Down /\ rx' \in Seq(Down)
      /\ m = rx[1] /\ 1 \in 1..Len(rx)
  BY <1>1 DEF IInv, TypeOK
<1>3. /\ queue' \in Seq(Node)
      /\ m.type \notin Completing /\ queue # <<>> =>
           queue' # <<>> /\ Head(queue') = Head(queue)
  BY <1>1, <1>2, HandledFacts
<1>4. pubacked' \in Nat
  BY DEF ReceiveData, IInv, TypeOK
<1>5. keepalive_sent' \in BOOLEAN /\ pc' \in {"next", "callback"}
  BY DEF ReceiveData
<1>6. TypeOK'
  BY <1>1, <1>2, <1>3, <1>4, <1>5 DEF IInv, TypeOK
<1>7. Places'
  BY <1>1, <1>5 DEF IInv, Places, NeedsAnswer
<1>8. Handshake'
  BY <1>1 DEF Handshake
<1>9. /\ NoneOf(rx, Completing) => NoneOf(rx', Completing)
      /\ OneOf(rx, Completing) => OneOf(rx', Completing)
      /\ OneOf(rx, Completing) /\ m.type \in Completing => NoneOf(rx', Completing)
  BY <1>1, <1>2, TailCounts
<1>10. CASE m.type \in Completing
  <2>1. ~NoneOf(rx, Completing)
    BY <1>2, <1>10 DEF NoneOf
  <2>2. wire = <<>>
    BY <2>1 DEF IInv, Exchange, Quiet
  <2>3. NoneOf(due, Asking) /\ NoneOf(down, Completing) /\ OneOf(rx, Completing)
    BY <2>1 DEF IInv, Exchange, Lone
  <2>4. Quiet'
    BY <1>1, <1>9, <1>10, <2>3 DEF Quiet
  <2>5. Lone'
    BY <2>4 DEF Quiet, Lone, NoneOf, OneOf
  <2>6. InFlightIsHead' /\ Exchange'
    BY <1>1, <2>2, <2>4, <2>5 DEF InFlightIsHead, Exchange
  <2> QED
    BY <1>6, <1>7, <1>8, <2>6 DEF IInv
<1>11. CASE m.type \notin Completing
  <2> HIDE DEF m
  <2>1. InFlightIsHead'
    BY <1>1, <1>3, <1>11 DEF IInv, InFlightIsHead
  <2>2. Quiet => Quiet'
    BY <1>1, <1>9 DEF Quiet
  <2>3. Lone'
    BY <1>1, <1>9 DEF IInv, Exchange, Lone
  <2>4. Exchange'
    BY <1>1, <1>3, <1>11, <2>2, <2>3 DEF IInv, Exchange, HeadIsSent
  <2> QED
    BY <1>6, <1>7, <1>8, <2>1, <2>4 DEF IInv
<1> QED
  BY <1>10, <1>11

\* The end of mqtt_socket_received().
LEMMA EndsIInv == ASSUME IInv, SegmentEnds PROVE IInv'
<1>1. /\ SendIfPossible(queue, sending, wire, timer) /\ pc' = "idle" /\ rx = <<>>
      /\ UNCHANGED <<connState, keepalive_sent, nextId, link, told, rx, due, down, silent,
                     published, pubacked, received, connects, calls, incoming>>
  BY DEF SegmentEnds, brokerVars, ledger, bounds
<1>2. queue \in Seq(Node) /\ wire \in Seq(Wire) /\ sending \in BOOLEAN
      /\ timer \in Armed \cup {"off", "missed"}
      /\ mishaps \subseteq {"send_failed", "segment_dropped", "closed_early"}
  BY DEF IInv, TypeOK
<1>3. ~sending => wire = <<>>
  BY DEF IInv, InFlightIsHead
<1>4. /\ queue' \in Seq(Node) /\ wire' \in Seq(Wire) /\ sending' \in BOOLEAN
      /\ timer' \in Armed \cup {"off", "missed"}
      /\ mishaps' \subseteq {"send_failed", "segment_dropped", "closed_early"}
  BY <1>1, <1>2, <1>3, SendFacts
<1>5. TypeOK'
  BY <1>1, <1>4 DEF IInv, TypeOK
<1> QED
  BY <1>1, <1>2, <1>5, SendKeeps
-----------------------------------------------------------------------------
(* The broker.                                                              *)

\* A step of the broker that only adds message m on its way to the client, no answer
\* to a pending message, on a connection whose CONNECT was acknowledged.
LEMMA AddDownIInv ==
  ASSUME IInv, NEW m \in Down, m.type \notin Completing,
         down' = Append(down, m), TypeOK', link = "up",
         connState = "CONNECT_SENDING" => m.type = "OTHER",
         UNCHANGED <<connState, sending, queue, link, wire, due, rx, pc>>
  PROVE  IInv'
<1>1. down \in Seq(Down)
  BY DEF IInv, TypeOK
<1>2. /\ NoneOf(down, Completing) => NoneOf(down', Completing)
      /\ OneOf(down, Completing) => OneOf(down', Completing)
  BY <1>1, AppendCounts
<1>3. Places'
  BY DEF IInv, Places, NeedsAnswer
<1>4. Handshake'
  <2>1. \A i \in 1..Len(down') : down'[i] = m \/ \E j \in 1..Len(down) : down'[i] = down[j]
    BY <1>1
  <2> QED
    BY <2>1 DEF IInv, Handshake
<1>5. InFlightIsHead'
  BY DEF IInv, InFlightIsHead
<1>6. /\ NoneOf(due', Asking) <=> NoneOf(due, Asking)
      /\ OneOf(due', Asking) <=> OneOf(due, Asking)
      /\ NoneOf(rx', Completing) <=> NoneOf(rx, Completing)
      /\ OneOf(rx', Completing) <=> OneOf(rx, Completing)
  OBVIOUS
<1>7. Quiet => Quiet'
  BY <1>2, <1>6 DEF Quiet
<1>8. Lone'
  BY <1>2, <1>6 DEF IInv, Exchange, Lone
<1>9. Exchange'
  BY <1>7, <1>8 DEF IInv, Exchange, HeadIsSent
<1> QED
  BY <1>3, <1>4, <1>5, <1>9 DEF IInv

\* A publication of the broker is no answer.
LEMMA PublishesIInv == ASSUME IInv, BrokerPublishes PROVE IInv'
<1>1. PICK qos \in 0..2 : down' = Append(down, Msg("PUBLISH", incoming + 1, qos))
  BY DEF BrokerPublishes
<1> DEFINE m == Msg("PUBLISH", incoming + 1, qos)
<1>2. m \in Down /\ m.type = "PUBLISH" /\ m.type \notin Completing
  BY DEF IInv, TypeOK, Msg, Down, FromBroker, Completing
<1>3. down' = Append(down, m)
  BY <1>1
<1> HIDE DEF m
<1>4. /\ link = "up" /\ incoming' = incoming + 1
      /\ UNCHANGED <<connState, keepalive_sent, nextId, link, told, sending, timer, queue,
                     wire, mishaps, rx, pc, due, silent, published, pubacked, received,
                     connects, calls>>
  BY DEF BrokerPublishes, sendVars, rxVars, ledger
<1>5. down' \in Seq(Down) /\ incoming' \in Nat
  BY <1>2, <1>3, <1>4 DEF IInv, TypeOK
<1>6. TypeOK'
  BY <1>4, <1>5 DEF IInv, TypeOK
<1>7. connState # "CONNECT_SENDING"
  BY DEF BrokerPublishes, IInv, Handshake
<1> QED
  BY <1>2, <1>3, <1>4, <1>6, <1>7, AddDownIInv

\* A server of another protocol.
LEMMA BannerIInv == ASSUME IInv, Banner PROVE IInv'
<1> DEFINE m == Msg("OTHER", 0, 0)
<1>1. m \in Down /\ m.type = "OTHER" /\ m.type \notin Completing
  BY DEF Msg, Down, FromBroker, Completing
<1>2. /\ link = "up" /\ down = <<>> /\ down' = <<m>>
      /\ UNCHANGED <<connState, keepalive_sent, nextId, link, told, sending, timer, queue,
                     wire, mishaps, rx, pc, due, silent, published, pubacked, received,
                     connects, calls, incoming>>
  BY DEF Banner, sendVars, rxVars, ledger, bounds
<1> HIDE DEF m
<1>3. down' = Append(down, m) /\ down' \in Seq(Down)
  BY <1>1, <1>2
<1>4. TypeOK'
  BY <1>2, <1>3 DEF IInv, TypeOK
<1> QED
  BY <1>1, <1>2, <1>3, <1>4, AddDownIInv

\* What a request may be answered with.
LEMMA AnswerFacts ==
  ASSUME NEW d \in Wire, NeedsAnswer(d), NEW type \in AnswerTypes(d)
  PROVE  type \in FromBroker /\ (type \in Completing => d.type \in Asking)
  BY DEF NeedsAnswer, AnswerTypes, FromBroker, Completing, Asking

\* An answer takes the place of its request.
LEMMA AnswersIInv == ASSUME IInv, BrokerAnswers PROVE IInv'
<1>1. PICK i \in 1..Len(due) : /\ due' = RemoveAt(due, i)
                               /\ \E type \in AnswerTypes(due[i]) :
                                    down' = Append(down, Msg(type, due[i].id, 0))
  BY DEF BrokerAnswers
<1>2. PICK type \in AnswerTypes(due[i]) : down' = Append(down, Msg(type, due[i].id, 0))
  BY <1>1
<1>3. /\ link = "up" /\ due \in Seq(Wire) /\ down \in Seq(Down) /\ due[i] \in Wire
      /\ NeedsAnswer(due[i]) /\ \A k \in 1..Len(due) : NeedsAnswer(due[k])
      /\ UNCHANGED <<connState, keepalive_sent, nextId, link, told, sending, timer, queue,
                     wire, mishaps, rx, pc, silent, published, pubacked, received,
                     connects, calls, incoming>>
  BY DEF BrokerAnswers, IInv, TypeOK, Places, sendVars, rxVars, ledger, bounds
<1> DEFINE m == Msg(type, due[i].id, 0)
<1>4. type \in FromBroker /\ (type \in Completing => due[i].type \in Asking)
  BY <1>3, AnswerFacts
<1>5. m \in Down /\ m.type = type
  BY <1>3, <1>4 DEF Msg, Down, Wire
<1>6. down' = Append(down, m)
  BY <1>2
<1> HIDE DEF m
<1>7. /\ due' \in Seq(Wire)
      /\ \A j \in 1..Len(due') : \E k \in 1..Len(due) : due'[j] = due[k]
      /\ NoneOf(due, Asking) => NoneOf(due', Asking)
      /\ OneOf(due, Asking) => OneOf(due', Asking)
      /\ OneOf(due, Asking) /\ due[i].type \in Asking => NoneOf(due', Asking)
  <2> DEFINE r == RemoveAt(due, i)
  <2>1. /\ r \in Seq(Wire)
        /\ \A j \in 1..Len(r) : \E k \in 1..Len(due) : k # i /\ r[j] = due[k]
        /\ NoneOf(due, Asking) => NoneOf(r, Asking)
        /\ OneOf(due, Asking) => OneOf(r, Asking)
        /\ OneOf(due, Asking) /\ due[i].type \in Asking => NoneOf(r, Asking)
    BY <1>3, RemoveCounts, Zenon
  <2>2. due' = r
    BY <1>1
  <2> HIDE DEF r
  <2> QED
    BY <2>1, <2>2
<1>8. /\ down' \in Seq(Down)
      /\ NoneOf(down, Completing) /\ type \notin Completing => NoneOf(down', Completing)
      /\ NoneOf(down, Completing) => OneOf(down', Completing)
      /\ OneOf(down, Completing) /\ type \notin Completing => OneOf(down', Completing)
  BY <1>3, <1>5, <1>6, AppendCounts
<1>9. TypeOK'
  BY <1>3, <1>7, <1>8 DEF IInv, TypeOK
<1>10. Places'
  <2>1. \A j \in 1..Len(due') : NeedsAnswer(due'[j])
    BY <1>3, <1>7
  <2>2. pc' = "idle" => rx' = <<>>
    BY <1>3 DEF IInv, Places
  <2> QED
    BY <1>3, <2>1, <2>2 DEF Places, NeedsAnswer
<1>11. Handshake'
  <2>1. connState # "CONNECT_SENDING"
    BY <1>3 DEF IInv, Handshake
  <2> QED
    BY <1>3, <2>1 DEF Handshake
<1>12. InFlightIsHead'
  BY <1>3 DEF IInv, InFlightIsHead
<1>13. /\ NoneOf(rx', Completing) <=> NoneOf(rx, Completing)
       /\ OneOf(rx', Completing) <=> OneOf(rx, Completing)
  BY <1>3
<1>14. CASE due[i].type \in Asking
  <2>1. ~NoneOf(due, Asking)
    BY <1>14 DEF NoneOf
  <2>2. wire = <<>> /\ HeadIsSent
    BY <2>1 DEF IInv, Exchange, Quiet
  <2>3. OneOf(due, Asking) /\ NoneOf(down, Completing) /\ NoneOf(rx, Completing)
    BY <2>1 DEF IInv, Exchange, Lone
  <2>4. OneOf(rx', Completing) /\ OneOf(due', Asking)
    BY <1>7, <1>13, <2>3 DEF NoneOf, OneOf
  <2>5. Lone'
    BY <1>7, <1>8, <1>13, <1>14, <2>3 DEF Lone
  <2>6. Exchange'
    BY <1>3, <2>2, <2>5 DEF Exchange, HeadIsSent
  <2> QED
    BY <1>9, <1>10, <1>11, <1>12, <2>6 DEF IInv
<1>15. CASE due[i].type \notin Asking
  <2>1. type \notin Completing
    BY <1>4, <1>15
  <2>2. Quiet => Quiet'
    BY <1>7, <1>8, <1>13, <2>1 DEF Quiet
  <2>3. Lone'
    BY <1>7, <1>8, <1>13, <2>1 DEF IInv, Exchange, Lone
  <2>4. Exchange'
    BY <1>3, <2>2, <2>3 DEF IInv, Exchange, HeadIsSent
  <2> QED
    BY <1>9, <1>10, <1>11, <1>12, <2>4 DEF IInv
<1> QED
  BY <1>14, <1>15

\* The broker becomes silent.
LEMMA StallsIInv == ASSUME IInv, BrokerStalls PROVE IInv'
<1>1. /\ silent' = TRUE
      /\ UNCHANGED <<connState, keepalive_sent, nextId, link, told, sending, timer, queue,
                     wire, mishaps, rx, pc, due, down, published, pubacked, received,
                     connects, calls, incoming>>
  BY DEF BrokerStalls, sendVars, rxVars, ledger, bounds
<1>2. silent' \in BOOLEAN
  BY <1>1
<1>3. TypeOK'
  BY <1>1, <1>2 DEF IInv, TypeOK
<1>4. pc' = "idle" => rx' = <<>>
  BY <1>1 DEF IInv, Places
<1> QED
  BY <1>1, <1>3, <1>4, StillIInv

-----------------------------------------------------------------------------
(* The theorems.                                                            *)

\* Every step of the client, its application, TCP and the broker keeps IInv.
LEMMA NextIInv == IInv /\ [Next]_vars => IInv'
<1> SUFFICES ASSUME IInv, [Next]_vars PROVE IInv'
  OBVIOUS
<1>1. CASE UNCHANGED vars
  <2>1. UNCHANGED <<connState, keepalive_sent, nextId, link, told, sending, timer, queue,
                    wire, mishaps, rx, pc, due, down, silent, published, pubacked,
                    received, connects, calls, incoming>>
    BY <1>1 DEF vars, sendVars, rxVars, brokerVars, ledger, bounds
  <2>2. TypeOK'
    BY <2>1 DEF IInv, TypeOK
  <2>3. pc' = "idle" => rx' = <<>>
    BY <2>1 DEF IInv, Places
  <2> QED
    BY <2>1, <2>2, <2>3, StillIInv
<1>2. CASE mqtt_socket_connect
  BY <1>2, ConnectIInv
<1>3. CASE mqtt_socket_publish \/ mqtt_socket_subscribe \/ mqtt_socket_unsubscribe
           \/ mqtt_socket_close
  BY <1>3, CallsIInv
<1>4. CASE socket_dns_found
  BY <1>4, DnsIInv
<1>5. CASE mqtt_socket_connected
  BY <1>5, ConnectedIInv
<1>6. CASE mqtt_socket_reconnected \/ mqtt_socket_disconnected
  BY <1>6, EndIInv
<1>7. CASE mqtt_socket_sent
  BY <1>7, SentIInv
<1>8. CASE mqtt_socket_timer
  BY <1>8, TimerIInv
<1>9. CASE SegmentArrives
  BY <1>9, ArrivesIInv
<1>10. CASE ReceiveConnack
  BY <1>10, ConnackIInv
<1>11. CASE ReceiveData
  BY <1>11, DataIInv
<1>12. CASE SegmentEnds
  BY <1>12, EndsIInv
<1>13. CASE BrokerAnswers
  BY <1>13, AnswersIInv
<1>14. CASE BrokerPublishes
  BY <1>14, PublishesIInv
<1>15. CASE Banner
  BY <1>15, BannerIInv
<1>16. CASE BrokerStalls
  BY <1>16, StallsIInv
<1> QED
  BY <1>1, <1>2, <1>3, <1>4, <1>5, <1>6, <1>7, <1>8, <1>9, <1>10, <1>11, <1>12, <1>13,
     <1>14, <1>15, <1>16 DEF Next

\* The inductive invariant holds in every state of every behaviour.
LEMMA InvHolds == Spec => []IInv
  BY InitIInv, NextIInv, PTL DEF Spec

\* mqtt_socket_sent() never takes a wrong message for the one that TCP acknowledged:
\* whatever the application calls from a callback, however the broker orders its
\* answers and whenever the timer fires, the one message on its way is the head of
\* the queue and is marked as sent.
THEOREM InFlightAlwaysHead == Spec => []InFlightIsHead
<1>1. IInv => InFlightIsHead
  BY DEF IInv
<1> QED
  BY <1>1, InvHolds, PTL

\* At most one answer to a pending message is owed, on its way or in the segment being
\* worked on, and while there is one the head of the queue is sent and nothing is on its
\* way to the broker: the client of mqtt.c is strictly stop-and-wait.
THEOREM StopAndWait == Spec => []Exchange
<1>1. IInv => Exchange
  BY DEF IInv
<1> QED
  BY <1>1, InvHolds, PTL

\* Every variable of the client and of its surroundings keeps its type; the message id
\* stays below the number of ids although the counter is incremented for ever.
THEOREM TypesAlwaysOK == Spec => []TypeOK
<1>1. IInv => TypeOK
  BY DEF IInv
<1> QED
  BY <1>1, InvHolds, PTL
-----------------------------------------------------------------------------
(* The ledger: every publish() is accounted for.  That a callback never     *)
(* comes before the broker has the message is not inductive either: what    *)
(* counts is that every answer under way, and every PUBREL pending, stands  *)
(* for a publication that the broker's TCP has acknowledged and of which    *)
(* the application was not told.                                            *)

Publications == {"PUBLISH", "PUBREL"}
Answers == {"PUBACK", "PUBREC"}

\* The broker has a publication, and the client has not seen its answer to it.
Answering == \/ ~NoneOf(due, {"PUBLISH"})
             \/ ~NoneOf(down, Answers)
             \/ ~NoneOf(rx, Answers)

\* Without a connection nothing is pending, armed or being received.
NothingPending == /\ ~connected => queue = <<>> /\ timer = "off" /\ pc = "idle"
                  /\ link \in {"resolving", "connecting"} => published = 0 /\ pubacked = 0

Published == connected => published = pubacked + Cardinality(Pending(queue, Publications))

Reached == pubacked + Cardinality(Pending(queue, {"PUBREL"})) + (IF Answering THEN 1 ELSE 0)
             <= received

LedgerInv == NothingPending /\ Published /\ Reached

\* The positions of a queue are finitely many, none of an empty one.
LEMMA PendingFinite ==
  ASSUME NEW S, NEW q \in Seq(S), NEW T
  PROVE  /\ IsFiniteSet(Pending(q, T)) /\ Cardinality(Pending(q, T)) \in Nat
         /\ q = <<>> => Cardinality(Pending(q, T)) = 0
<1>1. IsFiniteSet(1..Len(q))
  BY FS_Interval
<1>2. Pending(q, T) \in SUBSET (1..Len(q))
  BY DEF Pending
<1>3. IsFiniteSet(Pending(q, T))
  BY <1>1, <1>2, FS_Subset
<1>4. q = <<>> => Pending(q, T) = {}
  BY DEF Pending
<1> QED
  BY <1>3, <1>4, FS_CardinalityType, FS_EmptySet

\* msg_enqueue() adds one message.
LEMMA PendingJoins ==
  ASSUME NEW S, NEW q \in Seq(S), NEW n \in S, NEW T
  PROVE  Cardinality(Pending(Append(q, n), T))
           = Cardinality(Pending(q, T)) + (IF n.type \in T THEN 1 ELSE 0)
<1> DEFINE p == Append(q, n)
           k == Len(q) + 1
<1>1. /\ Len(p) = k /\ p[k] = n /\ 1..Len(p) = (1..Len(q)) \cup {k}
      /\ k \notin 1..Len(q) /\ \A i \in 1..Len(q) : p[i] = q[i]
  OBVIOUS
<1> HIDE DEF p, k
<1>2. k \notin Pending(q, T)
  BY <1>1 DEF Pending
<1>3. n.type \in T => Pending(p, T) = Pending(q, T) \cup {k}
  BY <1>1 DEF Pending
<1>4. n.type \notin T => Pending(p, T) = Pending(q, T)
  BY <1>1 DEF Pending
<1>5. IsFiniteSet(Pending(q, T)) /\ Cardinality(Pending(q, T)) \in Nat
  BY PendingFinite
<1>6. Cardinality(Pending(q, T) \cup {k}) = Cardinality(Pending(q, T)) + 1
  BY <1>2, <1>5, FS_AddElement
<1>7. Cardinality(Pending(p, T)) = Cardinality(Pending(q, T)) + (IF n.type \in T THEN 1 ELSE 0)
  <2>1. CASE n.type \in T
    BY <2>1, <1>3, <1>6
  <2>2. CASE n.type \notin T
    <3>1. Cardinality(Pending(p, T)) = Cardinality(Pending(q, T))
      BY <2>2, <1>4
    <3> QED
      BY <3>1, <2>2, <1>5
  <2> QED
    BY <2>1, <2>2
<1> QED
  BY <1>7 DEF p

\* msg_dequeue() takes the head away.
LEMMA PendingLeaves ==
  ASSUME NEW S, NEW q \in Seq(S), q # <<>>, NEW T
  PROVE  Cardinality(Pending(q, T))
           = Cardinality(Pending(Tail(q), T)) + (IF Head(q).type \in T THEN 1 ELSE 0)
<1> DEFINE p == Tail(q)
           A == Pending(p, T)
           B == Pending(q, T)
           f == [i \in A |-> i + 1]
<1>1. /\ p \in Seq(S) /\ Len(p) = Len(q) - 1 /\ Len(q) \in Nat \ {0}
      /\ Head(q) = q[1] /\ \A i \in 1..Len(p) : p[i] = q[i + 1]
  OBVIOUS
<1> HIDE DEF p
<1>2. A \subseteq 1..Len(p) /\ B \subseteq 1..Len(q)
  BY DEF Pending
<1>3. \A i \in A : i + 1 \in B \ {1}
  BY <1>1 DEF Pending
<1>4. \A j \in B \ {1} : j - 1 \in A /\ (j - 1) + 1 = j
  <2> SUFFICES ASSUME NEW j \in B \ {1} PROVE j - 1 \in A /\ (j - 1) + 1 = j
    OBVIOUS
  <2>1. j \in 1..Len(q) /\ j # 1 /\ q[j].type \in T
    BY DEF Pending
  <2>2. j - 1 \in 1..Len(p) /\ (j - 1) + 1 = j
    BY <1>1, <2>1
  <2>3. p[j - 1] = q[j]
    BY <1>1, <2>2
  <2> QED
    BY <2>1, <2>2, <2>3 DEF Pending
<1>5. IsFiniteSet(A) /\ IsFiniteSet(B) /\ Cardinality(A) \in Nat /\ Cardinality(B) \in Nat
  BY <1>1, PendingFinite
<1>6. 1 \in B <=> Head(q).type \in T
  BY <1>1 DEF Pending
<1> HIDE DEF A, B
<1>7. f \in [A -> B \ {1}]
  BY <1>3
<1>8. \A a, b \in A : f[a] = f[b] => a = b
  BY <1>2
<1>9. \A t \in B \ {1} : \E s \in A : f[s] = t
  BY <1>4
<1>10. f \in Bijection(A, B \ {1})
  BY <1>7, <1>8, <1>9, Fun_IsBij
<1>11. ExistsBijection(A, B \ {1})
  BY <1>10 DEF ExistsBijection
<1>12. Cardinality(B \ {1}) = Cardinality(A)
  BY <1>5, <1>11, FS_Bijection
<1>13. Cardinality(B \ {1}) = IF 1 \in B THEN Cardinality(B) - 1 ELSE Cardinality(B)
  BY <1>5, FS_RemoveElement
<1>14. Cardinality(B) = Cardinality(A) + (IF Head(q).type \in T THEN 1 ELSE 0)
  BY <1>5, <1>6, <1>12, <1>13
<1> QED
  BY <1>14 DEF A, B, p

\* mqtt_send_if_possible() marks the head and takes no message away.
LEMMA PendingSent ==
  ASSUME NEW q \in Seq(Node), NEW s, NEW w, NEW t, NEW T, SendIfPossible(q, s, w, t)
  PROVE  Pending(queue', T) = Pending(q, T)
<1>1. CASE q # <<>> /\ queue' = [q EXCEPT ![1].sent = TRUE]
  <2> DEFINE r == [q[1] EXCEPT !.sent = TRUE]
  <2>1. q[1] \in Node /\ 1 \in 1..Len(q)
    BY <1>1
  <2>2. r \in Node /\ r.type = q[1].type
    BY <2>1 DEF Node
  <2>3. queue' = [q EXCEPT ![1] = r]
    BY <1>1
  <2> HIDE DEF r
  <2>4. Len(queue') = Len(q) /\ \A i \in 1..Len(q) : queue'[i].type = q[i].type
    BY <2>1, <2>2, <2>3, ExceptSeq
  <2> QED
    BY <2>4 DEF Pending
<1>2. CASE queue' = q
  BY <1>2
<1> QED
  BY <1>1, <1>2 DEF SendIfPossible

\* Nothing was published before the first connect().
LEMMA LedgerInit == Init => LedgerInv
<1> SUFFICES ASSUME Init PROVE LedgerInv
  OBVIOUS
<1>1. queue = <<>> /\ <<>> \in Seq(Node) /\ link = "none" /\ pubacked = 0 /\ received = 0
      /\ due = <<>> /\ down = <<>> /\ rx = <<>>
  BY DEF Init
<1>2. Cardinality(Pending(queue, {"PUBREL"})) = 0
  BY <1>1, PendingFinite
<1>3. ~Answering
  BY <1>1 DEF Answering, NoneOf
<1> QED
  BY <1>1, <1>2, <1>3 DEF LedgerInv, NothingPending, Published, Reached, connected, Init

\* A step that takes no message off the queue but one that is no publication, counts
\* nothing and brings no answer.
LEMMA LedgerStill ==
  ASSUME IInv, IInv', LedgerInv,
         Cardinality(Pending(queue', Publications)) = Cardinality(Pending(queue, Publications)),
         Cardinality(Pending(queue', {"PUBREL"})) = Cardinality(Pending(queue, {"PUBREL"})),
         Answering' => Answering, connected, connected',
         UNCHANGED <<published, pubacked, received>>
  PROVE  LedgerInv'
<1>1. Published'
  BY DEF LedgerInv, Published
<1>2. /\ pubacked \in Nat /\ received \in Nat
      /\ Cardinality(Pending(queue, {"PUBREL"})) \in Nat
  BY PendingFinite DEF IInv, TypeOK
<1>3. Reached'
  BY <1>2 DEF LedgerInv, Reached
<1> QED
  BY <1>1, <1>3 DEF LedgerInv, NothingPending, connected

\* The end of a connection, and the lookup for the next one: nothing is pending.
LEMMA LedgerEmpty ==
  ASSUME IInv, LedgerInv, queue' = <<>>, due' = <<>>, down' = <<>>, rx' = <<>>, ~connected',
         timer' = "off", pc' = "idle",
         link' \in {"resolving", "connecting"} => published' = 0 /\ pubacked' = 0,
         (pubacked' = 0 /\ received' = 0) \/ UNCHANGED <<pubacked, received>>
  PROVE  LedgerInv'
<1>1. queue \in Seq(Node) /\ <<>> \in Seq(Node) /\ pubacked \in Nat /\ received \in Nat
  BY DEF IInv, TypeOK
<1>2. Cardinality(Pending(queue, {"PUBREL"})) \in Nat
  BY <1>1, PendingFinite
<1>3. Cardinality(Pending(queue', {"PUBREL"})) = 0
  BY <1>1, PendingFinite
<1>4. ~Answering'
  BY DEF Answering, NoneOf
<1>5. pubacked <= received
  BY <1>1, <1>2 DEF LedgerInv, Reached
<1>6. Reached'
  BY <1>1, <1>3, <1>4, <1>5 DEF Reached
<1> QED
  BY <1>6 DEF LedgerInv, NothingPending, Published

\* connect(), lookups and the ends of connections.
LEMMA LedgerLinks ==
  ASSUME IInv, LedgerInv,
         \/ mqtt_socket_connect \/ socket_dns_found
         \/ mqtt_socket_reconnected \/ mqtt_socket_disconnected
  PROVE  LedgerInv'
<1>1. CASE mqtt_socket_connect
  <2>1. /\ queue' = <<>> /\ due' = <<>> /\ down' = <<>> /\ rx' = <<>>
        /\ published' = 0 /\ pubacked' = 0 /\ received' = 0
        /\ link' \in {"none", "resolving"} /\ timer' = "off" /\ pc' = "idle"
    BY <1>1 DEF mqtt_socket_connect, IInv, Places, LedgerInv, NothingPending, connected,
                rxVars, brokerVars
  <2> QED
    BY <2>1, LedgerEmpty DEF connected
<1>2. ASSUME NEW cbs, Disconnected(cbs), pc = "idle" PROVE LedgerInv'
  <2>1. /\ queue' = <<>> /\ due' = <<>> /\ down' = <<>> /\ rx' = <<>> /\ link' = "none"
        /\ timer' = "off" /\ pc' = "idle" /\ UNCHANGED <<pubacked, received>>
    BY <1>2 DEF Disconnected, IInv, Places, rxVars, ledger
  <2> QED
    BY <2>1, LedgerEmpty DEF connected
<1>3. CASE socket_dns_found
  <2>1. CASE Disconnected({"connfail"})
    BY <1>2, <1>3, <2>1 DEF socket_dns_found
  <2>2. CASE /\ link' = "connecting"
             /\ UNCHANGED <<keepalive_sent, nextId, told, sendVars, rxVars,
                            brokerVars, ledger, bounds>>
    <3>1. /\ link = "resolving" /\ queue = <<>> /\ published = 0 /\ pubacked = 0
          /\ due = <<>> /\ down = <<>> /\ rx = <<>> /\ timer = "off" /\ pc = "idle"
      BY <1>3 DEF socket_dns_found, IInv, Places, LedgerInv, NothingPending, connected
    <3>2. /\ queue' = <<>> /\ due' = <<>> /\ down' = <<>> /\ rx' = <<>>
          /\ published' = 0 /\ pubacked' = 0 /\ UNCHANGED <<pubacked, received>>
          /\ timer' = "off" /\ pc' = "idle"
      BY <2>2, <3>1 DEF sendVars, rxVars, brokerVars, ledger
    <3> QED
      BY <2>2, <3>2, LedgerEmpty DEF connected
  <2> QED
    BY <1>3, <2>1, <2>2 DEF socket_dns_found
<1>4. CASE mqtt_socket_reconnected \/ mqtt_socket_disconnected
  BY <1>2, <1>4 DEF mqtt_socket_reconnected, mqtt_socket_disconnected
<1> QED
  BY <1>1, <1>3, <1>4

\* TCP is connected: the ledger is empty.
LEMMA LedgerConnected ==
  ASSUME IInv, LedgerInv, mqtt_socket_connected PROVE LedgerInv'
<1>1. /\ link = "connecting" /\ link' = "up" /\ queue = <<>> /\ published = 0 /\ pubacked = 0
      /\ UNCHANGED <<queue, due, down, rx, published, pubacked, received>>
  BY DEF mqtt_socket_connected, LedgerInv, NothingPending, connected, rxVars, brokerVars, ledger
<1>2. due = <<>> /\ down = <<>> /\ rx = <<>> /\ queue \in Seq(Node) /\ received \in Nat
  BY <1>1 DEF IInv, Places, TypeOK
<1>3. \A T : Cardinality(Pending(queue, T)) = 0
  BY <1>1, <1>2, PendingFinite
<1>4. ~Answering'
  BY <1>1, <1>2 DEF Answering, NoneOf
<1> QED
  BY <1>1, <1>2, <1>3, <1>4 DEF LedgerInv, NothingPending, Published, Reached, connected

\* A call of the application queues one message, publish() a publication.
LEMMA LedgerRequest ==
  ASSUME IInv, LedgerInv, NEW type \in ToBroker, NEW id \in Nat, NEW qos \in 0..2,
         Request(type, id, qos), type # "PUBREL",
         published' = published + (IF type = "PUBLISH" THEN 1 ELSE 0)
  PROVE  LedgerInv'
<1> DEFINE n == [type |-> type, id |-> id, qos |-> qos, sent |-> FALSE]
           q == Append(queue, n)
<1>1. n \in Node /\ n.type = type
  BY DEF Node
<1> HIDE DEF n
<1>2. queue \in Seq(Node) /\ q \in Seq(Node)
      /\ published \in Nat /\ pubacked \in Nat /\ received \in Nat
  BY <1>1 DEF IInv, TypeOK
<1>3. SendIfPossible(q, sending, wire, timer)
  BY DEF Request, Enqueued, n
<1>4. /\ connected /\ connected' /\ UNCHANGED <<link, rx, due, down, pubacked, received>>
  BY DEF Request, connected, rxVars, brokerVars
<1>5. \A T : Cardinality(Pending(q, T))
               = Cardinality(Pending(queue, T)) + (IF type \in T THEN 1 ELSE 0)
  BY <1>1, <1>2, PendingJoins
<1> HIDE DEF q
<1>6. \A T : Pending(queue', T) = Pending(q, T)
  BY <1>2, <1>3, PendingSent
<1>7. /\ Cardinality(Pending(queue', Publications))
           = Cardinality(Pending(queue, Publications)) + (IF type = "PUBLISH" THEN 1 ELSE 0)
      /\ Cardinality(Pending(queue', {"PUBREL"})) = Cardinality(Pending(queue, {"PUBREL"})) + 0
  BY <1>5, <1>6 DEF Publications
<1>8. /\ Cardinality(Pending(queue, Publications)) \in Nat
      /\ Cardinality(Pending(queue, {"PUBREL"})) \in Nat
  BY <1>2, PendingFinite
<1>9. Published'
  BY <1>2, <1>4, <1>7, <1>8 DEF LedgerInv, Published
<1>10. Answering' <=> Answering
  BY <1>4 DEF Answering, NoneOf
<1>11. Reached'
  BY <1>2, <1>4, <1>7, <1>8, <1>10 DEF LedgerInv, Reached
<1>12. NothingPending'
  BY <1>4 DEF NothingPending, connected
<1> QED
  BY <1>9, <1>11, <1>12 DEF LedgerInv

\* The calls of the application.
LEMMA LedgerCalls ==
  ASSUME IInv, LedgerInv, \/ mqtt_socket_publish \/ mqtt_socket_subscribe
                          \/ mqtt_socket_unsubscribe \/ mqtt_socket_close
  PROVE  LedgerInv'
<1>1. nextId \in 0 .. IdSpan - 1 /\ published \in Nat
  BY DEF IInv, TypeOK
<1>2. NextMessageId \in Nat
  BY <1>1, SpanAssumption DEF NextMessageId
<1>3. CASE mqtt_socket_publish
  <2>1. PICK qos \in 0..2 : /\ Request("PUBLISH", IF qos = 0 THEN 0 ELSE NextMessageId, qos)
                            /\ published' = published + 1
    BY <1>3 DEF mqtt_socket_publish
  <2> DEFINE id == IF qos = 0 THEN 0 ELSE NextMessageId
  <2>2. id \in Nat /\ Request("PUBLISH", id, qos)
    BY <1>2, <2>1
  <2> HIDE DEF id
  <2> QED
    BY <2>1, <2>2, LedgerRequest DEF ToBroker
<1>4. ASSUME NEW type \in {"SUBSCRIBE", "UNSUBSCRIBE", "DISCONNECT"}, NEW id \in Nat,
             NEW qos \in 0..1, Request(type, id, qos), published' = published
      PROVE  LedgerInv'
  <2>1. /\ type \in ToBroker /\ type # "PUBREL" /\ qos \in 0..2
        /\ published' = published + (IF type = "PUBLISH" THEN 1 ELSE 0)
    BY <1>1, <1>4 DEF ToBroker
  <2> QED
    BY <1>4, <2>1, LedgerRequest
<1>5. CASE mqtt_socket_subscribe
  BY <1>2, <1>4, <1>5 DEF mqtt_socket_subscribe
<1>6. CASE mqtt_socket_unsubscribe
  BY <1>2, <1>4, <1>6 DEF mqtt_socket_unsubscribe
<1>7. CASE mqtt_socket_close
  BY <1>4, <1>7 DEF mqtt_socket_close
<1> QED
  BY <1>3, <1>5, <1>6, <1>7

\* The timer: at most a PINGREQ is queued, or the messages on their way are dropped.
LEMMA LedgerTimer ==
  ASSUME IInv, IInv', LedgerInv, mqtt_socket_timer PROVE LedgerInv'
<1>1. /\ UNCHANGED <<rx, published, pubacked, received>> /\ queue \in Seq(Node) /\ rx = <<>>
      /\ connected
  BY DEF mqtt_socket_timer, rxVars, ledger, IInv, TypeOK, Places, Armed, LedgerInv, NothingPending
<1>2. CASE ConnectTimeout \/ KeepaliveTimeout
  <2>1. link' = "closing" /\ due' = <<>> /\ down' = <<>> /\ UNCHANGED queue
    BY <1>2 DEF ConnectTimeout, KeepaliveTimeout, DoDisconnect
  <2>2. ~Answering' /\ connected'
    BY <1>1, <2>1 DEF Answering, NoneOf, connected
  <2> QED
    BY <1>1, <2>1, <2>2, LedgerStill
<1>3. CASE TimerIgnored \/ TimerStale
  <2>1. UNCHANGED <<link, due, down, queue>>
    BY <1>3 DEF TimerIgnored, TimerStale, brokerVars
  <2>2. (Answering' => Answering) /\ connected'
    BY <1>1, <2>1 DEF Answering, NoneOf, connected
  <2> QED
    BY <1>1, <2>1, <2>2, LedgerStill
<1>4. CASE SendKeepalive
  <2> DEFINE n == [type |-> "PINGREQ", id |-> 0, qos |-> 0, sent |-> FALSE]
             q == Append(queue, n)
  <2>1. n \in Node /\ n.type = "PINGREQ"
    BY DEF Node, ToBroker
  <2> HIDE DEF n
  <2>2. /\ q \in Seq(Node)
        /\ \A T : Cardinality(Pending(q, T))
                   = Cardinality(Pending(queue, T)) + (IF "PINGREQ" \in T THEN 1 ELSE 0)
    BY <1>1, <2>1, PendingJoins
  <2>3. SendIfPossible(q, sending, wire, "off") /\ UNCHANGED <<link, due, down>>
    BY <1>4 DEF SendKeepalive, Enqueued, n, brokerVars
  <2> HIDE DEF q
  <2>4. \A T : Pending(queue', T) = Pending(q, T)
    BY <2>2, <2>3, PendingSent
  <2>5. /\ Cardinality(Pending(queue, Publications)) \in Nat
        /\ Cardinality(Pending(queue, {"PUBREL"})) \in Nat
    BY <1>1, PendingFinite
  <2>6. /\ Cardinality(Pending(queue', Publications)) = Cardinality(Pending(queue, Publications))
        /\ Cardinality(Pending(queue', {"PUBREL"})) = Cardinality(Pending(queue, {"PUBREL"}))
    BY <2>2, <2>4, <2>5 DEF Publications
  <2>7. (Answering' => Answering) /\ connected'
    BY <1>1, <2>3 DEF Answering, NoneOf, connected
  <2> QED
    BY <1>1, <2>6, <2>7, LedgerStill
<1> QED
  BY <1>2, <1>3, <1>4 DEF mqtt_socket_timer

\* mqtt_socket_sent(): a publication without answer is told of as the broker gets it, one
\* with an answer is now the broker's to answer.
LEMMA LedgerSent ==
  ASSUME IInv, IInv', LedgerInv, mqtt_socket_sent PROVE LedgerInv'
<1>1. wire # <<>> /\ pc = "idle" /\ link = "up" /\ connected
  BY DEF mqtt_socket_sent, connected
<1>2. /\ queue \in Seq(Node) /\ wire \in Seq(Wire) /\ due \in Seq(Wire) /\ Head(wire) = wire[1]
      /\ Head(wire) \in Wire /\ rx = <<>> /\ Quiet
      /\ published \in Nat /\ pubacked \in Nat /\ received \in Nat
  BY <1>1 DEF IInv, TypeOK, Places, Exchange
<1>3. /\ UNCHANGED <<rx, pc, published>>
      /\ received' = IF Head(wire).type = "PUBLISH" THEN received + 1 ELSE received
  BY DEF mqtt_socket_sent, rxVars
<1>4. /\ Cardinality(Pending(queue, Publications)) \in Nat
      /\ Cardinality(Pending(queue, {"PUBREL"})) \in Nat
  BY <1>2, PendingFinite
<1>5. NoneOf(due, {"PUBLISH"}) /\ NoneOf(down, Answers) /\ NoneOf(rx, Answers)
  BY <1>2 DEF Quiet, NoneOf, Asking, Completing, Answers
<1>6. ~Answering
  BY <1>5 DEF Answering
<1>7. ASSUME Delivered, Head(wire).type # "PUBLISH" \/ Head(wire).qos = 0
      PROVE  ~Answering'
  <2>1. UNCHANGED down
    BY <1>7 DEF Delivered
  <2>2. NoneOf(due', {"PUBLISH"})
    <3> DEFINE m == Head(wire)
    <3>1. m \in Wire /\ due' = IF NeedsAnswer(m) THEN Append(due, m) ELSE due
      BY <1>2, <1>7 DEF Delivered
    <3>2. NeedsAnswer(m) => m.type \notin {"PUBLISH"}
      BY <1>7 DEF NeedsAnswer
    <3> HIDE DEF m
    <3>3. m.type \notin {"PUBLISH"} => NoneOf(Append(due, m), {"PUBLISH"})
      BY <1>2, <1>5, <3>1, AppendCounts
    <3> QED
      BY <1>5, <3>1, <3>2, <3>3
  <2> QED
    BY <1>3, <1>5, <2>1, <2>2 DEF Answering, NoneOf
<1>8. CASE ConnectSent
  <2>1. Delivered /\ UNCHANGED <<link, queue, pubacked>>
    BY <1>8 DEF ConnectSent
  <2>2. Head(wire).type = "CONNECT"
    BY <1>1, <1>2, <1>8 DEF IInv, InFlightIsHead, ConnectSent
  <2>3. ~Answering' /\ UNCHANGED received /\ connected'
    BY <1>1, <1>3, <1>7, <2>1, <2>2 DEF connected
  <2> QED
    BY <1>1, <1>3, <2>1, <2>3, LedgerStill
<1>9. ASSUME connState # "CONNECT_SENDING"
      PROVE  /\ queue # <<>> /\ Head(queue) \in Node /\ Tail(queue) \in Seq(Node)
             /\ Head(wire).type = Head(queue).type
             /\ Head(wire).qos = Head(queue).qos
             /\ \A T : Cardinality(Pending(queue, T)) = Cardinality(Pending(Tail(queue), T))
                         + (IF Head(queue).type \in T THEN 1 ELSE 0)
             /\ \A T : Cardinality(Pending(Tail(queue), T)) \in Nat
  <2>1. queue # <<>> /\ Head(wire).type = Head(queue).type /\ Head(wire).qos = Head(queue).qos
    BY <1>1, <1>2, <1>9 DEF IInv, InFlightIsHead, Msg
  <2>2. Tail(queue) \in Seq(Node) /\ Head(queue) \in Node
    BY <1>2, <2>1
  <2>3. \A T : Cardinality(Pending(Tail(queue), T)) \in Nat
    BY <2>2, PendingFinite
  <2>4. \A T : Cardinality(Pending(queue, T)) = Cardinality(Pending(Tail(queue), T))
                         + (IF Head(queue).type \in T THEN 1 ELSE 0)
    BY <1>2, <2>1, PendingLeaves
  <2> QED
    BY <2>1, <2>2, <2>3, <2>4
<1>10. CASE HeadDone
  <2>1. /\ connState # "CONNECT_SENDING" /\ DoneWhenSent(Head(queue))
        /\ SendIfPossible(Tail(queue), FALSE, Tail(wire), "keepalive") /\ Delivered
        /\ pubacked' = IF Head(queue).type = "PUBLISH" THEN pubacked + 1 ELSE pubacked
        /\ UNCHANGED link
    BY <1>10 DEF HeadDone
  <2>2. \A T : Pending(queue', T) = Pending(Tail(queue), T)
    BY <1>9, <2>1, PendingSent
  <2>3. ~Answering'
    BY <1>7, <1>9, <2>1 DEF DoneWhenSent
  <2>4. Head(queue).type # "PUBREL"
    BY <2>1 DEF DoneWhenSent
  <2>5. /\ Cardinality(Pending(queue, Publications)) = Cardinality(Pending(queue', Publications))
             + (IF Head(queue).type = "PUBLISH" THEN 1 ELSE 0)
        /\ Cardinality(Pending(queue, {"PUBREL"})) = Cardinality(Pending(queue', {"PUBREL"})) + 0
        /\ Cardinality(Pending(queue', Publications)) \in Nat
        /\ Cardinality(Pending(queue', {"PUBREL"})) \in Nat
    BY <1>9, <2>1, <2>2, <2>4 DEF Publications
  <2>6. received' = IF Head(queue).type = "PUBLISH" THEN received + 1 ELSE received
    BY <1>3, <1>9, <2>1
  <2>7. Published'
    BY <1>1, <1>2, <1>3, <2>1, <2>5 DEF LedgerInv, Published
  <2>8. Reached'
    BY <1>2, <1>6, <2>1, <2>3, <2>5, <2>6 DEF LedgerInv, Reached
  <2>9. NothingPending'
    BY <1>1, <2>1 DEF NothingPending, connected
  <2> QED
    BY <2>7, <2>8, <2>9 DEF LedgerInv
<1>11. CASE DisconnectSent
  <2>1. /\ connState # "CONNECT_SENDING" /\ Head(queue).type = "DISCONNECT"
        /\ queue' = Tail(queue) /\ link' = "closing" /\ due' = <<>> /\ down' = <<>>
        /\ UNCHANGED pubacked
    BY <1>11 DEF DisconnectSent, DoDisconnect
  <2>2. ~Answering' /\ connected' /\ UNCHANGED received
    BY <1>2, <1>3, <1>9, <2>1 DEF Answering, NoneOf, connected
  <2>3. /\ Cardinality(Pending(queue', Publications)) = Cardinality(Pending(queue, Publications))
        /\ Cardinality(Pending(queue', {"PUBREL"})) = Cardinality(Pending(queue, {"PUBREL"}))
    <3>1. "DISCONNECT" \notin Publications /\ "DISCONNECT" \notin {"PUBREL"}
      BY DEF Publications
    <3>2. \A T : "DISCONNECT" \notin T =>
            Cardinality(Pending(queue, T)) = Cardinality(Pending(queue', T)) + 0
      BY <1>9, <2>1
    <3>3. \A T : Cardinality(Pending(queue', T)) \in Nat
      BY <1>9, <2>1
    <3> QED
      BY <3>1, <3>2, <3>3
  <2> QED
    BY <1>1, <1>3, <2>1, <2>2, <2>3, LedgerStill
<1>12. CASE HeadWaits
  <2>1. /\ connState # "CONNECT_SENDING" /\ ~DoneWhenSent(Head(queue)) /\ Delivered
        /\ UNCHANGED <<link, queue, pubacked>>
    BY <1>9, <1>12 DEF HeadWaits
  <2>2. CASE Head(wire).type = "PUBLISH"
    <3>1. received' = received + 1
      BY <1>3, <2>2
    <3>2. Reached'
      BY <1>2, <1>4, <1>6, <2>1, <3>1 DEF LedgerInv, Reached
    <3>3. Published' /\ NothingPending'
      BY <1>1, <1>3, <2>1 DEF LedgerInv, Published, NothingPending, connected
    <3> QED
      BY <3>2, <3>3 DEF LedgerInv
  <2>3. CASE Head(wire).type # "PUBLISH"
    <3>1. ~Answering' /\ connected' /\ UNCHANGED received
      BY <1>1, <1>3, <1>7, <2>1, <2>3 DEF connected
    <3> QED
      BY <1>1, <1>3, <2>1, <3>1, LedgerStill
  <2> QED
    BY <2>2, <2>3
<1> QED
  BY <1>8, <1>10, <1>11, <1>12 DEF mqtt_socket_sent

\* A segment arrives, or the answer to CONNECT is handled: no answer is added.
LEMMA LedgerArrives ==
  ASSUME IInv, IInv', LedgerInv, SegmentArrives \/ ReceiveConnack PROVE LedgerInv'
<1>1. CASE SegmentArrives
  <2>1. PICK n \in 1..Len(down) : /\ rx' = SubSeq(down, 1, n)
                                  /\ down' = SubSeq(down, n + 1, Len(down))
    BY <1>1 DEF SegmentArrives
  <2>2. /\ link = "up" /\ down \in Seq(Down)
        /\ UNCHANGED <<link, queue, due, published, pubacked, received>>
    BY <1>1 DEF SegmentArrives, IInv, TypeOK, sendVars, ledger
  <2>3. rx' \in Seq(Down) /\ Len(rx') = n /\ \A j \in 1..Len(rx') : rx'[j] = down[j]
    BY <2>1, <2>2
  <2>4. /\ down' \in Seq(Down) /\ Len(down') = Len(down) - n
        /\ \A j \in 1..Len(down') : down'[j] = down[n + j]
    BY <2>1, <2>2
  <2>5. NoneOf(down, Answers) => NoneOf(rx', Answers) /\ NoneOf(down', Answers)
    <3>1. ASSUME NEW j \in 1..Len(rx') PROVE j \in 1..Len(down) /\ rx'[j] = down[j]
      BY <2>2, <2>3
    <3>2. ASSUME NEW j \in 1..Len(down') PROVE n + j \in 1..Len(down) /\ down'[j] = down[n + j]
      BY <2>2, <2>4
    <3> QED
      BY <3>1, <3>2, Zenon DEF NoneOf
  <2>6. Answering' => Answering
    BY <2>2, <2>5 DEF Answering
  <2> QED
    BY <2>2, <2>6, LedgerStill DEF connected
<1>2. CASE ReceiveConnack
  <2>1. rx # <<>> /\ rx' = <<>> /\ UNCHANGED <<queue, published, pubacked, received>>
    BY <1>2 DEF ReceiveConnack, ledger
  <2>2. link = "up"
    BY <2>1 DEF IInv, Places
  <2>3. \/ link' = link /\ due' = due /\ down' = down
        \/ link' = "closing" /\ due' = <<>> /\ down' = <<>>
    BY <1>2 DEF ReceiveConnack, DoDisconnect, brokerVars
  <2>4. (Answering' => Answering) /\ connected /\ connected'
    BY <2>1, <2>2, <2>3 DEF Answering, NoneOf, connected
  <2> QED
    BY <2>1, <2>4, LedgerStill
<1> QED
  BY <1>1, <1>2

\* The queue after a message, counted.
LEMMA HandledCounts ==
  ASSUME NEW q \in Seq(Node), NEW m \in Down, NEW T
  PROVE  LET added(type) == IF type \in T THEN 1 ELSE 0
         IN  /\ Matches(q, m) /\ m.type \in Continuing =>
                  Cardinality(Pending(Handled(q, m), T)) + added(AnswersTo[m.type])
                    = Cardinality(Pending(q, T)) + added(FollowUp(m.type))
             /\ Matches(q, m) /\ m.type \notin Continuing =>
                  Cardinality(Pending(Handled(q, m), T)) + added(AnswersTo[m.type])
                    = Cardinality(Pending(q, T))
             /\ ~Matches(q, m) /\ T \subseteq Publications =>
                  Cardinality(Pending(Handled(q, m), T)) = Cardinality(Pending(q, T))
<1> DEFINE added(type) == IF type \in T THEN 1 ELSE 0
<1>1. m.id \in Nat /\ m.type \in FromBroker
  BY DEF Down
<1>2. ASSUME NEW p \in Seq(Node), NEW type \in ToBroker
      PROVE  Cardinality(Pending(Enqueued(p, type, m.id, 0), T))
               = Cardinality(Pending(p, T)) + added(type)
  <2> DEFINE n == [type |-> type, id |-> m.id, qos |-> 0, sent |-> FALSE]
  <2>1. n \in Node /\ n.type = type
    BY <1>1 DEF Node
  <2>2. Enqueued(p, type, m.id, 0) = Append(p, n)
    BY DEF Enqueued
  <2> HIDE DEF n
  <2>3. Cardinality(Pending(Append(p, n), T))
           = Cardinality(Pending(p, T)) + (IF n.type \in T THEN 1 ELSE 0)
    BY <2>1, PendingJoins
  <2> QED
    BY <2>1, <2>2, <2>3
<1>3. Cardinality(Pending(q, T)) \in Nat
  BY PendingFinite
<1>4. ASSUME Matches(q, m)
      PROVE  /\ Tail(q) \in Seq(Node) /\ Cardinality(Pending(Tail(q), T)) \in Nat
             /\ Cardinality(Pending(q, T))
                  = Cardinality(Pending(Tail(q), T)) + added(AnswersTo[m.type])
             /\ Handled(q, m) = IF m.type \in Continuing
                                THEN Enqueued(Tail(q), FollowUp(m.type), m.id, 0)
                                ELSE Tail(q)
  <2>1. q # <<>> /\ Head(q).type = AnswersTo[m.type] /\ m.type \in Completing
    BY <1>4 DEF Matches
  <2>2. Tail(q) \in Seq(Node)
    BY <2>1
  <2>3. Cardinality(Pending(Tail(q), T)) \in Nat
    BY <2>2, PendingFinite
  <2>4. Cardinality(Pending(q, T))
          = Cardinality(Pending(Tail(q), T)) + (IF Head(q).type \in T THEN 1 ELSE 0)
    BY <2>1, PendingLeaves
  <2>5. Handled(q, m) = IF m.type \in Continuing
                        THEN Enqueued(Tail(q), FollowUp(m.type), m.id, 0)
                        ELSE Tail(q)
    BY <1>4, <2>1 DEF Handled, Completing
  <2> QED
    BY <2>1, <2>2, <2>3, <2>4, <2>5
<1>5. ASSUME Matches(q, m), m.type \in Continuing
      PROVE  Cardinality(Pending(Handled(q, m), T)) + added(AnswersTo[m.type])
               = Cardinality(Pending(q, T)) + added(FollowUp(m.type))
  <2>1. FollowUp(m.type) \in ToBroker
    BY DEF FollowUp, ToBroker
  <2>2. Cardinality(Pending(Handled(q, m), T))
          = Cardinality(Pending(Tail(q), T)) + added(FollowUp(m.type))
    BY <1>2, <1>4, <1>5, <2>1
  <2> QED
    BY <1>4, <1>5, <2>2
<1>6. ASSUME Matches(q, m), m.type \notin Continuing
      PROVE  Cardinality(Pending(Handled(q, m), T)) + added(AnswersTo[m.type])
               = Cardinality(Pending(q, T))
  BY <1>4, <1>6
<1>7. ASSUME ~Matches(q, m), T \subseteq Publications
      PROVE  Cardinality(Pending(Handled(q, m), T)) = Cardinality(Pending(q, T))
  <2>1. \/ Handled(q, m) = q
        \/ \E type \in {"PUBACK", "PUBREC", "PINGRESP"} :
              Handled(q, m) = Enqueued(q, type, m.id, 0)
    BY <1>7 DEF Handled
  <2>2. \A type \in {"PUBACK", "PUBREC", "PINGRESP"} : type \in ToBroker /\ added(type) = 0
    BY <1>7 DEF ToBroker, Publications
  <2> QED
    BY <1>2, <1>3, <2>1, <2>2
<1> QED
  BY <1>5, <1>6, <1>7

\* A message on an established connection: the answer that ends an exchange is told of,
\* PUBREC is replaced by the PUBREL that waits in the queue.
LEMMA LedgerData ==
  ASSUME IInv, IInv', LedgerInv, ReceiveData PROVE LedgerInv'
<1> DEFINE m == Head(rx)
<1>1. /\ rx # <<>> /\ rx' = Tail(rx) /\ queue' = Handled(queue, m)
      /\ pubacked' = IF IsPuback(queue, m) THEN pubacked + 1 ELSE pubacked
      /\ UNCHANGED <<link, due, down, published, received>>
  BY DEF ReceiveData, brokerVars
<1>2. /\ queue \in Seq(Node) /\ queue' \in Seq(Node) /\ rx \in Seq(Down) /\ m \in Down
      /\ m = rx[1] /\ 1 \in 1..Len(rx)
      /\ published \in Nat /\ pubacked \in Nat /\ received \in Nat
  BY <1>1 DEF IInv, TypeOK
<1>3. link = "up" /\ connected /\ connected'
  BY <1>1 DEF IInv, Places, connected
<1>4. /\ Cardinality(Pending(queue, Publications)) \in Nat
      /\ Cardinality(Pending(queue, {"PUBREL"})) \in Nat
      /\ Cardinality(Pending(queue', Publications)) \in Nat
      /\ Cardinality(Pending(queue', {"PUBREL"})) \in Nat
  BY <1>2, PendingFinite
<1>5. Answering' => Answering
  <2>1. NoneOf(rx, Answers) => NoneOf(rx', Answers)
    BY <1>1, <1>2, TailCounts
  <2> QED
    BY <1>1, <2>1 DEF Answering
<1>6. m.type \in Answers => Answering /\ ~Answering'
  <2> SUFFICES ASSUME m.type \in Answers PROVE Answering /\ ~Answering'
    OBVIOUS
  <2>1. m.type \in Completing /\ ~NoneOf(rx, Completing) /\ ~NoneOf(rx, Answers)
    BY <1>2 DEF NoneOf, Answers, Completing
  <2>2. NoneOf(due, Asking) /\ NoneOf(down, Completing) /\ OneOf(rx, Completing)
    BY <2>1 DEF IInv, Exchange, Lone
  <2>3. NoneOf(rx', Completing)
    BY <1>1, <1>2, <2>1, <2>2, TailCounts
  <2>4. NoneOf(due', {"PUBLISH"}) /\ NoneOf(down', Answers) /\ NoneOf(rx', Answers)
    BY <1>1, <2>2, <2>3 DEF NoneOf, Asking, Answers, Completing
  <2> QED
    BY <2>1, <2>4 DEF Answering
<1>7. /\ m.type = "SUBACK" => AnswersTo[m.type] = "SUBSCRIBE"
      /\ m.type = "UNSUBACK" => AnswersTo[m.type] = "UNSUBSCRIBE"
      /\ m.type \in Answers => AnswersTo[m.type] = "PUBLISH"
      /\ m.type = "PUBREL" => AnswersTo[m.type] = "PUBREC" /\ FollowUp(m.type) = "PUBCOMP"
      /\ m.type = "PUBCOMP" => AnswersTo[m.type] = "PUBREL"
      /\ m.type = "PUBREC" => FollowUp(m.type) = "PUBREL"
  BY DEF AnswersTo, Answers, FollowUp
<1> HIDE DEF m
<1>a. PICK pubs \in Nat : pubs = Cardinality(Pending(queue, Publications))
  BY <1>4
<1>b. PICK pubsNow \in Nat : pubsNow = Cardinality(Pending(queue', Publications))
  BY <1>4
<1>c. PICK rels \in Nat : rels = Cardinality(Pending(queue, {"PUBREL"}))
  BY <1>4
<1>d. PICK relsNow \in Nat : relsNow = Cardinality(Pending(queue', {"PUBREL"}))
  BY <1>4
<1>8. CASE ~Matches(queue, m)
  <2>1. pubsNow = pubs /\ relsNow = rels
    BY <1>1, <1>2, <1>8, <1>a, <1>b, <1>c, <1>d, HandledCounts DEF Publications
  <2>2. UNCHANGED pubacked
    BY <1>1, <1>8 DEF IsPuback
  <2> QED
    BY <1>1, <1>3, <1>5, <1>a, <1>b, <1>c, <1>d, <2>1, <2>2, LedgerStill
<1>9. CASE Matches(queue, m)
  <2> DEFINE a(T, type) == IF type \in T THEN 1 ELSE 0
  <2>1. /\ m.type \in Completing
        /\ m.type \in Continuing =>
             /\ pubsNow + a(Publications, AnswersTo[m.type])
                  = pubs + a(Publications, FollowUp(m.type))
             /\ relsNow + a({"PUBREL"}, AnswersTo[m.type]) = rels + a({"PUBREL"}, FollowUp(m.type))
        /\ m.type \notin Continuing =>
             /\ pubsNow + a(Publications, AnswersTo[m.type]) = pubs
             /\ relsNow + a({"PUBREL"}, AnswersTo[m.type]) = rels
    BY <1>1, <1>2, <1>9, <1>a, <1>b, <1>c, <1>d, HandledCounts DEF Matches
  <2>2. pubacked' = IF m.type \in {"PUBACK", "PUBCOMP"} THEN pubacked + 1 ELSE pubacked
    BY <1>1, <1>9 DEF IsPuback
  <2>4. m.type \in {"SUBACK", "UNSUBACK"} =>
          pubsNow = pubs /\ relsNow = rels /\ pubacked' = pubacked
    BY <1>7, <2>1, <2>2 DEF Publications, Continuing
  <2>5. m.type = "PUBACK" => pubsNow + 1 = pubs /\ relsNow = rels /\ pubacked' = pubacked + 1
    BY <1>7, <2>1, <2>2 DEF Publications, Continuing, Answers
  <2>6. m.type = "PUBREC" => pubsNow = pubs /\ relsNow = rels + 1 /\ pubacked' = pubacked
    BY <1>7, <2>1, <2>2 DEF Publications, Continuing, Answers
  <2>7. m.type = "PUBREL" => pubsNow = pubs /\ relsNow = rels /\ pubacked' = pubacked
    BY <1>7, <2>1, <2>2 DEF Publications, Continuing
  <2>8. m.type = "PUBCOMP" => pubsNow + 1 = pubs /\ relsNow + 1 = rels /\ pubacked' = pubacked + 1
    BY <1>7, <2>1, <2>2 DEF Publications, Continuing
  <2>9. pubacked' + pubsNow = pubacked + pubs
    <3>1. CASE m.type \in {"PUBACK", "PUBCOMP"}
      <4>1. pubsNow + 1 = pubs /\ pubacked' = pubacked + 1
        BY <2>5, <2>8, <3>1
      <4> QED
        BY <1>2, <4>1
    <3>2. CASE m.type \notin {"PUBACK", "PUBCOMP"}
      BY <2>1, <2>4, <2>6, <2>7, <3>2 DEF Completing
    <3> QED
      BY <3>1, <3>2
  <2>10. pubacked' + relsNow + (IF Answering' THEN 1 ELSE 0)
           <= pubacked + rels + (IF Answering THEN 1 ELSE 0)
    <3>1. CASE m.type \in Answers
      BY <1>2, <1>6, <2>5, <2>6, <3>1 DEF Answers
    <3>2. CASE m.type \notin Answers
      <4>1. pubacked' + relsNow = pubacked + rels /\ pubacked' \in Nat
        BY <1>2, <2>1, <2>2, <2>4, <2>7, <2>8, <3>2 DEF Answers, Completing
      <4>2. PICK acks \in Nat : acks = pubacked'
        BY <4>1
      <4>3. pubacked \in Nat /\ acks + relsNow = pubacked + rels
        BY <1>2, <4>1, <4>2
      <4>4. acks + relsNow + (IF Answering' THEN 1 ELSE 0)
              <= pubacked + rels + (IF Answering THEN 1 ELSE 0)
        BY <1>5, <4>3
      <4> QED
        BY <4>2, <4>4
    <3> QED
      BY <3>1, <3>2
  <2>11. pubacked' \in Nat
    BY <1>2, <2>2
  <2>12. Published'
    <3>1. published = pubacked + pubs
      BY <1>3, <1>a DEF LedgerInv, Published
    <3>2. published' = pubacked' + pubsNow
      BY <1>1, <2>9, <3>1
    <3> QED
      BY <3>2, <1>b DEF Published
  <2>13. Reached'
    <3>1. pubacked + rels + (IF Answering THEN 1 ELSE 0) <= received
      BY <1>c DEF LedgerInv, Reached
    <3>2. pubacked' + relsNow + (IF Answering' THEN 1 ELSE 0) <= received'
      BY <1>1, <1>2, <2>10, <2>11, <3>1
    <3> QED
      BY <3>2, <1>d DEF Reached
  <2> QED
    BY <1>3, <2>12, <2>13, <1>1 DEF LedgerInv, NothingPending
<1> QED
  BY <1>8, <1>9

\* The end of mqtt_socket_received() sends; the broker answers, publishes or falls silent.
LEMMA LedgerOthers ==
  ASSUME IInv, IInv', LedgerInv,
         \/ SegmentEnds \/ BrokerAnswers \/ BrokerPublishes \/ Banner \/ BrokerStalls
  PROVE  LedgerInv'
<1>1. /\ UNCHANGED <<link, rx, published, pubacked, received>> /\ connected /\ connected'
      /\ queue \in Seq(Node) /\ down \in Seq(Down) /\ due \in Seq(Wire)
  BY DEF SegmentEnds, BrokerAnswers, BrokerPublishes, Banner, BrokerStalls, rxVars, ledger,
         connected, LedgerInv, NothingPending, IInv, TypeOK
<1>2. CASE SegmentEnds
  <2>1. SendIfPossible(queue, sending, wire, timer) /\ UNCHANGED <<due, down>>
    BY <1>2 DEF SegmentEnds, brokerVars
  <2>2. \A T : Pending(queue', T) = Pending(queue, T)
    BY <1>1, <2>1, PendingSent
  <2>3. Answering' => Answering
    BY <1>1, <2>1 DEF Answering
  <2> QED
    BY <1>1, <2>2, <2>3, LedgerStill
<1>3. ASSUME UNCHANGED queue, Answering' => Answering PROVE LedgerInv'
  BY <1>1, <1>3, LedgerStill
<1>4. CASE BrokerAnswers
  <2>1. PICK i \in 1..Len(due) : /\ due' = RemoveAt(due, i)
                                 /\ \E type \in AnswerTypes(due[i]) :
                                      down' = Append(down, Msg(type, due[i].id, 0))
    BY <1>4 DEF BrokerAnswers
  <2>2. PICK type \in AnswerTypes(due[i]) : down' = Append(down, Msg(type, due[i].id, 0))
    BY <2>1
  <2> DEFINE a == Msg(type, due[i].id, 0)
  <2>3. due[i] \in Wire /\ NeedsAnswer(due[i]) /\ UNCHANGED queue
    BY <1>1, <1>4 DEF IInv, Places, BrokerAnswers, sendVars
  <2>4. type \in Answers => due[i].type = "PUBLISH"
    BY <2>3 DEF AnswerTypes, NeedsAnswer, Answers
  <2>5. type \in FromBroker
    BY <2>3, AnswerFacts
  <2>6. a \in Down /\ a.type = type /\ down' = Append(down, a)
    BY <2>2, <2>3, <2>5 DEF Msg, Down, Wire
  <2> HIDE DEF a
  <2>7. NoneOf(down, Answers) /\ type \notin Answers => NoneOf(down', Answers)
    BY <1>1, <2>6, AppendCounts
  <2>8. NoneOf(due, {"PUBLISH"}) => NoneOf(due', {"PUBLISH"})
    BY <1>1, <2>1, RemoveCounts
  <2>9. due[i].type = "PUBLISH" => ~NoneOf(due, {"PUBLISH"})
    BY DEF NoneOf
  <2>10. Answering' => Answering
    BY <1>1, <2>4, <2>7, <2>8, <2>9 DEF Answering
  <2> QED
    BY <1>3, <2>3, <2>10
<1>5. ASSUME NEW e \in Down, e.type \notin Answers, down' = Append(down, e), UNCHANGED due
      PROVE  Answering' => Answering
  <2>1. NoneOf(down, Answers) => NoneOf(down', Answers)
    BY <1>1, <1>5, AppendCounts
  <2> QED
    BY <1>1, <1>5, <2>1 DEF Answering
<1>6. CASE BrokerPublishes
  <2>1. PICK qos \in 0..2 : down' = Append(down, Msg("PUBLISH", incoming + 1, qos))
    BY <1>6 DEF BrokerPublishes
  <2> DEFINE e == Msg("PUBLISH", incoming + 1, qos)
  <2>2. e \in Down /\ e.type \notin Answers
    BY DEF IInv, TypeOK, Msg, Down, FromBroker, Answers
  <2>3. down' = Append(down, e) /\ UNCHANGED <<due, queue>>
    BY <1>6, <2>1 DEF BrokerPublishes, sendVars
  <2> HIDE DEF e
  <2> QED
    BY <1>3, <1>5, <2>2, <2>3
<1>7. CASE Banner
  <2> DEFINE e == Msg("OTHER", 0, 0)
  <2>1. e \in Down /\ e.type \notin Answers
    BY DEF Msg, Down, FromBroker, Answers
  <2>2. down = <<>> /\ down' = <<e>> /\ UNCHANGED <<due, queue>>
    BY <1>7 DEF Banner, sendVars
  <2> HIDE DEF e
  <2>3. down' = Append(down, e)
    BY <2>1, <2>2
  <2> QED
    BY <1>3, <1>5, <2>1, <2>2, <2>3
<1>8. CASE BrokerStalls
  BY <1>1, <1>3, <1>8 DEF BrokerStalls, Answering, sendVars
<1> QED
  BY <1>2, <1>4, <1>6, <1>7, <1>8

\* Every step keeps the ledger.
LEMMA LedgerNext == IInv /\ IInv' /\ LedgerInv /\ [Next]_vars => LedgerInv'
<1> SUFFICES ASSUME IInv, IInv', LedgerInv, [Next]_vars PROVE LedgerInv'
  OBVIOUS
<1>1. CASE UNCHANGED vars
  <2>1. UNCHANGED <<link, timer, queue, rx, pc, due, down, published, pubacked, received>>
    BY <1>1 DEF vars, sendVars, rxVars, brokerVars, ledger
  <2> QED
    BY <2>1 DEF LedgerInv, NothingPending, Published, Reached, Answering, connected
<1>2. CASE \/ mqtt_socket_connect \/ socket_dns_found
           \/ mqtt_socket_reconnected \/ mqtt_socket_disconnected
  BY <1>2, LedgerLinks
<1>3. CASE mqtt_socket_connected
  BY <1>3, LedgerConnected
<1>4. CASE \/ mqtt_socket_publish \/ mqtt_socket_subscribe
           \/ mqtt_socket_unsubscribe \/ mqtt_socket_close
  BY <1>4, LedgerCalls
<1>5. CASE mqtt_socket_sent
  BY <1>5, LedgerSent
<1>6. CASE mqtt_socket_timer
  BY <1>6, LedgerTimer
<1>7. CASE SegmentArrives \/ ReceiveConnack
  BY <1>7, LedgerArrives
<1>8. CASE ReceiveData
  BY <1>8, LedgerData
<1>9. CASE SegmentEnds \/ BrokerAnswers \/ BrokerPublishes \/ Banner \/ BrokerStalls
  BY <1>9, LedgerOthers
<1> QED
  BY <1>1, <1>2, <1>3, <1>4, <1>5, <1>6, <1>7, <1>8, <1>9 DEF Next

\* mqtt.c keeps faith with its application: while the connection lasts, every publish()
\* has had exactly one "puback" callback or its message is in the queue, as PUBLISH or as
\* the PUBREL that follows it, and no callback ran for a publication that the broker's TCP
\* does not have; for every number of calls and messages and any reuse of message ids.
THEOREM PublishesAlwaysAccounted == Spec => []PublishesAccounted
<1>1. LedgerInv /\ IInv => PublishesAccounted
  <2> SUFFICES ASSUME LedgerInv, IInv PROVE PublishesAccounted
    OBVIOUS
  <2>1. connected => published = pubacked + Cardinality(Outstanding)
    BY DEF LedgerInv, Published, Outstanding, Publications
  <2>2. /\ pubacked \in Nat /\ received \in Nat
        /\ Cardinality(Pending(queue, {"PUBREL"})) \in Nat
    BY PendingFinite DEF IInv, TypeOK
  <2>3. pubacked <= received
    BY <2>2 DEF LedgerInv, Reached
  <2> QED
    BY <2>1, <2>3 DEF PublishesAccounted
<1>2. Init => LedgerInv
  BY LedgerInit
<1> QED
  BY <1>1, <1>2, LedgerNext, InvHolds, PTL DEF Spec
=============================================================================
