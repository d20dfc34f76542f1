----------------------------- MODULE MqttClient -----------------------------
(***************************************************************************)
(* The MQTT client of app/modules/mqtt.c with the queue of pending         *)
(* messages of app/mqtt/msg_queue.c, between an application (Lua), a TCP   *)
(* connection (espconn) and a broker.                                      *)
(*                                                                         *)
(* Everything on the device runs in one thread: a callback of espconn, the *)
(* expiry of the timer, or a call of the application is one step, except   *)
(* that a segment with several messages is handled message by message,     *)
(* because the Lua callback of a message may call the client again.        *)
(*                                                                         *)
(* A message is a record of its type, its id and its QoS.  A message that  *)
(* spans several segments is seen here as if it had come whole.  The       *)
(* callbacks are all registered, and memory does not run out.              *)
(***************************************************************************)
EXTENDS Integers, Sequences, FiniteSets, SequencesExt

CONSTANTS
  IdSpan,       \* number of message ids, 2^16 in the code
  MaxConnects,  \* bound: calls of connect()
  MaxCalls,     \* bound: calls of publish(), subscribe(), unsubscribe(), close()
  MaxIncoming   \* bound: messages the broker publishes to the client

ASSUME SpanAssumption == IdSpan \in Nat /\ IdSpan > 1
ASSUME BoundAssumption == /\ MaxConnects \in Nat
                          /\ MaxCalls \in Nat
                          /\ MaxIncoming \in Nat

VARIABLES
  connState,      \* mud->connState
  sending,        \* mud->sending
  keepalive_sent, \* mud->keepalive_sent
  timer,          \* mud->mqttTimer
  queue,          \* mud->mqtt_state.pending_msg_q
  nextId,         \* mud->mqtt_state.next_message_id
  link,           \* the TCP connection, and mud->connected
  wire,           \* messages given to espconn_send, not yet acknowledged by TCP
  rx,             \* rest of the segment mqtt_socket_received works on
  pc,             \* where mqtt_socket_received is
  due,            \* requests the broker has and has not answered
  down,           \* messages on their way from the broker
  silent,         \* the broker has stopped to answer
  told,           \* callbacks run since the last connect()
  mishaps,        \* what went wrong with this connection without notice
  published,      \* calls of publish() since the last connect()
  pubacked,       \* "puback" callbacks since the last connect()
  received,       \* publications the broker's TCP has since the last connect()
  connects, calls, incoming   \* counters for the bounds

sendVars == <<sending, timer, queue, wire, mishaps>>
rxVars == <<rx, pc>>
brokerVars == <<due, down, silent>>
ledger == <<published, pubacked, received>>
bounds == <<connects, calls, incoming>>
vars == <<connState, keepalive_sent, nextId, link, told, sendVars, rxVars,
          brokerVars, ledger, bounds>>

-----------------------------------------------------------------------------
(* Messages.                                                               *)

\* The packets of the protocol.  CONNACK is one that accepts, REFUSED one that
\* does not, OTHER is anything a server sends that is not an MQTT broker.
ToBroker == {"CONNECT", "PUBLISH", "SUBSCRIBE", "UNSUBSCRIBE", "PUBACK",
             "PUBREC", "PUBREL", "PUBCOMP", "PINGREQ", "PINGRESP", "DISCONNECT"}
FromBroker == {"CONNACK", "REFUSED", "OTHER", "PUBLISH", "SUBACK", "UNSUBACK",
               "PUBACK", "PUBREC", "PUBREL", "PUBCOMP", "PINGREQ", "PINGRESP"}

Msg(type, id, qos) == [type |-> type, id |-> id, qos |-> qos]

\* msg_enqueue(): the message joins the queue as one that is not sent yet.
Enqueued(q, type, id, qos) ==
  Append(q, [type |-> type, id |-> id, qos |-> qos, sent |-> FALSE])

\* The messages that answer a pending one, and the type of message they refer to.
Completing == {"SUBACK", "UNSUBACK", "PUBACK", "PUBREC", "PUBREL", "PUBCOMP"}
AnswersTo == [SUBACK |-> "SUBSCRIBE", UNSUBACK |-> "UNSUBSCRIBE",
              PUBACK |-> "PUBLISH", PUBREC |-> "PUBLISH",
              PUBREL |-> "PUBREC", PUBCOMP |-> "PUBREL"]

\* Answers that do not end the exchange, and the message that continues it.
Continuing == {"PUBREC", "PUBREL"}
FollowUp(type) == IF type = "PUBREC" THEN "PUBREL" ELSE "PUBCOMP"

\* m answers the pending message: the head of the queue, and no other.
Matches(q, m) == /\ m.type \in Completing
                 /\ q # <<>>
                 /\ Head(q).type = AnswersTo[m.type]
                 /\ Head(q).id = m.id

\* mqtt_next_message_id(): the counter wraps and skips 0.
NextMessageId == IF nextId + 1 = IdSpan THEN 1 ELSE nextId + 1

Armed == {"send", "keepalive"}

\* mud->connected: from mqtt_socket_connected() to mqtt_socket_disconnected().
connected == link \in {"up", "closing"}

\* The timer is stopped and started with the keepalive time.
RestartKeepalive == timer' = "keepalive"

-----------------------------------------------------------------------------
Init ==
  /\ connState = "INIT" /\ sending = FALSE /\ keepalive_sent = FALSE
  /\ timer = "off" /\ queue = <<>> /\ nextId = 0
  /\ link = "none" /\ wire = <<>>
  /\ rx = <<>> /\ pc = "idle"
  /\ due = <<>> /\ down = <<>> /\ silent = FALSE
  /\ told = {} /\ mishaps = {}
  /\ published = 0 /\ pubacked = 0 /\ received = 0
  /\ connects = 0 /\ calls = 0 /\ incoming = 0

\* espconn_send(): the stack takes the message, or refuses it.  A connection that
\* is being closed takes nothing.
EspconnSend(w, m) ==
  \/ /\ link = "up"
     /\ wire' = Append(w, m)
     /\ UNCHANGED mishaps
  \/ /\ wire' = w
     /\ mishaps' = mishaps \cup {"send_failed"}

\* Fault model: the flag for a message on its way is not looked at.
SendIfPossible_eager(q, s, w, t) ==
  IF q # <<>> /\ ~Head(q).sent
  THEN /\ queue' = [q EXCEPT ![1].sent = TRUE]
       /\ sending' = TRUE
       /\ timer' = "send"
       /\ EspconnSend(w, Msg(Head(q).type, Head(q).id, Head(q).qos))
  ELSE /\ queue' = q
       /\ sending' = s
       /\ timer' = t
       /\ wire' = w
       /\ UNCHANGED mishaps

\* mqtt_send_if_possible(), for a queue q, flag s, unacknowledged messages w and
\* timer t.  The message counts as sent, and the client as waiting for the stack,
\* whether or not espconn_send() took the message.
SendIfPossible(q, s, w, t) ==
  IF ~s /\ q # <<>> /\ ~Head(q).sent
  THEN /\ queue' = [q EXCEPT ![1].sent = TRUE]
       /\ sending' = TRUE
       /\ timer' = "send"
       /\ EspconnSend(w, Msg(Head(q).type, Head(q).id, Head(q).qos))
  ELSE /\ queue' = q
       /\ sending' = s
       /\ timer' = t
       /\ wire' = w
       /\ UNCHANGED mishaps

\* mqtt_socket_do_disconnect(): espconn_disconnect() takes the callbacks for sent
\* and received data away at once and calls the one for the end later.
DoDisconnect ==
  /\ link' = "closing"
  /\ wire' = <<>> /\ due' = <<>> /\ down' = <<>>
  /\ UNCHANGED silent

-----------------------------------------------------------------------------
(* Calls of the application.  They come from tasks of their own or from a   *)
(* callback that mqtt_socket_received runs.                                 *)

MayCall == pc \in {"idle", "callback"}

\* mqtt_socket_connect().  The name is looked up; when the lookup cannot even be
\* started the failure callback runs and nothing is released.  A call before the
\* previous attempt has ended is not modelled.
mqtt_socket_connect ==
  /\ connects < MaxConnects
  /\ pc = "idle"
  /\ link = "none"
  /\ sending' = FALSE
  /\ timer' = "off"
  /\ \/ link' = "resolving" /\ told' = {}
     \/ link' = "none" /\ told' = {"connfail"}
  /\ mishaps' = {}
  /\ published' = 0 /\ pubacked' = 0 /\ received' = 0
  /\ connects' = connects + 1
  /\ UNCHANGED <<connState, keepalive_sent, nextId, queue, wire, rxVars,
                 brokerVars, calls, incoming>>

\* What publish(), subscribe(), unsubscribe() and close() share: the message is
\* queued and sent if nothing is in its way.
Request(type, id, qos) ==
  /\ calls < MaxCalls
  /\ MayCall
  /\ connected
  /\ SendIfPossible(Enqueued(queue, type, id, qos), sending, wire, timer)
  /\ calls' = calls + 1
  /\ UNCHANGED <<connState, keepalive_sent, link, told, rxVars, brokerVars,
                 pubacked, received, connects, incoming>>

mqtt_socket_publish ==
  \E qos \in 0..2 :
    /\ nextId' = IF qos = 0 THEN nextId ELSE NextMessageId
    /\ Request("PUBLISH", IF qos = 0 THEN 0 ELSE NextMessageId, qos)
    /\ published' = published + 1

mqtt_socket_subscribe ==
  /\ Request("SUBSCRIBE", NextMessageId, 1)
  /\ nextId' = NextMessageId
  /\ UNCHANGED published

mqtt_socket_unsubscribe ==
  /\ Request("UNSUBSCRIBE", NextMessageId, 1)
  /\ nextId' = NextMessageId
  /\ UNCHANGED published

mqtt_socket_close ==
  /\ Request("DISCONNECT", 0, 0)
  /\ UNCHANGED <<nextId, published>>

-----------------------------------------------------------------------------
(* Callbacks of espconn about the connection.                               *)

\* mqtt_socket_disconnected(), after the callbacks cbs: everything pending is
\* dropped; the application hears of it if the socket had been connected.
Disconnected(cbs) ==
  /\ timer' = "off"
  /\ queue' = <<>>
  /\ link' = "none"
  /\ told' = told \cup cbs \cup (IF connected THEN {"offline"} ELSE {})
  /\ wire' = <<>> /\ due' = <<>> /\ down' = <<>>
  /\ silent' = FALSE
  /\ UNCHANGED <<keepalive_sent, nextId, sending, rxVars, ledger, bounds>>

\* socket_dns_found(): no address, or a connection that cannot be started, ends
\* the attempt; otherwise espconn_connect() is under way.
socket_dns_found ==
  /\ pc = "idle"
  /\ link = "resolving"
  /\ \/ /\ Disconnected({"connfail"})
        /\ connState' \in {connState, "INIT"}
        /\ UNCHANGED mishaps
     \/ /\ connState' = "INIT"
        /\ link' = "connecting"
        /\ UNCHANGED <<keepalive_sent, nextId, told, sendVars, rxVars,
                       brokerVars, ledger, bounds>>

\* mqtt_socket_connected(): CONNECT is sent without going through the queue.
mqtt_socket_connected ==
  /\ pc = "idle"
  /\ link = "connecting"
  /\ link' = "up"
  /\ \/ wire' = <<Msg("CONNECT", 0, 0)>> /\ UNCHANGED mishaps
     \/ wire' = <<>> /\ mishaps' = mishaps \cup {"send_failed"}
  /\ sending' = TRUE
  /\ timer' = "send"
  /\ connState' = "CONNECT_SENDING"
  /\ UNCHANGED <<keepalive_sent, nextId, told, queue, rxVars, brokerVars,
                 ledger, bounds>>

\* mqtt_socket_reconnected(): TCP gave up, before or after it was connected.
mqtt_socket_reconnected ==
  /\ pc = "idle"
  /\ link \in {"connecting", "up"}
  /\ Disconnected({"connfail"})
  /\ UNCHANGED <<connState, mishaps>>

\* mqtt_socket_disconnected(): the broker closed, or the client's own closing ends.
\* When CONNACK was still awaited the failure callback does not run.
mqtt_socket_disconnected ==
  /\ pc = "idle"
  /\ link \in {"up", "closing"}
  /\ Disconnected({})
  /\ mishaps' = IF connState \in {"CONNECT_SENDING", "CONNECT_SENT"}
                THEN mishaps \cup {"closed_early"} ELSE mishaps
  /\ UNCHANGED connState

-----------------------------------------------------------------------------
(* Sending.                                                                 *)

\* The broker keeps a request it has to answer.
NeedsAnswer(m) ==
  \/ m.type \in {"CONNECT", "SUBSCRIBE", "UNSUBSCRIBE", "PUBREL", "PUBREC", "PINGREQ"}
  \/ m.type = "PUBLISH" /\ m.qos > 0

\* Pending messages that are done with once TCP has delivered them.
DoneWhenSent(m) ==
  \/ m.type \in {"PUBACK", "PUBCOMP", "PINGREQ"}
  \/ m.type = "PUBLISH" /\ m.qos = 0

\* The broker's TCP has acknowledged the oldest message; the broker will answer it
\* if it has to.
Delivered == /\ due' = IF NeedsAnswer(Head(wire)) THEN Append(due, Head(wire)) ELSE due
             /\ UNCHANGED <<down, silent>>

\* Fault model: the wait for CONNACK is not timed.
ConnectSent_untimed ==
  /\ connState = "CONNECT_SENDING"
  /\ connState' = "CONNECT_SENT"
  /\ sending' = FALSE
  /\ timer' = "off"
  /\ wire' = Tail(wire)
  /\ Delivered
  /\ UNCHANGED <<link, queue, mishaps, pubacked>>

\* mqtt_socket_sent() for the CONNECT message.
ConnectSent ==
  /\ connState = "CONNECT_SENDING"
  /\ connState' = "CONNECT_SENT"
  /\ sending' = FALSE
  /\ timer' = "send"
  /\ wire' = Tail(wire)
  /\ Delivered
  /\ UNCHANGED <<link, queue, mishaps, pubacked>>

\* mqtt_socket_sent() when the head of the queue needs no answer: it leaves the
\* queue, a publication with its callback, and the next message is sent.
HeadDone ==
  /\ connState # "CONNECT_SENDING"
  /\ queue # <<>> /\ DoneWhenSent(Head(queue))
  /\ SendIfPossible(Tail(queue), FALSE, Tail(wire), "keepalive")
  /\ Delivered
  /\ pubacked' = IF Head(queue).type = "PUBLISH" THEN pubacked + 1 ELSE pubacked
  /\ UNCHANGED <<connState, link>>

\* mqtt_socket_sent() when the head of the queue is a DISCONNECT.
DisconnectSent ==
  /\ connState # "CONNECT_SENDING"
  /\ queue # <<>> /\ Head(queue).type = "DISCONNECT"
  /\ queue' = Tail(queue)
  /\ sending' = FALSE
  /\ RestartKeepalive
  /\ DoDisconnect
  /\ UNCHANGED <<connState, mishaps, pubacked>>

\* mqtt_socket_sent() when the head of the queue waits for an answer.
HeadWaits ==
  /\ connState # "CONNECT_SENDING"
  /\ queue # <<>> => ~DoneWhenSent(Head(queue)) /\ Head(queue).type # "DISCONNECT"
  /\ sending' = FALSE
  /\ RestartKeepalive
  /\ wire' = Tail(wire)
  /\ Delivered
  /\ UNCHANGED <<connState, link, queue, mishaps, pubacked>>

\* mqtt_socket_sent(): espconn calls it when TCP has the acknowledgement, before it
\* calls mqtt_socket_received with anything the broker sent in answer.  Which
\* message was sent is not a parameter: the head of the queue is taken for it.
mqtt_socket_sent ==
  /\ pc = "idle"
  /\ link = "up"
  /\ wire # <<>>
  /\ (ConnectSent \/ HeadDone \/ DisconnectSent \/ HeadWaits)
  /\ received' = IF Head(wire).type = "PUBLISH" THEN received + 1 ELSE received
  /\ UNCHANGED <<keepalive_sent, nextId, told, rxVars, published, bounds>>

-----------------------------------------------------------------------------
(* The timer: five seconds for a message to be sent and for CONNACK to come, *)
(* the keepalive time otherwise.  It fires once.  "missed" is an unarmed     *)
(* timer that fired while a message waited for its answer.                   *)

\* CONNECT was not sent in time, or CONNACK did not come.
ConnectTimeout ==
  /\ connState \in {"CONNECT_SENDING", "CONNECT_SENT"}
  /\ connState' = "INIT"
  /\ timer' = "off"
  /\ DoDisconnect
  /\ told' = told \cup {"connfail"}
  /\ UNCHANGED <<keepalive_sent, sending, queue, mishaps>>

\* A message is pending: nothing is done, and the timer is not started again.
TimerIgnored ==
  /\ connState = "DATA" /\ queue # <<>>
  /\ timer' = "missed"
  /\ UNCHANGED <<connState, link, told, brokerVars, keepalive_sent, sending,
                 queue, wire, mishaps>>

\* Fault model: the client waits once more instead of giving up.
KeepaliveTimeout_patient ==
  /\ connState = "DATA" /\ queue = <<>> /\ keepalive_sent
  /\ timer' = "keepalive"
  /\ UNCHANGED <<connState, link, wire, brokerVars, told, keepalive_sent, sending,
                 queue, mishaps>>

\* The broker has not answered the last PINGREQ.
KeepaliveTimeout ==
  /\ connState = "DATA" /\ queue = <<>> /\ keepalive_sent
  /\ timer' = "off"
  /\ DoDisconnect
  /\ UNCHANGED <<connState, told, keepalive_sent, sending, queue, mishaps>>

\* The connection is idle: a PINGREQ is sent.
SendKeepalive ==
  /\ connState = "DATA" /\ queue = <<>> /\ ~keepalive_sent
  /\ keepalive_sent' = TRUE
  /\ SendIfPossible(Enqueued(queue, "PINGREQ", 0, 0), sending, wire, "off")
  /\ UNCHANGED <<connState, link, told, brokerVars>>

\* The client has given up on this connection already.
TimerStale ==
  /\ connState = "INIT"
  /\ timer' = "off"
  /\ UNCHANGED <<connState, link, told, brokerVars, keepalive_sent, sending,
                 queue, wire, mishaps>>

mqtt_socket_timer ==
  /\ pc = "idle"
  /\ timer \in Armed
  /\ \/ ConnectTimeout \/ TimerIgnored \/ KeepaliveTimeout
     \/ SendKeepalive \/ TimerStale
  /\ UNCHANGED <<nextId, rxVars, ledger, bounds>>

-----------------------------------------------------------------------------
(* Receiving: mqtt_socket_received() in steps, one for each message.         *)

\* A segment with the first n messages on their way arrives.
SegmentArrives ==
  /\ pc = "idle"
  /\ link = "up"
  /\ \E n \in 1..Len(down) :
       /\ rx' = SubSeq(down, 1, n)
       /\ down' = SubSeq(down, n + 1, Len(down))
  /\ pc' = "next"
  /\ UNCHANGED <<connState, keepalive_sent, nextId, link, told, sendVars, due,
                 silent, ledger, bounds>>

\* A message while CONNACK is awaited: it accepts, or the connection is closed.  The
\* code leaves the loop either way, so the rest of the segment is not looked at.
ReceiveConnack ==
  /\ pc \in {"next", "callback"}
  /\ rx # <<>>
  /\ connState \in {"CONNECT_SENDING", "CONNECT_SENT"}
  /\ RestartKeepalive
  /\ rx' = <<>>
  /\ pc' = "callback"
  /\ \/ /\ Head(rx).type = "CONNACK"
        /\ connState' = "DATA"
        /\ keepalive_sent' = FALSE
        /\ told' = told \cup {"connect"}
        /\ mishaps' = mishaps \cup (IF Len(rx) > 1 THEN {"segment_dropped"} ELSE {})
        /\ UNCHANGED <<link, wire, brokerVars>>
     \/ /\ Head(rx).type # "CONNACK"
        /\ connState' = "INIT"
        /\ DoDisconnect
        /\ told' = told \cup {"connfail"}
        /\ UNCHANGED <<keepalive_sent, mishaps>>
  /\ UNCHANGED <<nextId, queue, sending, ledger, bounds>>

\* Fault model: PUBREC ends the exchange.
Handled_short(q, m) ==
  CASE Matches(q, m) ->
         IF m.type = "PUBREL"
         THEN Enqueued(Tail(q), FollowUp(m.type), m.id, 0)
         ELSE Tail(q)
    [] m.type = "PUBLISH" /\ m.qos = 1 -> Enqueued(q, "PUBACK", m.id, 0)
    [] m.type = "PUBLISH" /\ m.qos = 2 -> Enqueued(q, "PUBREC", m.id, 0)
    [] m.type = "PINGREQ" -> Enqueued(q, "PINGRESP", m.id, 0)
    [] OTHER -> q

\* The queue after message m: an answer takes the head away and may put the next
\* message of the exchange at the tail, a publication asks for an acknowledgement.
Handled(q, m) ==
  CASE Matches(q, m) ->
         IF m.type \in Continuing
         THEN Enqueued(Tail(q), FollowUp(m.type), m.id, 0)
         ELSE Tail(q)
    [] m.type = "PUBLISH" /\ m.qos = 1 -> Enqueued(q, "PUBACK", m.id, 0)
    [] m.type = "PUBLISH" /\ m.qos = 2 -> Enqueued(q, "PUBREC", m.id, 0)
    [] m.type = "PINGREQ" -> Enqueued(q, "PINGRESP", m.id, 0)
    [] OTHER -> q

\* The message ends the exchange of a publication, and the application hears of it.
IsPuback(q, m) == Matches(q, m) /\ m.type \in {"PUBACK", "PUBCOMP"}

RunsCallback(q, m) == \/ m.type = "PUBLISH"
                      \/ Matches(q, m) /\ m.type \notin Continuing

\* A message on an established connection.
ReceiveData ==
  /\ pc \in {"next", "callback"}
  /\ rx # <<>>
  /\ connState = "DATA"
  /\ rx' = Tail(rx)
  /\ queue' = Handled(queue, Head(rx))
  /\ pubacked' = IF IsPuback(queue, Head(rx)) THEN pubacked + 1 ELSE pubacked
  /\ keepalive_sent' = (keepalive_sent /\ Head(rx).type # "PINGRESP")
  /\ pc' = IF RunsCallback(queue, Head(rx)) THEN "callback" ELSE "next"
  /\ UNCHANGED <<connState, nextId, link, told, sending, timer, wire, mishaps,
                 brokerVars, published, received, bounds>>

\* Fault model: what the messages have queued is left there.
SegmentEnds_idle ==
  /\ pc \in {"next", "callback"}
  /\ rx = <<>>
  /\ UNCHANGED sendVars
  /\ pc' = "idle"
  /\ UNCHANGED <<connState, keepalive_sent, nextId, link, told, rx, brokerVars,
                 ledger, bounds>>

\* RX_PACKET_FINISHED: what the messages have queued is sent.
SegmentEnds ==
  /\ pc \in {"next", "callback"}
  /\ rx = <<>>
  /\ SendIfPossible(queue, sending, wire, timer)
  /\ pc' = "idle"
  /\ UNCHANGED <<connState, keepalive_sent, nextId, link, told, rx, brokerVars,
                 ledger, bounds>>

-----------------------------------------------------------------------------
(* The broker.                                                               *)

\* What the broker may answer to a request.
AnswerTypes(m) ==
  CASE m.type = "CONNECT" -> {"CONNACK", "REFUSED", "OTHER"}
    [] m.type = "SUBSCRIBE" -> {"SUBACK"}
    [] m.type = "UNSUBSCRIBE" -> {"UNSUBACK"}
    [] m.type = "PUBLISH" -> {IF m.qos = 1 THEN "PUBACK" ELSE "PUBREC"}
    [] m.type = "PUBREL" -> {"PUBCOMP"}
    [] m.type = "PUBREC" -> {"PUBREL"}
    [] m.type = "PINGREQ" -> {"PINGRESP"}

\* The broker answers a request; CONNECT before any other.
BrokerAnswers ==
  /\ link = "up"
  /\ ~silent
  /\ \E i \in 1..Len(due) :
       /\ i = 1 \/ due[1].type # "CONNECT"
       /\ \E type \in AnswerTypes(due[i]) :
            down' = Append(down, Msg(type, due[i].id, 0))
       /\ due' = RemoveAt(due, i)
  /\ UNCHANGED <<connState, keepalive_sent, nextId, link, told, sendVars,
                 rxVars, silent, ledger, bounds>>

\* The broker publishes a message to the client, at once after its CONNACK or later.
BrokerPublishes ==
  /\ link = "up"
  /\ ~silent
  /\ incoming < MaxIncoming
  /\ connState = "DATA" \/ \E i \in 1..Len(down) : down[i].type = "CONNACK"
  /\ \E qos \in 0..2 : down' = Append(down, Msg("PUBLISH", incoming + 1, qos))
  /\ incoming' = incoming + 1
  /\ UNCHANGED <<connState, keepalive_sent, nextId, link, told, sendVars,
                 rxVars, due, silent, ledger, connects, calls>>

\* A server of another protocol speaks first.
Banner ==
  /\ link = "up"
  /\ connState = "CONNECT_SENDING"
  /\ down = <<>> /\ rx = <<>>
  /\ down' = <<Msg("OTHER", 0, 0)>>
  /\ UNCHANGED <<connState, keepalive_sent, nextId, link, told, sendVars,
                 rxVars, due, silent, ledger, bounds>>

\* The broker stops to answer; its TCP still acknowledges.
BrokerStalls ==
  /\ link = "up"
  /\ ~silent
  /\ silent' = TRUE
  /\ UNCHANGED <<connState, keepalive_sent, nextId, link, told, sendVars,
                 rxVars, due, down, ledger, bounds>>

-----------------------------------------------------------------------------
Next == \/ mqtt_socket_connect \/ mqtt_socket_publish \/ mqtt_socket_subscribe
        \/ mqtt_socket_unsubscribe \/ mqtt_socket_close
        \/ socket_dns_found \/ mqtt_socket_connected
        \/ mqtt_socket_reconnected \/ mqtt_socket_disconnected
        \/ mqtt_socket_sent \/ mqtt_socket_timer
        \/ SegmentArrives \/ ReceiveConnack \/ ReceiveData \/ SegmentEnds
        \/ BrokerAnswers \/ BrokerPublishes \/ Banner \/ BrokerStalls

Spec == Init /\ [][Next]_vars

\* Lookups, TCP, the timer and the tasks of the SDK get to run; a broker that is not
\* silent answers; TCP delivers a message or gives the connection up.
Fairness == /\ WF_vars(socket_dns_found)
            /\ WF_vars(link = "connecting" /\ (mqtt_socket_connected \/ mqtt_socket_reconnected))
            /\ WF_vars(wire # <<>> /\ (mqtt_socket_sent \/ mqtt_socket_reconnected))
            /\ WF_vars(link = "closing" /\ mqtt_socket_disconnected)
            /\ WF_vars(mqtt_socket_timer)
            /\ WF_vars(SegmentArrives)
            /\ WF_vars(ReceiveConnack \/ ReceiveData \/ SegmentEnds)
            /\ WF_vars(BrokerAnswers)

FairSpec == Spec /\ Fairness

-----------------------------------------------------------------------------
(* Properties.                                                              *)

Wire == [type : ToBroker, id : Nat, qos : 0..2]
Node == [type : ToBroker, id : Nat, qos : 0..2, sent : BOOLEAN]
Down == [type : FromBroker, id : Nat, qos : 0..2]

TypeOK ==
  /\ connState \in {"INIT", "CONNECT_SENDING", "CONNECT_SENT", "DATA"}
  /\ sending \in BOOLEAN
  /\ keepalive_sent \in BOOLEAN
  /\ timer \in Armed \cup {"off", "missed"}
  /\ queue \in Seq(Node)
  /\ nextId \in 0 .. IdSpan - 1
  /\ link \in {"none", "resolving", "connecting", "up", "closing"}
  /\ wire \in Seq(Wire)
  /\ rx \in Seq(Down)
  /\ pc \in {"idle", "next", "callback"}
  /\ due \in Seq(Wire)
  /\ down \in Seq(Down)
  /\ silent \in BOOLEAN
  /\ told \subseteq {"connect", "connfail", "offline"}
  /\ mishaps \subseteq {"send_failed", "segment_dropped", "closed_early"}
  /\ published \in Nat /\ pubacked \in Nat /\ received \in Nat
  /\ connects \in Nat /\ calls \in Nat /\ incoming \in Nat

\* The message that TCP will acknowledge next is the head of the queue, which
\* mqtt_socket_sent() takes for it without a look at its sent flag; and there is
\* only that one.  Else an unsent message would be reported and dropped.
InFlightIsHead ==
  wire # <<>> =>
    /\ Len(wire) = 1
    /\ sending
    /\ IF connState = "CONNECT_SENDING"
       THEN wire[1].type = "CONNECT"
       ELSE /\ queue # <<>>
            /\ Head(queue).sent
            /\ wire[1] = Msg(Head(queue).type, Head(queue).id, Head(queue).qos)

\* The positions in the queue of messages of these types.
Pending(q, types) == {i \in 1..Len(q) : q[i].type \in types}

\* Publications the application has not heard of.
Outstanding == Pending(queue, {"PUBLISH", "PUBREL"})

\* While the connection lasts every publish() has had its one "puback" callback or
\* is still pending, and no callback came before the broker had the message.
PublishesAccounted ==
  /\ connected => published = pubacked + Cardinality(Outstanding)
  /\ pubacked <= received

\* Every connect() is answered by the "connect" or the failure callback, even when
\* the broker is silent or the CONNECT message never leaves; only a connection that
\* is closed while CONNACK is awaited has no such answer.
ConnectAnswered ==
  link = "resolving" ~> told \cap {"connect", "connfail"} # {} \/ "closed_early" \in mishaps

\* docs/modules/mqtt.md:170, "If the connect() call fails to establish a connection,
\* the callback passed to :connect() is called and nothing else."  When the server
\* closes the connection before CONNACK the code calls "offline" and nothing else.
ConnectReported == link = "resolving" ~> told \cap {"connect", "connfail"} # {}

\* A broker that answers gets everything: the queue becomes empty or the connection
\* ends, unless espconn refused a message or answers came in one segment with CONNACK.
QueueDrains ==
  queue # <<>> ~> queue = <<>> \/ link # "up" \/ silent \/ mishaps # {}

\* A silent broker is noticed by the keepalive and the connection closed, unless the
\* timer fires while a message waits for its answer.
SilenceNoticed == silent ~> link # "up" \/ timer = "missed"
=============================================================================
