--------------------------- MODULE MCMqttReceive ---------------------------
(* Model of MqttReceive for TLC: an answer, a publication, one whose length  *)
(* takes two bytes, and two that are too long, of which one has an id late.  *)
EXTENDS MqttReceive

MCKinds == {[rem |-> 0, qos |-> 0, id |-> 0],
            [rem |-> 6, qos |-> 1, id |-> 4],
            [rem |-> 8, qos |-> 0, id |-> 0],
            [rem |-> 12, qos |-> 1, id |-> 10],
            [rem |-> 17, qos |-> 0, id |-> 0]}
=============================================================================
