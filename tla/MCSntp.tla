------------------------------- MODULE MCSntp -------------------------------
(* Model of Sntp for TLC: two servers, and a list that names none. *)
EXTENDS Sntp

CONSTANTS s1, s2

MCLists == {<<>>, <<s1, s2>>}
MCDefault == <<s1>>

\* Two delays, and of the less one also an answer of stratum 0.
MCReplies == {[delay |-> 1, stratum |-> 1], [delay |-> 2, stratum |-> 1],
              [delay |-> 1, stratum |-> 0]}
=============================================================================
