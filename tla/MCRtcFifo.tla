----------------------------- MODULE MCRtcFifo ------------------------------
(* A small RTC memory for checking RtcFifo with TLC: two or three slots of *)
(* samples, two names of three in use, deltas of at most one second.  The  *)
(* second storage does not hold the default head.                          *)
EXTENDS RtcFifo, TLC

CONSTANTS n1, n2, n3

MCSlots == 1..5
MCTagCounts == {2}
MCStorages == {[begin |-> 1, end |-> 6], [begin |-> 1, end |-> 4]}
MCNames == {n1, n2, n3}
MCSymmetry == Permutations(MCNames)
MCDrops == {0, 2, 4}
=============================================================================
