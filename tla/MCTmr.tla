------------------------------- MODULE MCTmr -------------------------------
(* Model values for checking Tmr with TLC. *)
EXTENDS Tmr

CONSTANTS t1, t2, f1

MCTimers == {t1, t2}
MCOneTimer == {t1}
MCOneCallback == {f1}
MCIntervals == {1, 2}
MCOneInterval == {1}
=============================================================================
