----------------------------- MODULE MCTmrClock -----------------------------
(* Scaled-down quantities for checking TmrClock with TLC: a second of 8 RTC *)
(* ticks, a counter that wraps after 16, and 1.75 us per tick.              *)
EXTENDS TmrClock

MCOneCalibration == {7}
MCTimeouts == {-1, 0, 1, 2}
=============================================================================
