-------------------------- MODULE MCTemporalCoding --------------------------
(* Windows of 0 (refused), 1000 us (no cycle at 250 MHz), one, two and three *)
(* cycles, and one whose product wraps, with 2^30 in place of 2^32.          *)
EXTENDS TemporalCoding

MCWord == 1073741824
MCWindows == {0, 4000, 8100, 12000, 4294968}
MCCurrents == {-1, 0, 3, 5}
MCTimes == {0, 1, 2, 6, 536870920}
=============================================================================
