--------------------------- MODULE MCTimerDaemon ----------------------------
(* Small instances of TimerDaemon for TLC.                                 *)
EXTENDS TimerDaemon

CONSTANTS t1, t2, d1, d2

MCDelays == {0, 2}
=============================================================================
