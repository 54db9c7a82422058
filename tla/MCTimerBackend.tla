--------------------------- MODULE MCTimerBackend ---------------------------
(* Instances of TimerBackend for TLC.  The two threads differ, one nests.  *)
EXTENDS TimerBackend, TLC

CONSTANTS t1, t2, m1, m2

TwoThreads == {t1, t2}
TwoMarkers == {m1, m2}
OneNester == {t2}

Symmetric == Permutations(TwoMarkers)
=============================================================================
