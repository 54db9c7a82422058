---------------------------- MODULE MCPapiBackend ----------------------------
(* Instances of PapiBackend for TLC.  One thread nests and may fail.       *)
EXTENDS PapiBackend, TLC

CONSTANTS t1, t2, m1, m2, s0, s1

TwoThreads == {t1, t2}
OneThread == {t2}
\* The thread that fails is observed longer.
UnequalWork == t1 :> 1 @@ t2 :> 2
TwoMarkers == {m1, m2}
TwoSets == {s0, s1}

Symmetric == Permutations(TwoMarkers) \cup Permutations(TwoSets)
=============================================================================
