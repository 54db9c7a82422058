--------------------------- MODULE MCThreadSlots ---------------------------
(* Instances of ThreadSlots for TLC.                                       *)
EXTENDS ThreadSlots, TLC

CONSTANTS t1, t2, t3, t4

\* Every thread has an id of its own.
DistinctTid == t1 :> 11 @@ t2 :> 12 @@ t3 :> 13 @@ t4 :> 14

FewTid == t1 :> 11 @@ t2 :> 12 @@ t3 :> 13

Crowd == {t1, t2, t3, t4}
Few == {t1, t2, t3}
=============================================================================
