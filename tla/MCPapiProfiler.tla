--------------------------- MODULE MCPapiProfiler ---------------------------
(* Instances of PapiProfiler for TLC.                                      *)
EXTENDS PapiProfiler, TLC

CONSTANTS c1, c2, p1, p2, p3, blur, lap

OneNames == {blur}
TwoNames == {blur, lap}
BlurOnly == blur :> 2
BlurAndLap == blur :> 2 @@ lap :> 1

OneCaller == {c1}
TwoCallers == {c1, c2}
TwoNodes == {p1, p2}
ThreeNodes == {p1, p2, p3}
Nobody == {}
=============================================================================
