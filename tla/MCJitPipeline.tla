--------------------------- MODULE MCJitPipeline ---------------------------
(***************************************************************************)
(* JitPipeline for TLC: the own pipeline of a Func and another one of the  *)
(* same Func, two threads, and a pipeline as seen by a bounds query: the   *)
(* size that it requires of one input follows from that of the other; when *)
(* the sizes of both are open its constraints contradict each other.       *)
(***************************************************************************)
EXTENDS JitPipeline

CONSTANTS t1, t2, own, other, a, b

TwoInputs == {a, b}
Contradictory ==
    [s \in [TwoInputs -> 0 .. 1] |-> [i \in TwoInputs |-> IF i = a THEN 1 - s[b] ELSE s[a]]]
OneQuery == {Contradictory}

(* Calls overlap until two of them do of which one finds no code, after    *)
(* which nothing is claimed of the cache, and while the author has changed *)
(* at most one thing; one thread goes on with more changes.                *)
Explored ==
    /\ ~raced
    /\ Cardinality(sched) + Added <= 1 \/ thread[t2].pc = "idle"
=============================================================================
