--------------------------- MODULE MCProfiledLoops ---------------------------
(* Instances of ProfiledLoops for TLC: pipelines of up to three funcs, f at *)
(* the end, as Halide lowers them: inlined, computed at the root or at a    *)
(* loop of f, of another, specialized, on a GPU; serial and parallel.       *)
EXTENDS ProfiledLoops

CONSTANTS main, w1

OneWorker == {w1}

\* What glibc leaves in front of a block that held one pair.
NothingProfiled == [must |-> FALSE, threads |-> FALSE]

L(w) == <<Leaf(w)>>
Y(par, b) == <<For("f.s0.y", par, "host", b)>>
X == <<For("g.s0.x", FALSE, "host", L("g"))>>

Trees ==
    UNION {{
      <<Produce("f", Y(par, L("f")))>>,
      <<Produce("g", X), Consume("g", <<Produce("f", Y(par, L("f")))>>)>>,
      <<Produce("f", Y(par, <<Produce("g", X), Consume("g", L("f"))>>))>>,
      <<Produce("f", L("w") \o Y(par, <<Produce("g", L("g")), Consume("g", L("f")), Leaf("v")>>))>>,
      <<Produce("f", <<Produce("g", X), Consume("g", Y(par, L("f")))>>)>>
    } : par \in BOOLEAN} \cup {
      <<Produce("f", <<For("f.s0.y", FALSE, "gpu", L("f"))>> \o L("v"))>>,
      <<Produce("f", Y(FALSE, <<Produce("g", X), Consume("g", <<Produce("h", L("h")), Consume("h", L("f"))>>)>>))>>,
      <<Produce("f", Y(FALSE, <<Produce("g", <<Produce("h", L("h")), Consume("h", X)>>), Consume("g", L("f"))>>))>>,
      <<Produce("h", L("h")), Consume("h", <<Produce("f", Y(FALSE, <<Produce("g", X), Consume("g", L("f"))>>))>>)>>,
      <<Produce("f", <<Branch(L("f"), Y(TRUE, L("e")))>>)>>
    }

Definitions ==
    {Profile(n, level, n = "f", enable, parent) :
        n \in {"f", "g"}, level \in {"production", "both"}, enable \in BOOLEAN, parent \in {"", "f"}}

\* No definition, one, or two about different funcs.
DefinitionLists ==
    {<< >>} \cup {<<d>> : d \in Definitions}
    \cup {<<d, e>> : d \in {x \in Definitions : x.name = "f"}, e \in {x \in Definitions : x.name = "g"}}

LoopTables == UNION {[X1 -> {X1 = {"f.s0.y"}}] : X1 \in SUBSET {"f.s0.y", "g.s0.x"}}

AllPrograms == {Instrumented(p) : p \in [stmt : Trees, defs : DefinitionLists, loops : LoopTables]}

\* f.compute_at(), parallel, with both funcs profiled: the threads of the pool
\* enter and leave regions.
ParallelProgram ==
    {Instrumented(
     [stmt |-> <<Produce("f", Y(TRUE, <<Produce("g", L("g")), Consume("g", L("f"))>>))>>,
      defs |-> <<Profile("f", "production", TRUE, TRUE, "")>>, loops |-> << >>])}

=============================================================================
