--------------------------- MODULE ProfilingPass ---------------------------
(***************************************************************************)
(* The pass that instruments a lowered pipeline, InjectPAPIProfiling of    *)
(* PAPIProfiling.cpp, as a function from statements to code.               *)
(*                                                                         *)
(* A statement is a sequence of nodes.  A node is a leaf, a piece of work  *)
(* with a label of its own; a produce or consume node of a func; a for     *)
(* loop; or a branch, as specialize() makes.                               *)
(***************************************************************************)
EXTENDS InstrumentedCode, FiniteSets, SequencesExt

CONSTANT Garbage    \* what profile_stack.back() reads of an empty stack

ASSUME GarbageAssumption == Garbage \in [must : BOOLEAN, threads : BOOLEAN]

Leaf(w) == [k |-> "leaf", name |-> w, body |-> << >>]
Produce(f, b) == [k |-> "produce", name |-> f, body |-> b]
Consume(f, b) == [k |-> "consume", name |-> f, body |-> b]
For(v, par, dev, b) == [k |-> "for", name |-> v, par |-> par, device |-> dev, body |-> b]
Branch(b, c) == [k |-> "if", name |-> "", body |-> b, other |-> c]

\* What Func::profile and profile_in append to papi_profiler_defs, and
\* profile_at to papi_profiler_loops.
Profile(f, level, threads, enable, parent) ==
    [name |-> f, produce |-> level \in {"production", "both"},
     consume |-> level \in {"consumption", "both"},
     threads |-> threads, enable |-> enable, parent |-> parent]

-----------------------------------------------------------------------------
\* The state of the mutator.  indices lists the funcs: the id of a func is
\* its place less one (FuncId), and the overhead has id 0.
Fresh == [indices |-> <<"overhead">>, children |-> 0 :> 0,
          loops |-> << >>, prod |-> << >>, cons |-> << >>, loop |-> << >>]

Known(st, f) == \E i \in DOMAIN st.indices : st.indices[i] = f

\* get_func_id
WithFunc(st, f) ==
    IF Known(st, f) THEN st
    ELSE [st EXCEPT !.indices = Append(@, f),
                    !.children = [i \in 0 .. Len(st.indices) |->
                                     IF i \in DOMAIN @ THEN @[i] ELSE 0]]

Count(st, i, n) == [st EXCEPT !.children[i] = n]

\* The first definition that speaks of this node.
Matching(defs, node, parent) ==
    LET Speaks(d) == /\ d.name = node.name
                     /\ \/ d.produce /\ node.k = "produce"
                        \/ d.consume /\ node.k = "consume"
                     /\ d.parent \in {"", parent}
    IN  SelectSeq(defs, Speaks)

\* The region that stands for a profiled node: a producer with producers or
\* consumers inside is only measured between them.
Region(st, node) ==
    IF node.k = "produce" /\ st.children[FuncId(st, node.name)] > 0
    THEN Overhead(FuncId(st, node.name))
    ELSE FuncArea(FuncId(st, node.name), node.k)

\* The func that is current in a node: at the beginning of a consume step it
\* is set back to the outer one.
CurrentTask(node, own, parent) == IF node.k = "produce" THEN own ELSE parent

\* Mutant: also where no producer is around.
AlwaysInterrupting(must, profiles, parent, code) ==
    IF must THEN <<Leave(Overhead(parent))>> \o code \o <<Enter(Overhead(parent))>> ELSE code

\* A profiled node interrupts the overhead region of the producer around it.
Interrupting(must, profiles, parent, code) ==
    IF must /\ profiles # << >>
    THEN <<Leave(Overhead(parent))>> \o code \o <<Enter(Overhead(parent))>> ELSE code

\* The body of a loop whose iterations other threads run.
Task(forks, code) ==
    IF forks THEN <<Call("incr")>> \o code \o <<Call("decr")>> ELSE code

\* Mutant: the caller stays active.
ActiveForking(forks, code) ==
    IF forks THEN <<Call("enter_parallel")>> \o code \o <<Call("leave_parallel")>> ELSE code

\* What is around such a loop: its caller is not active.
Forking(forks, code) ==
    IF forks THEN <<Call("decr"), Call("enter_parallel")>> \o code
                  \o <<Call("leave_parallel"), Call("incr")>>
    ELSE code

RECURSIVE MutateAll(_, _, _, _, _, _)

\* visit(const ProducerConsumer *).  stack holds the ids of the producers
\* around the node, under the 0 that is always there; profiles, whether these
\* producers are profiled.
MutateProducerConsumer(node, defs, ploops, st, stack, profiles) ==
    LET parent == Last(stack)
        match  == Matching(defs, node, st.indices[parent + 1])
        told   == [must |-> match # << >> /\ match[1].enable,
                   threads |-> match # << >> /\ match[1].enable /\ match[1].threads]
        st1    == IF Len(stack) > 1 THEN Count(st, parent, st.children[parent] + 1) ELSE st
        st2    == IF node.k = "produce"
                  THEN LET s == WithFunc(st1, node.name) IN Count(s, FuncId(s, node.name), 0)
                  ELSE st1
        inner  == IF node.k = "produce"
                  THEN MutateAll(node.body, defs, ploops, st2,
                                 Append(stack, FuncId(st2, node.name)), Append(profiles, told))
                  ELSE MutateAll(node.body, defs, ploops, st2, stack, profiles)
        around == IF profiles = << >> THEN Garbage ELSE Last(profiles)
        does   == IF match = << >> /\ around.must THEN around ELSE told
        st3    == WithFunc(inner.st, node.name)
        area   == Region(st3, node)
        region == IF does.must THEN <<Enter(area)>> \o inner.code \o <<Leave(area)>>
                  ELSE inner.code
        flag   == FuncId(st3, node.name) :> does.threads
        task   == SetCurrent(CurrentTask(node, FuncId(st3, node.name), parent))
    IN  [code |-> Interrupting(does.must, profiles, parent, <<task>> \o region),
         st   |-> IF node.k = "produce" THEN [st3 EXCEPT !.prod = flag @@ @]
                  ELSE [st3 EXCEPT !.cons = flag @@ @]]

\* visit(const For *).  The loops of a GPU are parallel too; their body stays as
\* it is.
MutateFor(node, defs, ploops, st, stack, profiles) ==
    LET forks == node.par \/ node.device # "host"
        inner == IF node.device = "gpu" THEN [code |-> <<Call("kernel")>>, st |-> st]
                 ELSE MutateAll(node.body, defs, ploops, st, stack, profiles)
        task  == Task(forks /\ node.device # "gpu", inner.code)
        loop  == <<Loop(node.par, task)>>
        id    == Cardinality(DOMAIN inner.st.loops)
        named == node.name \in DOMAIN ploops
        timed == IF named THEN <<Enter(LoopArea(id))>> \o loop \o <<Leave(LoopArea(id))>>
                 ELSE loop
    IN  [code |-> Forking(forks, timed),
         st   |-> IF named THEN [inner.st EXCEPT !.loops = node.name :> id @@ @,
                                                 !.loop = id :> ploops[node.name] @@ @]
                  ELSE inner.st]

MutateBranch(node, defs, ploops, st, stack, profiles) ==
    LET first  == MutateAll(node.body, defs, ploops, st, stack, profiles)
        second == MutateAll(node.other, defs, ploops, first.st, stack, profiles)
    IN  [code |-> <<Either(first.code, second.code)>>, st |-> second.st]

Mutate(node, defs, ploops, st, stack, profiles) ==
    CASE node.k = "leaf" -> [code |-> <<Work(node.name)>>, st |-> st]
      [] node.k = "for"  -> MutateFor(node, defs, ploops, st, stack, profiles)
      [] node.k = "if"   -> MutateBranch(node, defs, ploops, st, stack, profiles)
      [] OTHER           -> MutateProducerConsumer(node, defs, ploops, st, stack, profiles)

MutateAll(s, defs, ploops, st, stack, profiles) ==
    IF s = << >> THEN [code |-> << >>, st |-> st]
    ELSE LET first == Mutate(Head(s), defs, ploops, st, stack, profiles)
             rest  == MutateAll(Tail(s), defs, ploops, first.st, stack, profiles)
         IN  [code |-> first.code \o rest.code, st |-> rest.st]

\* inject_papi_profiling: what runs between pipeline_start and pipeline_end,
\* and the tables that pipeline_start is given.
Inject(s, defs, ploops) ==
    LET m == MutateAll(s, defs, ploops, Fresh, <<0>>, << >>)
    IN  [code |-> <<Call("incr")>> \o m.code \o <<Call("decr")>>,
         indices |-> m.st.indices, loops |-> m.st.loops,
         prod |-> m.st.prod, cons |-> m.st.cons, loop |-> m.st.loop]

-----------------------------------------------------------------------------
(* What is expected of the code.                                           *)

Mixed == <<"mixed">>

RECURSIVE Paths(_, _)

\* The areas that can be open after the code, of those open before it; Mixed
\* if a path enters a second area or leaves one that is not open.  Two
\* iterations of a loop show what any number does.
PathOp(c, open) ==
    CASE c.op = "enter" -> {IF open = NoArea THEN c.area ELSE Mixed}
      [] c.op = "leave" -> {IF open = c.area THEN NoArea ELSE Mixed}
      [] c.op = "for"   -> Paths(c.body \o c.body, open)
      [] c.op = "if"    -> Paths(c.body, open) \cup Paths(c.other, open)
      [] OTHER          -> {open}

Paths(code, open) ==
    IF code = << >> THEN {open}
    ELSE UNION {Paths(Tail(code), o) : o \in PathOp(Head(code), open)}

Alternating(code) == Paths(code, NoArea) = {NoArea}

\* The areas some call of the code names.
RECURSIVE AreasOf(_)
AreasOf(code) ==
    UNION {CASE code[i].op \in {"enter", "leave"} -> {code[i].area}
             [] code[i].op = "for" -> AreasOf(code[i].body)
             [] code[i].op = "if"  -> AreasOf(code[i].body) \cup AreasOf(code[i].other)
             [] OTHER -> {}
           : i \in DOMAIN code}

-----------------------------------------------------------------------------
(* What the program asks for.                                              *)

\* A node is profiled if the first definition about it says so, or if none is
\* about it and the producer around it has one that says so: a func that is
\* only profiled because of the one around it passes this on no further.
Told(node, defs, ctx) ==
    LET match == Matching(defs, node, ctx.producer)
    IN  match # << >> /\ match[1].enable

Asked(node, defs, ctx) ==
    \/ Told(node, defs, ctx)
    \/ Matching(defs, node, ctx.producer) = << >> /\ ctx.told

\* Is a producer or consumer inside, out of GPU loops?
RECURSIVE HasNodes(_)
HasNodes(s) ==
    \E i \in DOMAIN s :
        \/ s[i].k \in {"produce", "consume"}
        \/ s[i].k = "for" /\ s[i].device # "gpu" /\ HasNodes(s[i].body)
        \/ s[i].k = "if" /\ (HasNodes(s[i].body) \/ HasNodes(s[i].other))

\* Areas by name: where the work of a profiled node is to be charged.
NamedArea(node) ==
    IF node.k = "for" THEN <<"loop", node.name>>
    ELSE IF node.k = "produce" /\ HasNodes(node.body) THEN <<"overhead", node.name>>
    ELSE <<"func", node.name, node.k>>

\* What is around a node: the innermost producer, whether it has a definition
\* and whether it is profiled, the innermost profiled area, and whether a
\* parallel loop is.
Outside == [producer |-> "overhead", told |-> FALSE, profiled |-> FALSE,
            area |-> NoArea, par |-> FALSE]

Within(node, defs, ploops, ctx) ==
    LET must == IF node.k = "for" THEN node.name \in DOMAIN ploops ELSE Asked(node, defs, ctx)
        area == IF must THEN NamedArea(node) ELSE ctx.area
    IN  CASE node.k = "produce" ->
               [ctx EXCEPT !.producer = node.name, !.told = Told(node, defs, ctx),
                           !.profiled = must, !.area = area]
          [] node.k = "for" -> [ctx EXCEPT !.area = area, !.par = @ \/ node.par]
          [] OTHER -> [ctx EXCEPT !.area = area]

\* The leaves and the profiled nodes of a statement, each with what is around
\* it and the area it is to be charged to.
RECURSIVE Profiled(_, _, _, _)
Profiled(s, defs, ploops, ctx) ==
    UNION {LET node  == s[i]
               inner == Within(node, defs, ploops, ctx)
               self(area) == [node |-> node, area |-> area, ctx |-> ctx]
           IN  CASE node.k = "leaf" -> {self(ctx.area)}
                 [] node.k = "if"   -> Profiled(node.body, defs, ploops, ctx)
                                       \cup Profiled(node.other, defs, ploops, ctx)
                 [] OTHER ->
                      (IF inner.area = ctx.area THEN {} ELSE {self(inner.area)})
                      \cup (IF node.k = "for" /\ node.device = "gpu" THEN {}
                            ELSE Profiled(node.body, defs, ploops, inner))
           : i \in DOMAIN s}

Leaves(s, defs, ploops) == {p \in Profiled(s, defs, ploops, Outside) : p.node.k = "leaf"}
Regions(s, defs, ploops) == {p \in Profiled(s, defs, ploops, Outside) : p.node.k # "leaf"}

\* Nothing profiled is inside a profiled thing, except that a profiled
\* producer directly contains its producers and consumers, which are profiled
\* only if it is.
Disjoint(s, defs, ploops) ==
    \A p \in Regions(s, defs, ploops) :
        /\ p.ctx.area # NoArea => /\ p.ctx.area = <<"overhead", p.ctx.producer>>
                                  /\ p.node.k # "for"
        /\ p.node.k # "for" /\ p.ctx.producer # "overhead" => p.ctx.profiled

\* No region is inside a parallel loop.
OneThreaded(s, defs, ploops) ==
    \A p \in Regions(s, defs, ploops) : ~p.ctx.par
=============================================================================
