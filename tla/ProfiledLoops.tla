---------------------------- MODULE ProfiledLoops ----------------------------
(***************************************************************************)
(* The pipelines that the pass instruments, run by the runtime: what       *)
(* ProfilingPass makes of a statement is the program of RegionRuntime.     *)
(***************************************************************************)
EXTENDS RegionRuntime, ProfilingPass

\* A statement with what is profiled in it, instrumented; and what the user may
\* expect of it.
Instrumented(p) ==
    LET i == Inject(p.stmt, p.defs, p.loops)
    IN  i @@ [leaves |-> Leaves(p.stmt, p.defs, p.loops),
              disjoint |-> Disjoint(p.stmt, p.defs, p.loops),
              oneThreaded |-> OneThreaded(p.stmt, p.defs, p.loops)]

RECURSIVE Runs(_, _)

\* The runs of code from a place, and of all code inside it (see Nested).
Runs(code, s) ==
    LET at == [i \in 1 .. Len(code) + 1 |-> FoldLeft(LAMBDA x, c : After(c, x), s, SubSeq(code, 1, i - 1))]
    IN  {<<SubSeq(code, i, Len(code)), at[i], at[Len(code) + 1]>> : i \in DOMAIN at}
        \cup UNION {UNION {Runs(b, Inside(code[i], at[i])) : b \in Inner(code[i])} : i \in DOMAIN code}

\* A pipeline runs from the outermost place to one at rest.
RunsNested(p) ==
    LET runs == Runs(p.code, Outermost)
    IN  /\ Nested(p, runs)
        /\ \A r \in runs : r[2] \in Places(p) /\ r[3] \in Places(p)
        /\ \E r \in runs : r[1] = p.code /\ r[2] = Outermost /\ AtRest(r[3])

\* The pass makes the calls alternate, on every path, exactly for the programs
\* that profile things that are not inside each other, other than nodes
\* directly in a profiled producer (PAPIProfiling.cpp:190-230).
\* Where no region is inside a parallel loop either, the runs of such a program
\* are nested as RegionRuntime needs it.
AlternatesIfDisjoint ==
    /\ Alternating(program.code) <=> program.disjoint
    /\ run = 0 /\ program.disjoint /\ program.oneThreaded => RunsNested(program)

=============================================================================
