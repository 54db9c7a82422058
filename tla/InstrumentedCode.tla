-------------------------- MODULE InstrumentedCode --------------------------
(***************************************************************************)
(* The language between the pass and the runtime: the calls that           *)
(* PAPIProfiling.cpp inserts into a pipeline, the pipeline's own work,     *)
(* loops and branches around them, and the areas of counters that the      *)
(* calls name.  Code is a sequence of these.  An area is one array of      *)
(* counters of a pipeline: of a func and a level, of the overhead of a     *)
(* func, or of a loop.                                                     *)
(***************************************************************************)
EXTENDS Integers, Sequences

FuncArea(i, level) == <<"func", i, level>>
Overhead(i) == <<"overhead", i>>
LoopArea(i) == <<"loop", i>>
NoArea == <<"none">>

Enter(a) == [op |-> "enter", area |-> a]
Leave(a) == [op |-> "leave", area |-> a]
Call(name) == [op |-> name]
SetCurrent(i) == [op |-> "set_current_func", func |-> i]
Work(w) == [op |-> "work", label |-> w]
Loop(par, b) == [op |-> "for", par |-> par, body |-> b, done |-> 0]
Either(b, c) == [op |-> "if", body |-> b, other |-> c]

\* A loop of which one more iteration has run.
Again(loop) == [op |-> "for", par |-> loop.par, body |-> loop.body, done |-> loop.done + 1]

\* The id of a func is its place in the table of names less one; the overhead
\* has id 0.
FuncId(p, f) == (CHOOSE i \in DOMAIN p.indices : p.indices[i] = f) - 1
FuncIds(p) == 0 .. Len(p.indices) - 1

\* The areas of an instrumented pipeline, with the tables that pipeline_start
\* is given.
Areas(p) == {LoopArea(p.loops[l]) : l \in DOMAIN p.loops}
            \cup {Overhead(i) : i \in FuncIds(p)}
            \cup {FuncArea(i, level) : i \in FuncIds(p), level \in {"produce", "consume"}}

\* The area with the name that the program gives it.
AreaOf(p, n) ==
    IF n = NoArea THEN NoArea
    ELSE IF n[1] = "loop" THEN LoopArea(p.loops[n[2]])
    ELSE [n EXCEPT ![2] = FuncId(p, @)]

\* Where the leaf is in the program.
LeafOf(p, label) == CHOOSE x \in p.leaves : x.node.name = label

\* Where the work is to be charged, and under which func it is to be sampled.
AreaAsked(p, work) == AreaOf(p, LeafOf(p, work.label).area)
FuncAround(p, work) == FuncId(p, LeafOf(p, work.label).ctx.producer)

-----------------------------------------------------------------------------
(* What is expected of code.  A place in it is described by the area that  *)
(* is open, by whether the thread there is active, by the func it set last *)
(* and by whether it is inside a parallel loop.                            *)

Nobody == -1

Places(p) == [open : Areas(p) \cup {NoArea}, active : BOOLEAN,
              func : FuncIds(p) \cup {Nobody}, par : BOOLEAN]

Outermost == [open |-> NoArea, active |-> FALSE, func |-> Nobody, par |-> FALSE]
AtRest(s) == s.open = NoArea /\ ~s.active /\ ~s.par

Inner(c) == IF c.op = "for" THEN {c.body} ELSE IF c.op = "if" THEN {c.body, c.other} ELSE {}

\* The place after a step, and the place the bodies in it start and end at.
After(c, s) ==
    CASE c.op = "enter" -> [s EXCEPT !.open = c.area]
      [] c.op = "leave" -> [s EXCEPT !.open = NoArea]
      [] c.op = "incr"  -> [s EXCEPT !.active = TRUE]
      [] c.op = "decr"  -> [s EXCEPT !.active = FALSE]
      [] c.op = "set_current_func" -> [s EXCEPT !.func = c.func]
      [] OTHER -> s

Inside(c, s) == IF c.op = "for" /\ c.par THEN [s EXCEPT !.par = TRUE] ELSE s

\* Regions do not overlap and are outside of parallel loops, which the caller
\* starts inactive; a thread works only while it is active, in the region that
\* was asked for and under the func that is around.
Allowed(p, c, s) ==
    /\ c.op \in {"enter", "leave", "incr", "decr", "set_current_func", "work", "for", "if",
                 "enter_parallel", "leave_parallel", "kernel"}
    /\ c.op = "enter" => s.open = NoArea /\ c.area \in Areas(p) /\ ~s.par
    /\ c.op = "leave" => s.open = c.area /\ c.area \in Areas(p) /\ ~s.par
    /\ c.op = "incr" => ~s.active
    /\ c.op = "decr" => s.active
    /\ c.op = "set_current_func" => c.func \in FuncIds(p)
    /\ c.op = "work" => /\ s.active /\ s.open = AreaAsked(p, c)
                        /\ s.func # Nobody /\ s.func = FuncAround(p, c)
    /\ c.op = "for" /\ c.par => ~s.active /\ ~s.par

\* A set of triples of code, a place to run it from and the place it ends at,
\* with those of every tail and of every body in them: the bodies of loops and
\* branches end where they start.
Nested(p, runs) ==
    \A r \in runs :
        \/ r[1] = << >> /\ r[2] = r[3]
        \/ /\ r[1] # << >>
           /\ Allowed(p, Head(r[1]), r[2])
           /\ <<Tail(r[1]), After(Head(r[1]), r[2]), r[3]>> \in runs
           /\ LET s == Inside(Head(r[1]), r[2])
              IN  \A b \in Inner(Head(r[1])) : <<b, s, s>> \in runs

\* Code can run from s to e if such a set has it.  A pipeline runs from the
\* outermost place to one at rest.
CanRun(p, c, s, e) ==
    \E ops, runs : /\ runs \in SUBSET (Seq(ops) \X Places(p) \X Places(p))
                   /\ Nested(p, runs)
                   /\ <<c, s, e>> \in runs

WellNested(p) == \E e : AtRest(e) /\ CanRun(p, p.code, Outermost, e)
=============================================================================
