----------------------------- MODULE ProfiledRun -----------------------------
(***************************************************************************)
(* What the PAPI profiler promises a program that runs its instrumented    *)
(* pipelines one at a time: a run that pipeline_start accepted prints the  *)
(* measurements of exactly one pipeline before control returns to the      *)
(* program; a run that was refused prints nothing.                         *)
(***************************************************************************)
EXTENDS Integers

CONSTANT Callers

VARIABLES
    phase,      \* out, called, running or printed
    lines       \* pipelines printed during the caller's last run

vars == <<phase, lines>>

Init ==
    /\ phase = [c \in Callers |-> "out"]
    /\ lines = [c \in Callers |-> 0]

Move(c, from, to) ==
    /\ phase[c] = from
    /\ phase' = [phase EXCEPT ![c] = to]

Begin(c) ==
    /\ \A d \in Callers : phase[d] = "out"
    /\ Move(c, "out", "called")
    /\ lines' = [lines EXCEPT ![c] = 0]

Accept(c) == Move(c, "called", "running") /\ UNCHANGED lines

PrintLine(c) ==
    /\ Move(c, "running", "printed")
    /\ lines' = [lines EXCEPT ![c] = 1]

Return(c) ==
    /\ Move(c, "called", "out") \/ Move(c, "printed", "out")
    /\ UNCHANGED lines

Next == \E c \in Callers : Begin(c) \/ Accept(c) \/ PrintLine(c) \/ Return(c)

Spec == Init /\ [][Next]_vars
=============================================================================
