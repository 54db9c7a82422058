---------------------------- MODULE ProfileReport ----------------------------
(***************************************************************************)
(* What halide_papi_report_unlocked prints of one pipeline's areas         *)
(* (papi_profiler.cpp:213-480), for one event.  An area has its            *)
(* iterations, a counter for each thread, and the threads that used it.    *)
(***************************************************************************)
EXTENDS Integers, FiniteSetsExt

CONSTANT Granularity    \* PROFILE_GRANULARITY: one iteration in so many counts

ASSUME GranularityAssumption == Granularity \in Nat \ {0}

\* The count of one thread, scaled up to all iterations of the area.
Estimate(c, n) ==
    IF n >= Granularity THEN c * Granularity + (c * (n % Granularity)) \div n
    ELSE c * n

\* total_events: what the total line of an area says, and what it adds to tot.
TotalEvents(s) ==
    SumFunctionOnSet([t \in s.used |-> Estimate(s.counters[t], s.iterations)], s.used)

\* The threads that get a line of their own.
ThreadLines(s, show) == IF show THEN s.used ELSE {}

\* Mutant: a single thread's count is left to the lines of threads.
FuncTotalOfMany(s, show) == Cardinality(s.used) > 1

\* Does an area of a func get a total line; does a loop?
FuncTotal(s, show) == (~show /\ Cardinality(s.used) = 1) \/ Cardinality(s.used) > 1
LoopTotal(s, show) == ~show \/ Cardinality(s.used) > 1
=============================================================================
