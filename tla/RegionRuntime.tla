---------------------------- MODULE RegionRuntime ----------------------------
(***************************************************************************)
(* An instrumented pipeline at run time: code as InstrumentedCode has it,  *)
(* run by the thread that calls the pipeline and, inside parallel loops,   *)
(* by the threads of Halide's pool, over the region counters of            *)
(* papi_profiler.cpp and of its variant papi_profiler_alt.cpp.             *)
(*                                                                         *)
(* One global pointer, last_counters, names the area that was entered      *)
(* last.  The original leaves a region through the region's own area, the  *)
(* variant through the pointer; both use the pointer when a thread becomes *)
(* inactive.                                                               *)
(*                                                                         *)
(* The counter library, papi_halide_*, is not part of the repository.  The *)
(* model assumes the least under which the calls make sense: a thread      *)
(* counts from start_thread or marker_start on, from zero, and             *)
(* marker_stop adds what it counted to the values it is given.             *)
(***************************************************************************)
EXTENDS InstrumentedCode, ProfileReport

CONSTANTS Main,         \* the thread that calls the pipeline
          Workers,      \* the other threads of the pool
          Programs,     \* the instrumented pipelines: their code and tables, and
                        \* where each leaf of the pipeline is
          Variants,     \* of "original" and "alt", the runtimes to consider
          Careful,      \* are programs run only if their regions are disjoint and
                        \* none is inside a parallel loop?
          MayFail,      \* may an assertion of the pipeline fail?
          MaxRuns,      \* bound: calls of the pipeline
          Trips         \* bound: iterations of a loop

ASSUME ThreadAssumption == Main \notin Workers /\ IsFiniteSet(Workers)

\* The overhead is always among the funcs of a program.
ASSUME ProgramAssumption == \A p \in Programs : 0 \in FuncIds(p)

ASSUME BoundAssumption == Trips \in Nat \ {0} /\ MaxRuns \in Nat
                          /\ MayFail \in BOOLEAN /\ Careful \in BOOLEAN

VARIABLES
    program,        \* the instrumented pipeline that is run
    variant,        \* "original" or "alt"
    run,            \* how many times the pipeline was called
    todo,           \* the code each thread has yet to run
    tasks,          \* iterations of the parallel loop that no thread took yet
    task,           \* the body of that loop
    last_counters,  \* NULL, or the area and the run whose memory it is in
    current_func,
    active_threads,
    stats,          \* of each area: iterations, and counters by thread
    seen,           \* what a thread in decr_active_threads read of the pointer
    counted,        \* what a thread counted since it started; -1 if it does not
    due,            \* history: the work of each thread, by the area to charge
    fault,          \* history: was NULL or a freed area dereferenced?
    printed,        \* history: the areas as the last report found them
    failed          \* history: the calls that failed, each with whether the
                    \* caller was active

chosen == <<program, variant>>
threadVars == <<todo, tasks, task>>
counterVars == <<last_counters, stats, seen, counted, fault>>
vars == <<chosen, run, threadVars, counterVars, current_func, active_threads, due, printed, failed>>

NULL == [area |-> NoArea, run |-> 0]
Threads == {Main} \cup Workers
Join == Call("join")
End == Call("pipeline_end")

Cleared == [a \in Areas(program) |-> [iterations |-> 0, counters |-> [t \in Threads |-> 0], used |-> {}]]

Init ==
    /\ program \in Programs
    /\ variant \in Variants
    /\ run = 0
    /\ todo = [t \in Threads |-> << >>] /\ tasks = 0 /\ task = << >>
    /\ last_counters = NULL /\ stats = << >>
    /\ seen = [t \in Threads |-> NULL]
    /\ counted = [t \in Threads |-> -1]
    /\ current_func = 0 /\ active_threads = 0
    /\ due = << >> /\ fault = FALSE /\ printed = << >> /\ failed = {}

-----------------------------------------------------------------------------
\* After a fault nothing is known: the program has ended.
Doing(t, op) == ~fault /\ todo[t] # << >> /\ Head(todo[t]).op = op

Done(t) == /\ todo' = [todo EXCEPT ![t] = Tail(@)]
           /\ UNCHANGED <<tasks, task>>

Area(t) == Head(todo[t]).area

\* papi_halide_marker_stop into the counters of area a, and its used flag.
StoppedInto(a, t) ==
    [stats EXCEPT ![a].counters[t] = @ + (IF counted[t] < 0 THEN 0 ELSE counted[t]),
                  ![a].used = @ \cup {t}]

\* halide_papi_pipeline_start: the areas are new, the library is initialised.
Start ==
    /\ ~fault /\ run < MaxRuns /\ todo[Main] = << >>
    /\ Careful => program.disjoint /\ program.oneThreaded
    /\ run' = run + 1
    /\ todo' = [todo EXCEPT ![Main] = Append(program.code, End)]
    /\ stats' = Cleared
    /\ due' = [a \in Areas(program) |-> [t \in Threads |-> 0]]
    /\ counted' = [t \in Threads |-> -1]
    /\ UNCHANGED <<chosen, tasks, task, last_counters, seen, fault, current_func,
                   active_threads, printed, failed>>

\* halide_papi_pipeline_end: the report; then the areas are freed.
Finish ==
    /\ Doing(Main, "pipeline_end")
    /\ printed' = stats /\ stats' = << >>
    /\ current_func' = -1
    /\ Done(Main)
    /\ UNCHANGED <<chosen, run, last_counters, seen, counted, fault, active_threads, due, failed>>

\* A thread is active if the next of these two calls that it makes is decr.
Active(t) ==
    /\ seen[t] = NULL
    /\ \E i \in DOMAIN todo[t] :
          todo[t][i].op = "decr" /\ \A j \in 1 .. i - 1 : todo[t][j].op # "incr"

\* An assertion of the pipeline fails while its caller works alone: only the
\* destructor still runs.
Abort ==
    /\ MayFail /\ ~fault /\ tasks = 0 /\ \A w \in Workers : todo[w] = << >>
    /\ Len(todo[Main]) > 1 /\ seen[Main] = NULL
    /\ todo' = [todo EXCEPT ![Main] = <<End>>]
    /\ failed' = failed \cup {[run |-> run, active |-> Active(Main)]}
    /\ UNCHANGED <<chosen, run, tasks, task, counterVars, current_func, active_threads, due, printed>>

SetCurrentFunc(t) ==
    /\ Doing(t, "set_current_func")
    /\ current_func' = Head(todo[t]).func
    /\ Done(t)
    /\ UNCHANGED <<chosen, run, counterVars, active_threads, due, printed, failed>>

\* One iteration in Granularity is measured.
Sampled(a) == stats[a].iterations % Granularity = 0

\* halide_papi_enter_current_func, _enter_loop, _enter_overhead_region.
EnterRegion(t) ==
    /\ Doing(t, "enter")
    /\ IF Sampled(Area(t))
       THEN /\ last_counters' = [area |-> Area(t), run |-> run]
            /\ counted' = [counted EXCEPT ![t] = 0]
       ELSE UNCHANGED <<last_counters, counted>>
    /\ Done(t)
    /\ UNCHANGED <<chosen, run, stats, seen, fault, current_func, active_threads, due, printed, failed>>

\* The variant leaves through the pointer, whichever region it is that ends.
AreaLeft(a) == IF variant = "alt" THEN last_counters.area ELSE a

\* Mutant: the pointer is left set.
LeaveRegionPointing(t) ==
    LET a == Area(t)
    IN  /\ Doing(t, "leave")
        /\ stats' = [StoppedInto(a, t) EXCEPT ![a].iterations = @ + 1]
        /\ counted' = [counted EXCEPT ![t] = -1]
        /\ Done(t)
        /\ UNCHANGED <<chosen, run, last_counters, seen, fault, current_func, active_threads, due, printed, failed>>

\* halide_papi_leave_current_func, _leave_loop, _leave_overhead_region.
LeaveRegion(t) ==
    LET a == Area(t)
        OneMore(s) == [s EXCEPT ![a].iterations = @ + 1]
    IN  /\ Doing(t, "leave")
        /\ IF ~Sampled(a)
           THEN stats' = OneMore(stats) /\ UNCHANGED <<last_counters, counted, fault>>
           ELSE IF variant = "alt" /\ last_counters = NULL
           THEN fault' = TRUE /\ UNCHANGED <<stats, last_counters, counted>>
           ELSE /\ stats' = OneMore(StoppedInto(AreaLeft(a), t))
                /\ last_counters' = NULL
                /\ counted' = [counted EXCEPT ![t] = -1]
                /\ UNCHANGED fault
        /\ Done(t)
        /\ UNCHANGED <<chosen, run, seen, current_func, active_threads, due, printed, failed>>

\* halide_papi_incr_active_threads: papi_halide_start_thread begins to count.
IncrActive(t) ==
    /\ Doing(t, "incr")
    /\ active_threads' = active_threads + 1
    /\ counted' = [counted EXCEPT ![t] = 0]
    /\ Done(t)
    /\ UNCHANGED <<chosen, run, last_counters, stats, seen, fault, current_func, due, printed, failed>>

\* Mutant: whoever becomes inactive just stops.
DecrActiveUncounted(t) ==
    /\ Doing(t, "decr") /\ seen[t] = NULL
    /\ active_threads' = active_threads - 1
    /\ counted' = [counted EXCEPT ![t] = -1]
    /\ Done(t)
    /\ UNCHANGED <<chosen, run, last_counters, stats, seen, fault, current_func, due, printed, failed>>

\* halide_papi_decr_active_threads up to the test of last_counters.  If it is
\* NULL the thread just stops.
DecrActive(t) ==
    /\ Doing(t, "decr") /\ seen[t] = NULL
    /\ active_threads' = active_threads - 1
    /\ IF last_counters = NULL
       THEN /\ counted' = [counted EXCEPT ![t] = -1]
            /\ Done(t)
            /\ UNCHANGED seen
       ELSE /\ seen' = [seen EXCEPT ![t] = last_counters]
            /\ UNCHANGED <<counted, threadVars>>
    /\ UNCHANGED <<chosen, run, last_counters, stats, fault, current_func, due, printed, failed>>

\* Mutant: the pointer is reset, as it is when a region is left.
DecrStopClearing(t) ==
    /\ Doing(t, "decr") /\ seen[t] # NULL
    /\ \E p \in {seen[t], last_counters} :
          IF p = NULL \/ p.run # run THEN fault' = TRUE /\ UNCHANGED stats
          ELSE stats' = StoppedInto(p.area, t) /\ UNCHANGED fault
    /\ last_counters' = NULL
    /\ counted' = [counted EXCEPT ![t] = -1]
    /\ seen' = [seen EXCEPT ![t] = NULL]
    /\ Done(t)
    /\ UNCHANGED <<chosen, run, current_func, active_threads, due, printed, failed>>

\* The rest of it.  The global is not volatile: its uses may read it again.
DecrStop(t) ==
    /\ Doing(t, "decr") /\ seen[t] # NULL
    /\ \E p \in {seen[t], last_counters} :
          IF p = NULL \/ p.run # run THEN fault' = TRUE /\ UNCHANGED stats
          ELSE stats' = StoppedInto(p.area, t) /\ UNCHANGED fault
    /\ counted' = [counted EXCEPT ![t] = -1]
    /\ seen' = [seen EXCEPT ![t] = NULL]
    /\ Done(t)
    /\ UNCHANGED <<chosen, run, last_counters, current_func, active_threads, due, printed, failed>>

\* Calls that only reach the library, and GPU kernels.
Pass(t) ==
    /\ Doing(t, "enter_parallel") \/ Doing(t, "leave_parallel") \/ Doing(t, "kernel")
    /\ Done(t)
    /\ UNCHANGED <<chosen, run, counterVars, current_func, active_threads, due, printed, failed>>

\* A piece of the pipeline's own work.
DoWork(t) ==
    /\ Doing(t, "work")
    /\ LET a == AreaAsked(program, Head(todo[t]))
       IN  due' = IF a = NoArea THEN due ELSE [due EXCEPT ![a][t] = @ + 1]
    /\ counted' = [counted EXCEPT ![t] = IF @ < 0 THEN @ ELSE @ + 1]
    /\ Done(t)
    /\ UNCHANGED <<chosen, run, last_counters, stats, seen, fault, current_func,
                   active_threads, printed, failed>>

Instead(t, code) ==
    /\ todo' = [todo EXCEPT ![t] = code \o Tail(@)]
    /\ UNCHANGED <<chosen, run, counterVars, current_func, active_threads, due, printed, failed>>

Choose(t) ==
    /\ Doing(t, "if")
    /\ \E code \in {Head(todo[t]).body, Head(todo[t]).other} : Instead(t, code)
    /\ UNCHANGED <<tasks, task>>

\* One iteration, and then the rest of the loop.
SerialLoop(t) ==
    LET loop == Head(todo[t])
    IN  /\ Doing(t, "for") /\ ~loop.par
        /\ Instead(t, IF loop.done + 1 < Trips THEN Append(loop.body, Again(loop)) ELSE loop.body)
        /\ UNCHANGED <<tasks, task>>

\* A parallel loop: its iterations are tasks of the pool, of which the caller
\* is a thread too.  A parallel loop inside another is not modelled.
Fork ==
    /\ Doing(Main, "for") /\ Head(todo[Main]).par
    /\ tasks' = Trips /\ task' = Head(todo[Main]).body
    /\ Instead(Main, <<Join>>)

Take(t) ==
    /\ ~fault /\ tasks > 0 /\ (todo[t] = << >> \/ Doing(t, "join"))
    /\ tasks' = tasks - 1 /\ todo' = [todo EXCEPT ![t] = task \o @]
    /\ UNCHANGED <<chosen, run, task, counterVars, current_func, active_threads, due, printed, failed>>

Joined ==
    /\ Doing(Main, "join") /\ tasks = 0 /\ \A w \in Workers : todo[w] = << >>
    /\ Instead(Main, << >>)
    /\ task' = << >> /\ UNCHANGED tasks

Step(t) ==
    \/ SetCurrentFunc(t) \/ EnterRegion(t) \/ LeaveRegion(t)
    \/ IncrActive(t) \/ DecrActive(t) \/ DecrStop(t)
    \/ Pass(t) \/ DoWork(t) \/ Choose(t) \/ SerialLoop(t) \/ Take(t)

Next == Start \/ Abort \/ Fork \/ Joined \/ Finish \/ \E t \in Threads : Step(t)

Spec == Init /\ [][Next]_vars

-----------------------------------------------------------------------------
TypeOK ==
    /\ run \in 0 .. MaxRuns /\ tasks \in 0 .. Trips
    /\ last_counters # NULL => last_counters.area \in Areas(program) /\ last_counters.run \in 1 .. run
    /\ DOMAIN stats \in {{}, Areas(program)}
    /\ \A a \in DOMAIN stats : /\ stats[a].iterations \in Nat
                               /\ stats[a].counters \in [Threads -> Nat]
                               /\ stats[a].used \subseteq Threads
    /\ counted \in [Threads -> Nat \cup {-1}]
    /\ current_func \in FuncIds(program) \cup {-1}
    /\ active_threads \in Nat
    /\ \A t \in Threads : seen[t] = NULL \/ seen[t].area \in Areas(program)
    /\ failed \subseteq [run : 1 .. run, active : BOOLEAN]

\* Whoever does the work, and in either variant of the runtime: when a call of
\* such a pipeline ends, each thread's work is in the area the user asked for,
\* and nowhere else.  The first call that fails charges no work to an area it
\* was not done for.
ChargedWhereAsked ==
    printed # << >> /\ todo[Main] = << >> /\ (\A c \in failed : c.run = run) =>
        \A a \in Areas(program) : \A t \in Threads :
            /\ printed[a].counters[t] <= due[a][t]
            /\ failed = {} => printed[a].counters[t] = due[a][t]

\* What a thread read of last_counters when it became inactive still holds
\* when it uses it (papi_profiler.cpp:646-648).
PointerStable == \A t \in Threads : seen[t] \in {NULL, last_counters}

\* The pointer never outlives the pipeline whose memory it points into, unless
\* a call fails: that one leaves it where it was.
PointerFresh ==
    last_counters # NULL /\ failed = {} => last_counters.run = run /\ stats # << >>

\* While threads work on a loop nothing changes the pointer, and between
\* pipelines there is none.
PointerRight == PointerStable /\ PointerFresh

\* Neither NULL nor a freed area is dereferenced, as long as no call has failed.
NoFault == failed = {} => ~fault

\* active_threads is the number of threads that run the pipeline: the caller
\* does not count while others do its work (PAPIProfiling.cpp:247-272,323-325).
\* A call that fails while its caller is active counts for ever.
ActiveThreadsExact ==
    active_threads = Cardinality({t \in Threads : Active(t)})
                     + Cardinality({c \in failed : c.active})

\* While the caller works alone, the sampler's current func is the producer
\* around the work (PAPIProfiling.cpp:177-179,212-216).
SampledFuncRight ==
    Doing(Main, "work") /\ (\A i \in DOMAIN todo[Main] : todo[Main][i] # Join)
        => current_func = FuncAround(program, Head(todo[Main]))

\* What the sampling thread reads, the current func and the number of active
\* threads, is what the pipeline does (and every variable has its type).
SampledRight == TypeOK /\ ActiveThreadsExact /\ SampledFuncRight

\* The report's total is the work done in all areas, and each area in use has
\* a line that shows its count (papi_profiler.cpp:213-420).
Shows(a) == CASE a[1] = "loop" -> program.loop[a[2]]
              [] a[1] = "overhead" \/ a[3] = "produce" -> program.prod[a[2]]
              [] OTHER -> program.cons[a[2]]

Reported ==
    printed # << >> /\ todo[Main] = << >> /\ failed = {} =>
        \A a \in Areas(program) : printed[a].used # {} =>
            /\ TotalEvents(printed[a]) = SumFunctionOnSet(due[a], Threads)
            /\ \/ a[1] = "loop" /\ LoopTotal(printed[a], Shows(a))
               \/ a[1] # "loop" /\ FuncTotal(printed[a], Shows(a))
               \/ ThreadLines(printed[a], Shows(a)) = printed[a].used
=============================================================================
