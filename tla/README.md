# Verification of libprofhalide

libprofhalide measures where the time and the hardware events of a
Halide-generated pipeline go. It has two halves:

* **backends** (`papi_api.c`, `time_api.c`, `likwid_api*.c`, `perf_api.c`): C
  libraries with an `initialize / marker_start / marker_stop / shutdown`
  interface that instrumented code calls from any number of threads;
* **a Halide fork** (`halide/`): a front end in which a program defines Funcs,
  schedules them, asks for profiling, compiles and runs them (`modified/`), a
  compiler pass (`PAPIProfiling.cpp`) that inserts profiling calls into a lowered
  pipeline, and a runtime module (`runtime/papi_profiler.cpp`) that those calls
  reach, with a sampling thread, a list of per-pipeline statistics and a report.

This directory holds TLA+ models of the parts with interesting control,
TLC configurations that check them on small instances, and proofs, checked by
TLAPS, that hold for every value of the constants.

## 1. Inventory

### Thread slots: `find_or_insert_thread()` (`papi_api.c:55-84`, `time_api.c:32-58`)

*State*: the table `threadsInfo[MAX_THREADS]` of `{set, thread_id, ...}` and one
mutex. *Operation*: turn the calling thread into an index; scan without the
mutex, insert under it, return -1 when full. Slots are never given back.
*Used by* every `marker_start` and `marker_stop` of both backends, which then
touch `start_times[idx]`, `counters[..][idx]` or `threadsInfo[idx].event_set`
without a lock. *Hard*: the scan races with insertions, the decision to insert
is not checked again under the mutex, the overflow path keeps the mutex.
*Correct when* slots are exclusive and permanent, a thread has at most one, and
calls return.

### Timer backend (`time_api.c`)

*State*: `start_times[slot]`, `timers_accum[type][id][slot]` and its flag.
*Operations*: initialize, marker_start, marker_stop, shutdown, which prints the
sum over markers of the slowest thread. *Hard*: threads update the tables with
no lock; one start time serves nested markers; the clock is read on different
sides of the slot lookup. *Correct when* a marker is charged the time its
thread spent in it, and the total covers every thread.

### PAPI backend (`papi_api.c`)

*State*: an event set per slot, `counters[marker][slot]`, the events of the
configuration file, and what PAPI itself keeps (registered threads, event sets
that run or not). *Operations*: initialize, marker_start / start_thread,
marker_stop / stop_thread, shutdown. *Hard*: each of ten PAPI calls may fail
and the code returns at the first; nested markers fail by design of PAPI; a
failed start resets an event set found at `threadsInfo[-1]`. *Correct when* each
unit of work is counted once, for its own thread and marker, and no event set
is lost or handled by a thread that does not own it. The counters are never
reported: there is no function that reads them out.

### PAPI profiler of the runtime (`halide/src/runtime/papi_profiler.cpp`)

*State*: `halide_papi_state` (lock, sampling thread, list of
`halide_papi_pipeline_stats`, `first_free_id`, `current_func`,
`active_threads`), plus the globals `current_pipeline_stats` and
`last_counters`. *Operations*, in four groups:

* life cycle: `halide_papi_pipeline_start`, `_pipeline_end`, `_shutdown`,
  `_report`, `_reset`;
* sampler: `sampling_profiler_thread` and `bill_func`, which charges the elapsed
  time to the running func and moves its pipeline to the head of the list;
* region counters: enter and leave of funcs, loops, parallel loops and overhead
  regions, `incr_/decr_active_threads`;
* report: sums over threads and events.

*Interactions*: the sampler and the host threads share the list under a
spin-lock, but `pipeline_start` and `shutdown` use it outside the lock;
`current_func` carries the running func, "outside" and the request to stop; the
JIT (`modified/Pipeline.cpp:1179-1193`) reports and resets once more after
`pipeline_end` already has. *Hard*: all of this at once, with allocations and
pipelines that fail. *Correct when* no pointer dangles, samples are billed to
the pipeline they belong to, each run is reported once and leaves nothing
behind, and every run returns.

`papi_profiler_alt.cpp` is a variant of this file: the same life cycle and
sampler text, other enter and leave functions. The module calls
`papi_halide_initialize / _marker_start / _marker_stop / _shutdown`, an
interface no C file of this repository implements (`papi_api.c` and `time_api.c`
define an older one, `perfctr_halide_*`).

### Profiling pass (`halide/src/PAPIProfiling.cpp`)

*State*: the mutator's table of func ids, how many profiled children each
producer has, and a stack of what is being profiled. *Operation*: rewrite the
lowered statement: enter and leave pairs around producers, consumers and loops,
overhead regions between the children of a profiled producer, `set_current_func`,
the counting of active threads around and inside parallel loops, and the
prologue and epilogue of the pipeline. *Hard*: which region a node leaves and
enters again depends on what encloses it; what a func inherits from its consumer
is looked up one level up (it is not transitive) by two tests that must agree;
the outermost consumer reads `back()` of an empty stack. *Correct when* every path
through the code passes the enter and the leave of each region alternately, and
the work a region was asked for is done between them.

### Front end (`halide/src/modified/`)

Copies of Halide's files with a few lines inserted for profiling. Three parts
have state and rules of their own:

* *function definitions and wrappers* (`Function.cpp`, `Func.cpp`): the graph of
  Funcs. *Operations*: pure, update and extern definitions, `+=` of an undefined
  Func, implicit variables, `in`, `clone_in`, `copy_to_device`, making a Pipeline.
  *Correct when* what a definition uses stays as it was, calls have the right number
  of arguments, a wrapper is used by the callers it was made for, a clone is a
  copy, and no Func depends on itself.
* *scheduling directives* (`Stage` in `Func.cpp`): for each stage the list of loops
  and the list of splits. *Operations*: split, fuse, rename, reorder, loop types,
  tile, gpu single thread, rfactor, allow_race_conditions. *Correct when* the loops
  still compute the definition: every point, an update no point twice, a reduction
  in its order.
* *pipeline compile and run* (`Pipeline.cpp`, forwarding methods of `Func.cpp`): the
  cache of code compiled in the process, the arguments inferred for it, the
  pipelines linked into it, realizations and bounds queries. *Hard*: a dozen
  routes change what the code should be, each must invalidate it; realizations
  run in several threads. *Correct when* what runs is what was last asked for, with
  its own arguments, and bounds queries end with sizes the pipeline accepts.

### The rest

`likwid_api_new.c` shares three globals between the thread that opens a parallel
region and the threads that work in it; `likwid_api.c` wraps one macro per
function; `perf_api.c` is a sequential table of descriptors that no build rule
compiles (`CMakeLists.txt` names `perf.c` and `test.c` includes `perf.h`, neither
of which exists); lowering, targets and code generation are fixed sequences and
tables; `tests/` holds benchmarks and recorded results.

## 2. Modules

| module | models | source |
|---|---|---|
| `ThreadSlots` | `find_or_insert_thread()`, one step per iteration of the unlocked scan and per store under the mutex | `papi_api.c:43-84` |
| `SlotRegistry` | what it promises: an atomic registry | abstract |
| `TimerBackend` | the timer backend over the registry | `time_api.c:26-127` |
| `PapiBackend` | the PAPI backend over the registry and a model of PAPI | `papi_api.c:39-319` |
| `PapiProfiler` | life cycle and sampler of the PAPI profiler, with the prologue and epilogue of the pass and the JIT's second report | `papi_profiler.cpp:15-92,94-211,427-546,628-653` |
| `ProfiledRun` | what it promises a program: each accepted run is printed once | abstract |
| `InstrumentedCode` | the calls, loops and work that instrumented code consists of, where in the regions a thread is, and when code keeps its regions nested | `PAPIProfiling.cpp` (what it emits) |
| `ProfilingPass` | the pass, as a function from statements to code, and the reference definition of what it should do | `PAPIProfiling.cpp:45-418` |
| `ProfileReport` | the sums and estimates of the report, for one event | `papi_profiler.cpp:231-356` |
| `RegionRuntime` | instrumented code run by the calling thread and the pool over the region counters of either runtime, and reported | `papi_profiler.cpp:548-663`, `papi_profiler_alt.cpp` |
| `ProfiledLoops` | both together: what the pass makes of a statement is the program that is run | |
| `FuncGraph` | definitions, freezing, wrappers and clones | `Function.cpp:66-1084`, `Func.cpp:217-2983` |
| `StageSchedule` | the directives on the loops of a stage, and what the loops compute | `Func.cpp:285-1746`, `Function.cpp:469-683` |
| `JitPipeline` | the code cache, realizations and bounds queries | `Pipeline.cpp:64-1301`, `Func.cpp:1862-3284` |
| `ProfilerProofs` | the theorems about `ThreadSlots` and `PapiProfiler` | |
| `TimerBackendProofs`, `PapiBackendProofs`, `RegionRuntimeProofs` | the theorems about these modules | |
| `FrontEndProofs` | the theorems about `FuncGraph` and `JitPipeline` | |
| `StagePoints`, `StageScheduleProofs` | what the loops of a stage compute, as equations; what each directive does to it, and the theorems about `StageSchedule` | |
| `SetSums` | lemmas about sums over finite sets, for the proofs | |
| `MC...` | instances for TLC | |

How they compose: each backend uses `SlotRegistry` through `INSTANCE` in place of
the function, and `ThreadSlots` is shown, and proved, to implement it.
`RegionRuntime` runs any program of `InstrumentedCode` and prints what
`ProfileReport` computes of it; `ProfiledLoops` gives it the programs that
`ProfilingPass` emits. The pass recurses over statements and the runtime does not, so
that theorems can be stated of the runtime alone. `PapiProfiler`
implements `ProfiledRun`; it holds the outside of an instrumented pipeline (when
statistics exist, who reports them, whom samples are billed to), `RegionRuntime`
the inside. The front-end modules stand beside each other: `FuncGraph` and
`StageSchedule` are two halves of a Func, and `JitPipeline` abstracts both to the
kinds of directives that have been given.

Some conventions apply to all modules:

* An action is named for the code it stands for; a comment `Mutant:` or `A mistake:`
  marks a deliberately broken variant, which no specification uses: it documents
  which mistake in the code a property would catch.
* A label in `pc` (or `spc`, for the sampler) is a place in the code between
  two steps. Code that nobody else can observe in the middle of is one step: a
  critical section with no loop in it, or stores to memory only the caller sees.
* Names, values and messages are model values or members of small sets.
* A call that the code refuses (`user_error`, `user_assert`) without having changed
  anything is no step; one that it refuses after a change is a step that makes
  that change.
* A constant of two front-end modules lists calls that the code accepts although its
  results are wrong after them: `Unchecked` of `FuncGraph` and `Overlooked` of
  `StageSchedule`. It is empty in the runs; section 4 says what each member stands for.
  `JitPipeline` has no such constant: within its bounds any order of the calls it models is
  a behaviour.

### ThreadSlots

`Call` enters the function; `ScanHit`, `ScanMiss` and `ScanEnd` are the unlocked
loop, one slot a step; `Acquire`, `Search`/`Overflow`, `StoreId`, `StoreSet`,
`Unlock` are the rest. `Overflow` returns without releasing `slotLock` (`lock` of the code), as
`papi_api.c:73-76` does. `Tid[t]` is `pthread_self()` cut to an `int`: two threads may
share one, and properties that need distinct ids say so (`Unaliased`).

The unlocked scan reads `set` and `thread_id` of a slot in one step. That is
justified by the order of the two stores (79 before 80), which the build keeps:
`Makefile:11` compiles the backends without optimisation, and x86 keeps the
order of stores. `StoreIdPublishing` shows what would follow otherwise.

### TimerBackend and PapiBackend

A marker call is two steps: the slot lookup (`FindOrInsert`), and the rest, which
touches data of the caller's own slot only. In `TimerBackend` the clock is read
where the code reads it: after the lookup on start, before it on stop. In
`PapiBackend` the PAPI library is `registered` and `live`, the event sets with
their owner, events, state and count; a thread in `Failing` may see any PAPI
call fail, and the actions `RegisterFails` ... `AddOrStartFails`, `StopFails`,
`ReleaseFails` are the early returns of `start_thread` and `stop_thread`. The read
of `threadsInfo[-1].event_set` after a failed registration (`papi_api.c:283`) is
undefined: the model resets any live set or none (`ResetAny`).

`inside`, `work`, `open`, `failed` and `printed` record history for the properties;
no code variable depends on `inside`, `work` or `printed`. `open` and `failed` also
say which calls a program makes: last-in first-out markers, a shutdown when all
are stopped, and a second initialize only while nothing has failed.

### PapiProfiler

`Callers` are host threads that run instrumented pipelines, `Nodes` the blocks
`malloc` may return. A node's record keeps what the control depends on: the
pipeline, its first func id and number of funcs, `next`, `runs` and the billed
`time`. A freed node is set to `Blank`, so that a use after it is visible.

* `Start` ... `StartLocked`: `pipeline_start`. The list is searched and extended
  without the lock, one block a step (`FindNext`, `FindHit`, `Allocate`, `Fill`,
  `ReserveIds`, `Publish`); `AllocateFails` and `FillFails` are the error paths. The
  last step is the part under the lock, which spawns the sampler.
* `IncrActive`, `SetCurrentFunc`, `DecrActive`: the instrumented body. `ErrorExit`
  is a failed assertion: it runs the destructor but not the decrement.
* `End` ... `Clear`: `pipeline_end`, with the shutdown, the unlocked report and the
  unlocked reset, one pipeline a step. `JitReport` and `JitReset` run the same
  two loops with the lock held (`lock = c` tells them apart).
* `SamplerBegin` ... `Wake`: the sampling thread. It reads `current_func` and the
  clock in separate steps (`Sample`, `Bill`), walks the list (`WalkNext`), and moves
  the pipeline it found to the head (`WalkHit`). The loop holds the lock except
  while it sleeps.
* `since` and `elapsed` are the clock: ticks since the sampler's `t`, and since
  the thread was spawned.

`Overlap` says how programs use the profiler. With `FALSE` a pipeline starts only
when no other one is inside, which is what the runtime is written for; with
`TRUE` nothing keeps pipelines apart, as nothing in the code does.

### ProfilingPass, RegionRuntime and ProfileReport

A statement is a tree of producers, consumers, loops, branches and labelled
leaves, the work. `ProfilingPass` walks it as the mutator does, threading the
mutator's state through, and yields code: calls, work, loops and branches. The
module also holds the reference: to which area the user asked each leaf to be
charged (`Leaves`), whether the profiled regions are disjoint (`Disjoint`), and
whether the calls alternate on every path (`Alternating`). What `profile_stack.back()` reads of
an empty vector is the constant `Garbage`.

`InstrumentedCode` says what code does to the place of a thread: the region and the
func it is in, whether it counts, whether it is inside a parallel loop (`After`,
`Inside`). Code is well nested (`WellNested`) if there is a set of runs, closed under
steps and under the bodies of loops and branches, in which each step is allowed
where it is taken and each body ends where it starts. `ProfiledLoops` computes this
set for what the pass emits, and TLC checks it for every program of the run (the
second conjunct of `AlternatesIfDisjoint`).

In `RegionRuntime` each thread has a stack of code to run (`todo`). The caller takes
the next call or piece of work; a parallel loop leaves its iterations in `tasks`,
from which the caller and the pool's `Workers` help themselves (`Take`), and a `join`
at which the caller waits. `last_counters` is a pointer: an area, and the run whose
memory it is in. `halide_papi_decr_active_threads` is two steps, the test of the
pointer (`DecrActive`) and its uses (`DecrStop`), because the pointer is one global of
all threads.
`variant` chooses the runtime: `papi_profiler.cpp` leaves a region through the
region's own area, `papi_profiler_alt.cpp` through the pointer. `Abort` is a failed
assertion of the pipeline in its calling thread: what is left of the code is
skipped up to `pipeline_end`, a destructor. `due` and `failed` are history: where each
thread's work belongs, and which calls failed. `fault` records a use of NULL or of
freed memory, after which the program is over.

The counter library `papi_halide_*` is not in the repository; the model assumes
that a thread counts from its last start, from zero, and that `marker_stop` adds
what was counted to the area it is given. An event's count is the amount of work.

### FuncGraph

A definition is the Funcs it calls with the number of arguments of each call, and
how many implicit variables its values use and its left-hand side binds. `Define`,
`Update`, `Accumulate`, `AccumulateFromBase`, `define_extern`, `copy_to_device`,
`MakePipeline`, `NewWrapper` and `FoundWrapper` are the author's calls. The order of
checks and freezing is the code's: a pure definition freezes its callees before
some of its checks, so that a refused one leaves them frozen (`flaw = "late"`); a
wrapper that is refused at its second caller is in place for the first.

A reference to a Func is checked when it is made, against the definition that there
is then, and becomes a call later. A statement may therefore call some Funcs through
references that are older than their definition, with another number of arguments
(`EarlyRefs`, `CallsOf`): a declared Func, or a clone of a Func that was not defined
when it was cloned. The field `early` of a definition names them. `FoundWrapper`
returns a wrapper that is found as `get_wrapper` does: it compares the callers that
have a wrapper, and neither the other callers nor whether a clone was asked for. `made`
records of each wrapper for whom it was returned last (`asked`, `askedClone`) and
whether the original was undefined, open or final when it was made (`taken`).
A Func may be cloned at any time, with the updates that there are; a deep copy of a
Func that has wrappers, or other Funcs as extern arguments, fails in the code.

### StageSchedule

Directives map a stage to a stage or to `Refused`. Splits carry their tail
strategy as resolved from `Auto` by the rules of `Stage::split`. Below the
directives the module defines what the loops mean, as lowering uses them: the
extents of all loops (`Extents`), and the runs of the innermost body with the point
of the original domain that each computes (`Runs`). Each is a function of how many
splits have been applied, with the effect of one split as an operator (`ExtentsAfter`,
`LeavesAfter`, `InnerAfter`, `ShiftedAfter`, `Undone`). What a definition is made of is
what `Function::define` and `define_update` accept (`DefinitionsAssumption`). `rfactor`
yields a second stage,
and `origin`, `kept` and `order` remember the definition as it was. The properties
compare the runs with that definition.

### JitPipeline

The Func is abstracted to the kinds of directives it has, among them that it is a copy
to a device and those that its producers have; code to the version it was compiled
from (directives, requirements, passes, tracing), its target and its arguments. Calls
of the author are atomic and happen while nothing runs; there is one action per group
of directives that invalidates in the same way, and those that forget to are actions
like the others (`TileDirective`, `StageDirective`, `CopyDirective`, `ProducerDirective`,
`add_requirement`, `trace_pipeline`). A call that compiles or runs goes through
`Resolve`, `CheckTarget`, `SetTarget`, `compile_to_module` or `CompileFails`,
`make_externs_jit_module`, `Install`, `prepare_jit_call_arguments` and `call_jit_code` or
a bounds query, each a step that other threads may come between. An extern pipeline is
compiled by the same actions (`at` is the pipeline being compiled, `pipe` the one that was
called), may find its code or fail, and ends the call for both when it fails.

Nothing keeps threads apart, and nothing stops a program after a compilation that failed;
after an internal assertion nothing more is called. History, which no guard depends on,
tells the situations apart: `missed`, what calls that do not invalidate have changed since the
code was compiled; `failed`, that the last compilation of a pipeline ended in an error;
`raced`, that two calls have overlapped of which one found no code. `fault` collects in
which situation an internal assertion has failed.

## 3. Runs

| run | instance | result |
|---|---|---|
| `slots_crowded` | 4 threads, 2 slots, distinct ids | `SlotExclusive`, `SlotPermanent`; the unlocked scan implements the registry, overflow included; `ReturnsUnlessFull`: a call returns while there is room, and a registered thread's always |
| `slots_overflow` | 3 threads, 1 slot | **violated**: `CallsReturn` |
| `timer_backend` | 2 threads (one nests), 2 markers, 2 ticks | `ChargedRight`: exact without nesting, never too much with it; the printed total covers every thread |
| `papi_backend` | 2 threads (one nests and fails), 2 markers, 2 event sets, 1 event, 2 units of work of the failing thread and 1 of the other | `CountedRight`: exact until a call fails, after that no work twice; `SetsOwned`: no set lost or in another thread's slot, none left by a clean program; `RunsComplete` |
| `profiler_sequential` | 2 callers, 2 pipelines of 2 and 1 funcs, 2 blocks, allocations and pipelines that fail, 3 ticks | all properties of runs that follow one another, refinement of `ProfiledRun`, every run returns |
| `profiler_overlapping_starts` | 2 callers at once, endless pipelines, 3 blocks, 2 ticks | the racing insertions and the sampler's reordering bill no time twice |
| `profiler_error_exit` | 1 caller, 1 failing pipeline | **violated**: `ActiveThreadsCounted` |
| `profiled_loops` | 15 statements of up to 3 funcs, lists of up to 2 definitions, tables of up to 2 loops, both runtimes, 1 worker, 2 iterations, 2 calls, failing calls | the calls alternate exactly if the regions are disjoint; work is charged where it was asked, the pointer is right, nothing faults, samples and active threads are right, the report adds up |
| `profiled_parallel` | a func computed and profiled inside a parallel loop | **violated**: `NoFault` |
| `stage_schedule` | pure stages of 1 and 2 variables, updates over 1 and 2 RVars of each algebra, factors 2 and 3, four tails, sequences of 1 to 3 directives | the loops compute every point of the definition, an update none twice, inside its domain and in its order, also after `rfactor` |
| `func_graph` | 2 Funcs of up to 2 dimensions, 2 wrappers, 1 older reference in a statement, sequences of up to 4 calls | after lowering no Func depends on itself; calls through references of their time fit; a wrapper is used by none but the callers it was asked for, a clone is what its original was; what is used keeps its values |
| `jit_pipeline` | 2 pipelines of one Func, one of which may link the other, 2 threads, 2 targets, bounds queries, failing compilations and queries | what runs is current but for what was changed by a call that does not invalidate; arguments match the code; `NoInternalError`: assertions fail after a failed compilation, or where a call that finds no code overlaps another, and nowhere else; inferred sizes are settled, every call returns |

Bounds, and why they are enough:

* `slots_crowded`: two slots make a scan that can be overtaken between its
  iterations; four threads fill the table, leave one that overflows and one
  that meets the locked mutex. The theorems cover every size.
* `timer_backend`: two ticks separate start, lookup and stop, for one thread and
  across threads; the second initialize is reached with time left.
* `papi_backend`: two event sets for two threads make a wrong set in a slot the
  set of the other. One event is enough: the loops over events matter through
  how many were added or removed when a call fails. The thread with one unit of
  work is there to be disturbed, the one with two to accumulate over intervals.
* `profiler_sequential`: at most one block is ever alive, so two blocks let a
  freed one be reused or not; two callers and two pipelines distinguish "the
  same pipeline again" from "another one". `MaxTime` = 3 lets a sampler be late,
  bill twice and find the run over. `MaxLeak` = 1 bounds the count of failed
  pipelines, which otherwise grows for ever.
* `profiler_overlapping_starts`: three blocks for two callers let a caller that
  lost a race allocate once more; the pipelines do not end, since an end shuts
  the sampler of the others down.
* `profiled_loops`: the statements are the shapes that lowering makes of `compute_root`,
  `compute_at`, inlining, specialization and a GPU loop; three funcs give a parent,
  a child and a grandchild, the depth to which the pass looks. Two iterations and
  one worker let a loop be shared, or run by either thread alone. Two calls show
  what one leaves to the next. `Granularity` is 1 as in the source
  (`PROFILE_GRANULARITY`); `ProfileReport` has the general formula.
  `Careful` = `TRUE` runs the programs whose profiled regions are disjoint and not
  inside a parallel loop; `profiled_parallel` is one that is not.
* `stage_schedule`: extents that the factors divide and do not divide, smaller than
  a factor and larger than its square; three directives on one variable make a
  split of a split of a split, two on the others a split and a fuse or an rfactor.
* `func_graph`: a producer and a consumer, each of which may become the wrapper's
  caller, and two wrappers, global, of one caller, of two, or clones. Four calls define
  both and wrap one twice, or clone and update it. Two dimensions let a placeholder
  stand for several.
* `jit_pipeline`: the own pipeline of a Func and another one that it may link. One target
  is native and one WebAssembly, which linked code is not taken from. `MaxDirectives` = 1
  and `MaxAdded` = 1 (requirements, tracing and passes together) let code miss one kind of
  change and be up to date with another. The bounds query is one in which an input follows
  from the other if the size of that one is given, and nothing settles if neither is:
  `MaxIters` is 3 instead of the 16 of the code, what matters is that it is larger than
  the number of inputs. The constraint `Explored` of the run leaves out what comes after
  two calls of which one found no code have overlapped: the properties of the cache claim
  nothing of it. It also leaves out calls of the second thread while a directive and one
  of the others are in effect; one thread is explored with both. A constraint cuts off
  new calls and changes only, never a step of a call that was begun, so that it does not
  make calls return. `RunsCurrentThm` and `NoInternalErrorThm` need no such bounds.

Deadlock is checked in each run except `papi_backend`, where a program that had a
failed call stops after its shutdown, `profiled_loops` and `profiled_parallel`,
where it ends after `MaxRuns` calls, and `stage_schedule` and `func_graph`, where the
author makes a bounded number of calls.

Symmetry is used over markers and event sets in the backend runs, over new names
in `stage_schedule` and over the declared Funcs in `func_graph`. None of these runs
checks liveness. Threads are not symmetric: one nests and the other does not.

### Fairness

* `slots_crowded`, `slots_overflow`, `profiler_sequential`: weak fairness of a thread
  inside the function or the runtime and of the sampler; a finite pipeline reaches
  its end. No caller has to start a run, no allocation has to fail or succeed,
  and time need not pass. No strong fairness of the mutex is assumed.
* `jit_pipeline`: weak fairness of each thread inside a call. A call need not be made.

## 4. What the runs found

Three runs refute what the code says of itself:

* `find_or_insert_thread()` returns -1 with the mutex locked (`papi_api.c:75`,
  `time_api.c` likewise): the next thread without a slot never returns.
* A pipeline that fails leaves `active_threads` one too high for good
  (`papi_profiler.cpp:639-653` is skipped, nothing resets the field), and later
  averages of active threads are computed from it.
* `last_counters` is tested and then used (`papi_profiler.cpp:646-648`), but it is
  one global: with funcs profiled inside a parallel loop another thread clears it
  in between.

In the front end, in files that the repository takes from Halide with few changes, some
comments promise what the code does not do. Each such promise is a definition at the end
of its module that no run lists; put in the place of the properties of the run named,
TLC refutes it in seconds.

* `SharedByAll` (`func_graph`): `in({g, h})` after `in(g)` returns the wrapper of g, without an
  error and without h using it (`Func.cpp:1944`, against `Func.h:1400-1402`).
* `CloneIfAsked` (`func_graph`): `clone_in(g)` after `in(g)` returns the identity wrapper
  (`Func.cpp:1944`, against `Func.h:1412-1414`).
* `EveryCallFits` (`func_graph`): a reference made before its Func is defined becomes a call
  with another number of arguments than the definition has (`Func.cpp:2957`, against the
  message at 246).
* `ClearedAfterError` (`jit_pipeline`): after a compilation that failed the next call fails an
  internal assertion: the target is set after the cache was cleared "in case there is an
  error" (`Pipeline.cpp:571-574`).
* `RealizeThreadSafe` (`jit_pipeline` without its constraint): the same assertion fails in the
  first realization of a pipeline by two threads, although `realize` "is thread-safe"
  (`Func.h:748`).
* `UpdatedTogether` (`jit_pipeline`): `infer_arguments` replaces the arguments of code that
  stays, although "the two must be updated together" (`Pipeline.cpp:105-107`).
* `RunsTheCopy` (`jit_pipeline`): `copy_to_device` and `copy_to_host` do not invalidate what is
  compiled: the Func goes on running its old definition (`Func.cpp:1987`, against
  `Func.h:1436`).

The properties of the runs say what does hold: `WrapperNotShared` and `CloneIsCopy` of the
wrappers whatever they were asked for, `CallsWellFormed` of all other calls, `NoInternalError`
and `RunsCurrent` in every situation but these.

Other facts met while modelling are assumptions of the models; each stands at its
line in the hazards of `PROJECT.json`.

In the runtime and the backends:

* Pipelines that start at the same time may get the same func ids: `first_free_id`
  is read and advanced before the lock is taken. Pipelines that overlap and end
  free each other's blocks, since `shutdown`, report and reset run unlocked.
  `profiler_sequential` and the theorems therefore speak of runs that follow one
  another.
* After a call that failed, `last_counters` may point into the freed block. A later
  call that reaches a parallel loop before it enters a region writes through it.
  `PointerFresh` and `NoFault` say "until a call fails"; without these words TLC
  shows the write in a trace of 14 states.
* An event set that a failure left in a slot may, after another initialize, name a
  set of another thread: `SetsOwned` speaks of the time until shutdown. The reset of
  `threadsInfo[-1]` can lose counts of other threads: `CountedRight` is exact until a
  call fails.
* The alternative runtime leaves by what the last enter selected and uses a null
  pointer when regions nest. Loops that `specialize` duplicates get ids beyond the
  number of loops that the runtime allocates.

In the front end, as members of `Overlooked` and `Unchecked` (with any of them some property
of the run does not hold):

* `StageSchedule`: `reorder_some`, a reorder that names some loops of a reduction and
  moves them past one it does not name (`Func.cpp:1586-1609` compares only the named
  ones); `fuse_reductions`, fusing two RVars, which is not tested for order;
  `fuse_names`, fusing two loops into one with a name that a third loop has: `Stage::fuse`
  (`Func.cpp:1083-1147`) does not look for it as `split` and `rename` do, and a later reorder
  mixes the two loops up. This one came out of the proof: the invariant needs that the
  names of the loops differ; `same_names`, splitting a loop into two of one name, which
  `Stage::split` compares with the other loops and not with each other;
  `rfactor_split`, preserving a variable that was split before; `rfactor_parallel`, a
  parallel loop that rfactor keeps; `rename_pure`, renaming an RVar to a name that
  rfactor keeps.
* `FuncGraph`: `extern_args`, arguments of an extern definition, which are not frozen.

In `JitPipeline` nothing of this kind is left out. The calls that change what the code
should be and do not invalidate it are requirements, tracing, copies to devices, the
forms of `tile` that take lists, a Stage taken before the code was compiled, directives
on a producer Func (each Func knows its own pipeline only) and changes of another
pipeline, of the same Func or linked. `RunsCurrent` says that the code is never stale in
anything else.

Two more in `Pipeline.cpp` concern no property: the module that a pipeline keeps is
never reused, because no module has the name the test asks for (494-506), and
`ErrorBuffer::str` may read past its 4096 characters (821-861).

## 5. Theorems

Each proof module has an inductive invariant, one lemma per action, and short
theorems that follow. All constants are arbitrary; the assumptions are those that
the modules state and TLC evaluates in the runs.

**ProfilerProofs**, part 1, for any set of threads, any table size and any ids:

* `SlotTypeCorrect`, `SlotExclusiveThm` from the invariant `SlotInv`: a thread in
  the critical section is the one that holds the mutex (`MutexInv`), the slot it
  fills is unused until it publishes it (`InsertInv`), and the slots that calls
  returned carry the caller's id (`AnswerInv`). Nothing is assumed of the ids.
* `OneSlotThm` needs more: the scan of a thread without a slot stays right while
  others insert, because only the thread itself can publish its id. `OwnInv` adds
  what a scan has established: no slot it has passed carries the thread's id
  (`ScanInv`).
* `SlotPermanentThm` follows from both.
* `ImplementationThm`, for distinct ids: every step maps to a step of
  `SlotRegistry` or a stutter. The linearisation point is the store of `set`.

**TimerBackendProofs**, for any numbers of threads, slots and markers and any clock:
`TimerTypeCorrect` and `ChargedRightThm`. That a charge is exact is not inductive:
the invariant must say what is still owed. `Due(t, m)` is the time since the start
time stored for thread t if its marker m is running; what is charged plus what is
due equals (`Exactly`), or with nesting is at most (`AtMost`), what passed. `SlotInv`
and `UnusedInv` say that a slot belongs to one thread and that one nobody has is
empty, `CallInv` and `ClockInv` what a call between its two steps holds.
`TotalCoversEveryThreadThm` is about the loop of the shutdown. `FlagInv` says that a
time without its flag is zero, so that the maximum over flagged times is the
maximum over all; a sum of maxima is between the sum over any one slot and the sum
over all, by the lemmas of `SetSums`.

**PapiBackendProofs**, for any numbers of threads, slots, sets, markers and events and
whatever fails: `BackendTypeCorrect`, `SetsOwnedThm`, `RunsCompleteThm`, `CountedRightThm`.
`SetInv` says of each live set that its owner's slot holds it, or the call that is
creating or releasing it does; `CallInv` what a call has looked up. `CountInv` adds
where the work is: of each thread, what `counters` has for it over all markers and what
the set in its slot holds are together no more than its work, whatever failed; while
nothing has failed the thread is in at most one marker, the set runs exactly then,
and what the marker has and what the set holds is the work done inside it. The
counters of a slot that nobody got are zero (`ClearInv`).

**ProfilerProofs**, part 2, for any number of callers, blocks, pipelines and funcs,
failing allocations and failing pipelines included, under the hypothesis
`~Overlap`. None of the properties is inductive alone: that the unlocked walk is
safe needs that the sampler is gone, which needs that the join waited, which
needs that the sampler belongs to the one run inside. `IInv` therefore says, for
each place in the code, what the caller that is there finds (`StartInv`,
`BodyInv`, `EndInv`), what idle callers leave (`IdleInv`), that one caller is inside
(`Exclusive`), and what the sampler holds (`SamplerInv`). There is one lemma per
action; `Rebuild` collects what a caller's step must re-establish and
`CallerUndisturbed` what a sampler's step leaves alone. From `IInv`:
`TypeCorrect`, `NoDanglingThm`, `MeteredThm`, `SampleFindsOwnerThm`, `CleanThm`, and
two statements that no run repeats, `UnlockedListAloneThm` and the action property
`FrozenThm`. `NeverOverbilledThm` adds `BillInv`: for a block in use, the time billed,
the interval that the sampler is about to bill and the time since its last look
are together no more than the time since it was spawned.

`ImplementsProfiledRunThm` is the refinement of `ProfiledRun`: `PInv` adds to `IInv` how
far the caller's run has come at each place.

**RegionRuntimeProofs**, for any programs, threads, iterations and calls, both runtimes
and failing calls: `PointerRightThm`, `NoFaultThm`, `SampledRightThm`, and with
`Granularity = 1`, as the source sets it (`papi_profiler.cpp:6`), `ChargedWhereAskedThm`
and `ReportedThm`. Their hypotheses are `Careful`, that only programs are run whose
profiled regions are disjoint and not inside a parallel loop (`profiled_parallel`
shows that without it `NoFault` fails), and `NestedPrograms`, that the code of such
programs is well nested. TLC checks the second for what the pass emits.

The code of a thread is data of any depth. The invariant does not recurse over it: it
speaks of places, and of runs that end at a known place (`CanRun`). Only `RunNext`,
that the call `decr` is what comes next exactly where a thread is active, is an
induction over the length of code, by a shortest counterexample. `IInv` says that there
are, for each thread, the rest `own` of the code of the caller's body or of the
iteration it is in and the place `at` where it is, a place `base` where that code
ends, and what follows for the caller, `rest` (nothing, the end of the call, or a
join and the code behind it), so that:

* the code of each thread can run from where it is to `base` (`Shape`). Because
  `Nested` is closed under steps and bodies, one step leaves a run, and a loop body
  put in front of a run gives a run (`RunStep`, `RunLoop`, `RunBoth`);
* the pointer names the region that the caller is in, and what a thread in
  `decr_active_threads` has read of it still holds (`Pointers`): inside a parallel
  loop nobody enters or leaves a region;
* `current_func` is the func of the caller's place, or of some thread's in a loop
  (`Funcs`); as many threads are counted as are at active places (`Counts`);
* what an area holds for a thread and what the thread has counted in it since is
  what is due to it, and an area that was used has an iteration unless it is the
  one the caller is in (`Charges`).

`ReportedThm` follows from the last by the sums of `SetSums`: with every iteration
sampled the estimate is the sum itself, and its lines add up to the work due.

**FrontEndProofs**, part 1, for any Funcs, wrappers and bounds, with `Unchecked` empty:
`CallsWellFormedThm`, `WrapperNotSharedThm`, `CloneIsCopyThm`, `LoweredAcyclicThm` and the
action property `UsedKeepsValuesThm`. `GraphInv` says that what is called is defined, and
called with its arity unless by an older reference (`DefsInv`), that what another Func or a
Pipeline uses is frozen (`UsedInv`), that a wrapper not made yet is unknown to everybody
(`FreshInv`), that a wrapper in use is frozen, of the Func whose callers use it, and not
both global and somebody's own (`WrapInv`), and that a clone of a defined Func is defined,
with the definitions the original had (`CloneInv`). The definitions have one lemma in
common, `WrittenKeeps`: they write one Func that is not yet both defined and frozen, and
only add to a Func that is defined, so that neither those who call it nor its clones
notice. What `extern_args` breaks is `ExternWrites`.
`LoweredAcyclicThm` rests on an order of the Funcs (`OrderInv`): a relation, transitive
and with a lowest element in every set, in which a Func is above what it calls
(`CalledBelow`), above the wrapper it calls instead (`OwnBelow`), and, unless it wraps,
above the global wrapper of whatever is below it (`GlobalBelow`). A Func that is
written is not used yet and goes to the top (`OnTop`); a new wrapper goes right above
the Func it wraps, a clone right above what its original may call (`Inserted`). A Func
that no member of a set is below then calls nothing of the set. That a bounded set
has a largest element, on which the count of implicit variables rests, is
`MaxOfBounded`, by well-foundedness.

**FrontEndProofs**, part 2, for any pipelines, targets, threads, requirements and queries, any
sequence of calls and failing compilations: `JitTypeCorrect`, `RunsCurrentThm`,
`ArgsMatchCodeThm`, `NoInternalErrorThm`, `InferredSettledThm`. The invariant `JitInv`
(`CacheThm`) has three parts that hold until a call that found no code has overlapped
another. `CacheInv`: a cache is empty, or it holds code of this target and arguments
that is current but for what was missed, or it is half filled, because a thread is at
work on it or a compilation has failed. `AloneInv`: of two threads inside, each only
realizes code that is there; a thread that compiles is alone. `PlaceInv`: what each
place in a call may rely on, also while the call compiles what it links (`LinksInv`). The
properties name the situations in which the code does not do what it promises; that
these are all of them is what the proof adds.

**StageScheduleProofs**, for any definition that `Function` accepts, any factors, tails and
names and any number of directives, with `Overlooked` empty: `StagesSafe`, and from it,
as long as no rfactor has divided the stage, `LoopsStayLeaves`, `PointsStayComputed`,
`NothingIsRecomputed`, `StagesStayInDomain` and `ReductionsStayInOrder`. They are stated as
`Len(stages) = 1 => ...`: a behaviour is under them up to its first `Rfactor`.

What loops compute is a recursion over a list of splits, of any length. `StagePoints` gets
rid of the recursions first: the chain that the model computes is the only solution of
one equation per split (`ExtentsSolve`, `InnerSolve`, `ShiftSolve`, `LeavesSolve`,
`IterationsSolve`, `EvaluateSolves`, by induction over indices, `IndexInduction` and
`DownInduction`). A split is then a constraint on valuations, functions `a` from the
variables to numbers: `Follows` says that `a[old]` is the base of `a[outer]` plus `a[inner]`,
or that `a[inner]` and `a[outer]` are remainder and quotient of a fused `a[old]`;
`Allowed` that all splits are followed and all guards pass, `InRange` that the loops are
within their extents. The runs of a stage are the allowed valuations in range (`RunsAre`).

None of the five properties is inductive. That a point is computed once after a split
depends on what other loops do beyond their extents when an outer split rounds up, so
the invariant cannot speak of the runs alone. `StageInv` says of a stage:

* `Shape`: the splits derive the loops from the variables; each variable is made before
  it is taken, is made once and taken once, no two loops have one name;
* `Covers`: each point of the domain extends to an allowed valuation in range;
* of an update, for all valuations that are `Fine`, those in which a loop that is
  the inside of no split may run on: `Bounds`, the roots of a reduction stay in their
  domain; `Determines`, twice: the roots determine the loops, and the pure roots the pure
  loops; `Orders`, what precedes in the definition comes sooner in the impure loops;
  and `Serial`, these are not parallel. `RoundUpOk` of the code is what keeps `Determines`:
  it allows rounding up for exactly those loops that are not the inside of another split;
* of a pure stage that only splits inwards, `PureBounds`: for valuations in which only
  shifted loops may run on, the roots stay in the domain.

`InvLoops`, `InvCovers`, `InvOnce`, `InvBounds` and `InvOrder` read the five properties from
it, and `NewStageInv` gives it for a definition with the schedule it begins with.

A directive then keeps it for one of four reasons. `CutInv` (split) and `JoinedInv` (fuse)
add an equation: from a valuation of the new stage one of the old is read off and the
other way round (`AppendedInv`), and the arithmetic is that of one block: a number is
quotient and remainder in one way and blocks come in order (`BlocksOrder`, `BlocksCover`).
`MovedInv` (reorder) permutes loops, the impure ones not or, where the algebra allows,
freely; `MarkedInv` changes how loops run. `WithinInv` (rename) replaces a variable inside
the split that made it: a valuation of one stage becomes one of the other when the
values of the two names are swapped. `tile` and the GPU forms are chains of these
(`KeptTile`); a chain that is refused in the middle is refused.

**SetSums**: the sum of a function over a finite set, which is a fold, obeys the
equations one expects of it (`SumEmpty`, `SumRemove`), is monotone, and is additive.
The induction is over the subsets of the one finite set, by the least size among
those of which the statement fails; it is done for each lemma, since a lemma
with an operator parameter cannot be used.

### Model-checked only

* Liveness (`ReturnsUnlessFull`, `CallsReturn`, `EveryRunReturns`,
  `EveryCallReturns`): the prover has no rules for fairness and ENABLED.
* `AlternatesIfDisjoint`, and with it that the code of the pass satisfies
  `NestedPrograms`: the pass is a recursion over statements of any depth.
* `PartialsMerged`, and the other properties of `StageSchedule` for the two stages that
  `rfactor` leaves: they need what the intermediate and the merging stage compute
  together, and folds of `purify` and `remove` over their loops, which none of the
  theorems' lemmas covers.
* A granularity above 1: then only some iterations are measured and the report
  estimates; the source never sets it.
* Everything with overlapping runs.

## 6. Not modelled

* The text of the report and of all messages; a Func's types, tuples, loop levels
  and traces; specialize, prefetch, hexagon, compute_with, atomic and
  three-dimensional gpu tiles; compiling to files (`Pipeline.cpp:250-366`), error
  handlers other than that of errors, ParamMap.
* A failure of a task inside a parallel loop: `Abort` is one of the calling thread. A
  parallel loop inside a parallel loop: `RegionRuntime` has one list of `tasks`, and no
  statement of the run nests them, although the pass and the runtime handle it.
* In `JitPipeline`, changes by the author while a thread compiles or runs, linked
  pipelines that link others, and what a call computes after it has raced with a
  compilation.
* Lowering, targets, the runtime linker and code generation: fixed sequences of
  passes and tables. `StageSchedule` and `FuncGraph` define what lowering makes of a
  schedule and of wrappers only as far as the properties need it.
* `likwid_api_new.c`: worker threads read `marker_active` and `in_parallel_region`, which
  the thread that opens a region writes, without a lock. `likwid_api.c` has no state of its own;
  `perf_api.c` is sequential and not built.
* The configuration reader of `papi_api.c`; its limits (16 events) are
  preconditions. `counters_set_flag`, which is written and never read.
* A full table in the backends: they assume a slot for each thread;
  `ThreadSlots` covers the full table up to the return of -1. What the callers do
  with -1 is an access outside the arrays.
* Weak memory in the runtime module, beyond the order of accesses in the source.
* Front-end hooks of the profiler (the `.diff` files), tests and build files. The
  lists that `Func::profile` fills are inputs of `ProfilingPass`.

## 7. What could follow

`LikwidRegions`, the three shared globals and nested parallel regions; failing tasks in
`RegionRuntime`; the theorems of `StageSchedule` past `rfactor`; the pass as a relation
between statements and code in place of a recursion, as `CanRun` is for running it, so
that the theorems of the runtime need no hypothesis about its programs.
