---------------------------- MODULE PapiProfiler ----------------------------
(***************************************************************************)
(* The life of the PAPI profiler of the Halide runtime (papi_profiler.cpp):*)
(* halide_papi_pipeline_start, the pipeline that runs, pipeline_end with   *)
(* halide_papi_shutdown, the report and reset that a JIT realize() appends *)
(* (Pipeline.cpp:1179-1193), and the sampling thread.                      *)
(*                                                                         *)
(* Callers are the host threads that run instrumented pipelines.  With     *)
(* Overlap = FALSE a pipeline starts only when no other is inside; with    *)
(* Overlap = TRUE nothing keeps them apart, as nothing in the code does.   *)
(*                                                                         *)
(* A node is one halide_papi_pipeline_stats block with the funcs and loops *)
(* arrays that live and die with it; a freed node is blank.  A local that  *)
(* is dead gets its initial value back.  Critical sections that make no    *)
(* loop are one step.                                                      *)
(***************************************************************************)
EXTENDS Integers

CONSTANTS Callers,      \* host threads
          Nodes,        \* the blocks malloc can hand out
          Null,         \* the null pointer
          NoThread,     \* the owner of a free mutex
          Sampler,      \* the sampling thread
          Names,        \* pipelines
          NumFuncs,     \* num_funcs of each pipeline
          Overlap,      \* may pipelines run at the same time?
          MayFail,      \* may malloc return NULL in pipeline_start?
          Endless,      \* callers whose pipeline never finishes
          MaxTime,      \* bound: ticks a sampling thread lives
          MaxLeak       \* bound: pipelines that may fail half-way

ASSUME NullAssumption == Null \notin Nodes

ASSUME ThreadAssumption == /\ NoThread \notin Callers \cup {Sampler}
                           /\ Sampler \notin Callers

ASSUME FuncAssumption == Names # {} /\ NumFuncs \in [Names -> Nat \ {0}]

ASSUME UsageAssumption == /\ Overlap \in BOOLEAN /\ MayFail \in BOOLEAN
                          /\ Endless \subseteq Callers
                          /\ MaxTime \in Nat /\ MaxLeak \in Nat

outside_of_halide == -1
please_stop == -2

VARIABLES
    (* halide_papi_state *)
    lock, first_free_id, current_func, active_threads, pipelines,
    sampling_thread,            \* is sampling_thread non-null?
    (* the heap *)
    heap, node,                 \* the allocated nodes, and what nodes contain
    (* other globals *)
    current_pipeline_stats,
    counting,                   \* the counter library is initialised
    (* each caller: where it is, its pipeline, its pointer p, its token *)
    pc, name, at, token,
    printed,                    \* pipelines printed since the caller began
    (* the sampling thread: where it is, its locals func, p, p_prev and dt *)
    spc, func, sp, sprev, dt,
    since,                      \* ticks since the instant the sampler calls t
    elapsed                     \* ticks since the thread was spawned

listVars == <<first_free_id, pipelines, heap, node>>
samplerVars == <<spc, func, sp, sprev, dt, since, elapsed>>
callerVars == <<pc, name, at, token, printed>>
sharedVars == <<current_func, active_threads, sampling_thread,
                current_pipeline_stats, counting>>
vars == <<lock, listVars, sharedVars, callerVars, samplerVars>>

Starting == {"find", "fill", "ids", "publish", "startlock"}
Ending == {"end", "check", "stop", "join", "joined", "report", "reset", "clear"}
JIT == {"returned", "jitreport", "jitreset"}

NodeType == [name : Names, first : Nat, num : Nat, next : Nodes \cup {Null},
             runs : Nat, time : Nat]

TypeOK ==
    /\ lock \in Callers \cup {Sampler, NoThread}
    /\ first_free_id \in Nat
    /\ current_func \in Int /\ current_func >= please_stop
    /\ active_threads \in Nat
    /\ pipelines \in Nodes \cup {Null}
    /\ sampling_thread \in BOOLEAN /\ counting \in BOOLEAN
    /\ heap \subseteq Nodes
    /\ node \in [Nodes -> NodeType]
    /\ current_pipeline_stats \in Nodes \cup {Null}
    /\ pc \in [Callers -> {"idle", "incr", "body"} \cup Starting \cup Ending \cup JIT]
    /\ name \in [Callers -> Names]
    /\ at \in [Callers -> Nodes \cup {Null}]
    /\ token \in [Callers -> Nat \cup {-1}]
    /\ printed \in [Callers -> Nat]
    /\ spc \in {"none", "start", "outer", "sample", "bill", "walk", "sleep", "exited"}
    /\ func \in Int
    /\ sp \in Nodes \cup {Null} /\ sprev \in Nodes \cup {Null}
    /\ dt \in Nat /\ since \in Nat /\ elapsed \in Nat

AnyName == CHOOSE n \in Names : TRUE

Blank == [name |-> AnyName, first |-> 0, num |-> 0, next |-> Null,
          runs |-> 0, time |-> 0]

\* The static initialiser of halide_papi_get_state: current_func is 0 until
\* the first pipeline ends.
Init ==
    /\ lock = NoThread
    /\ first_free_id = 0 /\ current_func = 0 /\ active_threads = 0
    /\ pipelines = Null /\ sampling_thread = FALSE
    /\ heap = {} /\ node = [p \in Nodes |-> Blank]
    /\ current_pipeline_stats = Null /\ counting = FALSE
    /\ pc = [c \in Callers |-> "idle"]
    /\ name = [c \in Callers |-> AnyName]
    /\ at = [c \in Callers |-> Null]
    /\ token = [c \in Callers |-> -1]
    /\ printed = [c \in Callers |-> 0]
    /\ spc = "none" /\ func = outside_of_halide /\ sp = Null /\ sprev = Null
    /\ dt = 0 /\ since = 0 /\ elapsed = 0

Goto(c, label) == pc' = [pc EXCEPT ![c] = label]

At(c, label) == pc[c] = label

Free(p) == heap' = heap \ {p} /\ node' = [node EXCEPT ![p] = Blank]

-----------------------------------------------------------------------------
(* halide_papi_pipeline_start                                              *)

\* Enter, and read the head of the list.  The lock is not held.
Start(c) ==
    /\ At(c, "idle")
    /\ Overlap \/ \A d \in Callers : At(d, "idle")
    /\ \E n \in Names : name' = [name EXCEPT ![c] = n]
    /\ at' = [at EXCEPT ![c] = pipelines]
    /\ token' = [token EXCEPT ![c] = -1]
    /\ printed' = [printed EXCEPT ![c] = 0]
    /\ Goto(c, "find")
    /\ UNCHANGED <<lock, listVars, sharedVars, samplerVars>>

Matches(p, n) == node[p].name = n /\ node[p].num = NumFuncs[n]

FindNext(c) ==
    /\ At(c, "find") /\ at[c] # Null
    /\ ~Matches(at[c], name[c])
    /\ at' = [at EXCEPT ![c] = node[at[c]].next]
    /\ UNCHANGED <<lock, listVars, sharedVars, samplerVars, pc, name, token, printed>>

FindHit(c) ==
    /\ At(c, "find") /\ at[c] # Null
    /\ Matches(at[c], name[c])
    /\ Goto(c, "fill")
    /\ UNCHANGED <<lock, listVars, sharedVars, samplerVars, name, at, token, printed>>

\* Not in the list: malloc a block.
Allocate(c) ==
    /\ At(c, "find") /\ at[c] = Null
    /\ \E p \in Nodes \ heap :
          /\ heap' = heap \cup {p}
          /\ at' = [at EXCEPT ![c] = p]
    /\ Goto(c, "fill")
    /\ UNCHANGED <<lock, first_free_id, pipelines, node, sharedVars, samplerVars,
                   name, token, printed>>

\* No block: return -1.  The pipeline then returns, through pipeline_end,
\* which was registered as a destructor before (PAPIProfiling.cpp:415).
AllocateFails(c) ==
    /\ At(c, "find") /\ at[c] = Null
    /\ MayFail \/ heap = Nodes
    /\ Goto(c, "end")
    /\ UNCHANGED <<lock, listVars, sharedVars, samplerVars, name, at, token, printed>>

\* Also done to a block that was found in the list.
Fill(c) ==
    /\ At(c, "fill")
    /\ node' = [node EXCEPT ![at[c]] =
                   [name |-> name[c], first |-> first_free_id,
                    num |-> NumFuncs[name[c]], next |-> pipelines,
                    runs |-> 0, time |-> 0]]
    /\ Goto(c, "ids")
    /\ UNCHANGED <<lock, first_free_id, pipelines, heap, sharedVars, samplerVars,
                   name, at, token, printed>>

\* malloc of funcs or loops fails: free everything, return -1.
FillFails(c) ==
    /\ At(c, "ids") /\ MayFail
    /\ Free(at[c])
    /\ Goto(c, "end")
    /\ UNCHANGED <<lock, first_free_id, pipelines, sharedVars, samplerVars,
                   name, at, token, printed>>

ReserveIds(c) ==
    /\ At(c, "ids")
    /\ first_free_id' = first_free_id + NumFuncs[name[c]]
    /\ Goto(c, "publish")
    /\ UNCHANGED <<lock, pipelines, heap, node, sharedVars, samplerVars,
                   name, at, token, printed>>

Publish(c) ==
    /\ At(c, "publish")
    /\ pipelines' = at[c]
    /\ Goto(c, "startlock")
    /\ UNCHANGED <<lock, first_free_id, heap, node, sharedVars, samplerVars,
                   name, at, token, printed>>

Spawn ==
    /\ sampling_thread' = TRUE
    /\ spc' = "start"
    /\ since' = 0 /\ elapsed' = 0
    /\ UNCHANGED <<func, sp, sprev, dt>>

\* Mutant: the token is the next free id instead of the pipeline's first one.
StartLockedWrongToken(c) ==
    /\ At(c, "startlock") /\ lock = NoThread
    /\ IF sampling_thread THEN UNCHANGED <<sampling_thread, samplerVars>> ELSE Spawn
    /\ node' = [node EXCEPT ![at[c]].runs = @ + 1]
    /\ current_pipeline_stats' = at[c]
    /\ counting' = TRUE
    /\ token' = [token EXCEPT ![c] = first_free_id]
    /\ Goto(c, "incr")
    /\ UNCHANGED <<lock, first_free_id, pipelines, heap, current_func,
                   active_threads, name, at, printed>>

\* The part under the ScopedMutexLock, with papi_halide_initialize().
StartLocked(c) ==
    /\ At(c, "startlock") /\ lock = NoThread
    /\ IF sampling_thread THEN UNCHANGED <<sampling_thread, samplerVars>> ELSE Spawn
    /\ node' = [node EXCEPT ![at[c]].runs = @ + 1]
    /\ current_pipeline_stats' = at[c]
    /\ counting' = TRUE
    /\ token' = [token EXCEPT ![c] = node[at[c]].first]
    /\ Goto(c, "incr")
    /\ UNCHANGED <<lock, first_free_id, pipelines, heap, current_func,
                   active_threads, name, at, printed>>

-----------------------------------------------------------------------------
(* The instrumented pipeline: incr_active_threads, any number of            *)
(* set_current_func, decr_active_threads (PAPIProfiling.cpp:359-365).       *)

IncrActive(c) ==
    /\ At(c, "incr")
    /\ active_threads' = active_threads + 1
    /\ Goto(c, "body")
    /\ UNCHANGED <<lock, listVars, current_func, sampling_thread, samplerVars,
                   current_pipeline_stats, counting, name, at, token, printed>>

SetCurrentFunc(c) ==
    /\ At(c, "body")
    /\ \E t \in 0 .. NumFuncs[name[c]] - 1 : current_func' = token[c] + t
    /\ UNCHANGED <<lock, listVars, active_threads, sampling_thread, samplerVars,
                   current_pipeline_stats, counting, callerVars>>

DecrActive(c) ==
    /\ At(c, "body") /\ c \notin Endless
    /\ active_threads' = active_threads - 1
    /\ Goto(c, "end")
    /\ UNCHANGED <<lock, listVars, current_func, sampling_thread, samplerVars,
                   current_pipeline_stats, counting, name, at, token, printed>>

\* An assertion of the pipeline fails: it returns without the decrement.
ErrorExit(c) ==
    /\ At(c, "body") /\ c \notin Endless
    /\ active_threads <= MaxLeak
    /\ Goto(c, "end")
    /\ UNCHANGED <<lock, listVars, sharedVars, samplerVars, name, at, token, printed>>

-----------------------------------------------------------------------------
(* halide_papi_pipeline_end and halide_papi_shutdown                       *)

End(c) ==
    /\ At(c, "end")
    /\ current_func' = outside_of_halide
    /\ at' = [at EXCEPT ![c] = Null]
    /\ Goto(c, "check")
    /\ UNCHANGED <<lock, listVars, active_threads, sampling_thread, samplerVars,
                   current_pipeline_stats, counting, name, token, printed>>

Check(c) ==
    /\ At(c, "check")
    /\ Goto(c, IF sampling_thread THEN "stop" ELSE "clear")
    /\ UNCHANGED <<lock, listVars, sharedVars, samplerVars, name, at, token, printed>>

\* Mutant: the sampler is joined without being told to stop.
StopNothing(c) ==
    /\ At(c, "stop")
    /\ Goto(c, "join")
    /\ UNCHANGED <<lock, listVars, sharedVars, samplerVars, name, at, token, printed>>

Stop(c) ==
    /\ At(c, "stop")
    /\ current_func' = please_stop
    /\ Goto(c, "join")
    /\ UNCHANGED <<lock, listVars, active_threads, sampling_thread, samplerVars,
                   current_pipeline_stats, counting, name, at, token, printed>>

\* Mutant: the sampler is not waited for.
JoinNotWaiting(c) ==
    /\ At(c, "join")
    /\ sampling_thread' = FALSE
    /\ Goto(c, "joined")
    /\ UNCHANGED <<lock, listVars, current_func, active_threads, samplerVars,
                   current_pipeline_stats, counting, name, at, token, printed>>

\* halide_join_thread returns and the reference is dropped.
Join(c) ==
    /\ At(c, "join") /\ spc = "exited"
    /\ sampling_thread' = FALSE
    /\ spc' = "none" /\ since' = 0
    /\ Goto(c, "joined")
    /\ UNCHANGED <<lock, listVars, current_func, active_threads, func, sp, sprev, dt,
                   elapsed, current_pipeline_stats, counting, name, at, token,
                   printed>>

\* Mutant: the request to stop is left for the next sampler to find.
JoinedKeepsStop(c) ==
    /\ At(c, "joined")
    /\ counting' = FALSE
    /\ at' = [at EXCEPT ![c] = pipelines]
    /\ Goto(c, "report")
    /\ UNCHANGED <<lock, listVars, current_func, active_threads, sampling_thread,
                   samplerVars, current_pipeline_stats, name, token, printed>>

\* papi_halide_shutdown(), then the unlocked report begins.
Joined(c) ==
    /\ At(c, "joined")
    /\ current_func' = outside_of_halide
    /\ counting' = FALSE
    /\ at' = [at EXCEPT ![c] = pipelines]
    /\ Goto(c, "report")
    /\ UNCHANGED <<lock, listVars, active_threads, sampling_thread, samplerVars,
                   current_pipeline_stats, name, token, printed>>

\* One turn of halide_papi_report_unlocked; what it prints of a pipeline is
\* one item here.
ReportNext(c) ==
    /\ At(c, "report") /\ at[c] # Null
    /\ printed' = [printed EXCEPT ![c] = @ + (IF node[at[c]].runs > 0 THEN 1 ELSE 0)]
    /\ at' = [at EXCEPT ![c] = node[at[c]].next]
    /\ UNCHANGED <<lock, listVars, sharedVars, samplerVars, pc, name, token>>

\* Mutant: shutdown prints but does not reset.
ReportEndNoReset(c) ==
    /\ At(c, "report") /\ at[c] = Null
    /\ IF lock = c THEN lock' = NoThread /\ Goto(c, "jitreset")
                   ELSE lock' = lock /\ Goto(c, "clear")
    /\ UNCHANGED <<listVars, sharedVars, samplerVars, name, at, token, printed>>

\* Locked, this is the end of halide_papi_report; unlocked, shutdown goes on.
ReportEnd(c) ==
    /\ At(c, "report") /\ at[c] = Null
    /\ IF lock = c THEN lock' = NoThread /\ Goto(c, "jitreset")
                   ELSE lock' = lock /\ Goto(c, "reset")
    /\ UNCHANGED <<listVars, sharedVars, samplerVars, name, at, token, printed>>

\* One turn of halide_papi_reset_unlocked.
ResetNext(c) ==
    /\ At(c, "reset") /\ pipelines # Null
    /\ pipelines' = node[pipelines].next
    /\ Free(pipelines)
    /\ UNCHANGED <<lock, first_free_id, sharedVars, samplerVars, callerVars>>

\* Mutant: the ids are not given back.
ResetEndKeepsIds(c) ==
    /\ At(c, "reset") /\ pipelines = Null
    /\ IF lock = c THEN lock' = NoThread /\ Goto(c, "idle")
                   ELSE lock' = lock /\ Goto(c, "clear")
    /\ UNCHANGED <<first_free_id, pipelines, heap, node, sharedVars, samplerVars,
                   name, at, token, printed>>

\* Locked, this is the end of halide_papi_reset and of the JIT realize().
ResetEnd(c) ==
    /\ At(c, "reset") /\ pipelines = Null
    /\ first_free_id' = 0
    /\ IF lock = c THEN lock' = NoThread /\ Goto(c, "idle")
                   ELSE lock' = lock /\ Goto(c, "clear")
    /\ UNCHANGED <<pipelines, heap, node, sharedVars, samplerVars, name, at, token,
                   printed>>

Clear(c) ==
    /\ At(c, "clear")
    /\ current_pipeline_stats' = Null
    /\ Goto(c, "returned")
    /\ UNCHANGED <<lock, listVars, current_func, active_threads, sampling_thread,
                   counting, samplerVars, name, at, token, printed>>

-----------------------------------------------------------------------------
(* Back in the caller: code compiled ahead of time is done; a JIT realize() *)
(* calls halide_papi_report and halide_papi_reset, which take the lock.     *)

Return(c) ==
    /\ At(c, "returned")
    /\ \E label \in {"idle", "jitreport"} : Goto(c, label)
    /\ UNCHANGED <<lock, listVars, sharedVars, samplerVars, name, at, token, printed>>

JitReport(c) ==
    /\ At(c, "jitreport") /\ lock = NoThread
    /\ lock' = c
    /\ at' = [at EXCEPT ![c] = pipelines]
    /\ Goto(c, "report")
    /\ UNCHANGED <<listVars, sharedVars, samplerVars, name, token, printed>>

JitReset(c) ==
    /\ At(c, "jitreset") /\ lock = NoThread
    /\ lock' = c
    /\ Goto(c, "reset")
    /\ UNCHANGED <<listVars, sharedVars, samplerVars, name, at, token, printed>>

-----------------------------------------------------------------------------
(* sampling_profiler_thread and bill_func.  get_remote_profiler_state stays *)
(* null: nothing in the repository sets it for PAPI.                        *)

SamplerAt(label) == spc = label /\ UNCHANGED <<listVars, sharedVars, callerVars>>

SamplerBegin ==
    /\ SamplerAt("start") /\ lock = NoThread
    /\ lock' = Sampler
    /\ spc' = "outer"
    /\ UNCHANGED <<func, sp, sprev, dt, since, elapsed>>

OuterStop ==
    /\ SamplerAt("outer") /\ current_func = please_stop
    /\ lock' = NoThread
    /\ spc' = "exited"
    /\ UNCHANGED <<func, sp, sprev, dt, since, elapsed>>

OuterGo ==
    /\ SamplerAt("outer") /\ current_func # please_stop
    /\ spc' = "sample"
    /\ since' = 0
    /\ UNCHANGED <<lock, func, sp, sprev, dt, elapsed>>

\* Read what runs; then read the clock, in a step of its own.
Sample ==
    /\ SamplerAt("sample")
    /\ func' = current_func
    /\ spc' = "bill"
    /\ UNCHANGED <<lock, sp, sprev, dt, since, elapsed>>

SampleStop ==
    /\ SamplerAt("bill") /\ func = please_stop
    /\ spc' = "outer"
    /\ func' = outside_of_halide
    /\ UNCHANGED <<lock, sp, sprev, dt, since, elapsed>>

SampleOutside ==
    /\ SamplerAt("bill") /\ func = outside_of_halide
    /\ since' = 0
    /\ lock' = NoThread
    /\ spc' = "sleep"
    /\ UNCHANGED <<func, sp, sprev, dt, elapsed>>

\* Mutant: t is not advanced to t_now.
BillKeepingT ==
    /\ SamplerAt("bill") /\ func >= 0
    /\ dt' = since
    /\ sp' = pipelines /\ sprev' = Null
    /\ spc' = "walk"
    /\ UNCHANGED <<lock, func, since, elapsed>>

\* bill_func is called with t_now - t; t becomes t_now.
Bill ==
    /\ SamplerAt("bill") /\ func >= 0
    /\ dt' = since /\ since' = 0
    /\ sp' = pipelines /\ sprev' = Null
    /\ spc' = "walk"
    /\ UNCHANGED <<lock, func, elapsed>>

InRange(p, f) == f >= node[p].first /\ f < node[p].first + node[p].num

WalkNext ==
    /\ SamplerAt("walk") /\ sp # Null /\ ~InRange(sp, func)
    /\ sprev' = sp /\ sp' = node[sp].next
    /\ UNCHANGED <<lock, spc, func, dt, since, elapsed>>

WalkOver == dt' = 0 /\ sp' = Null /\ sprev' = Null /\ func' = outside_of_halide

\* Bubble the pipeline to the top of the list.
Bubbled(nd) ==
    IF sprev = Null THEN nd
    ELSE [nd EXCEPT ![sprev].next = nd[sp].next, ![sp].next = pipelines]

WalkHit ==
    /\ spc = "walk" /\ sp # Null /\ InRange(sp, func)
    /\ node' = [Bubbled(node) EXCEPT ![sp].time = @ + dt]
    /\ pipelines' = IF sprev = Null THEN pipelines ELSE sp
    /\ lock' = NoThread
    /\ spc' = "sleep"
    /\ WalkOver
    /\ UNCHANGED <<first_free_id, heap, sharedVars, callerVars, since, elapsed>>

\* No pipeline has the id: the sample is dropped.
WalkEnd ==
    /\ SamplerAt("walk") /\ sp = Null
    /\ lock' = NoThread
    /\ spc' = "sleep"
    /\ WalkOver
    /\ UNCHANGED <<since, elapsed>>

Wake ==
    /\ SamplerAt("sleep") /\ lock = NoThread
    /\ lock' = Sampler
    /\ spc' = "sample"
    /\ UNCHANGED <<func, sp, sprev, dt, since, elapsed>>

SamplerStep ==
    \/ SamplerBegin \/ OuterStop \/ OuterGo \/ Sample \/ SampleStop
    \/ SampleOutside \/ Bill \/ WalkNext \/ WalkHit \/ WalkEnd \/ Wake

Tick ==
    /\ spc \notin {"none", "exited"} /\ elapsed < MaxTime
    /\ elapsed' = elapsed + 1
    /\ since' = IF spc \in {"start", "outer"} THEN since ELSE since + 1
    /\ UNCHANGED <<lock, listVars, sharedVars, callerVars, spc, func, sp, sprev, dt>>

-----------------------------------------------------------------------------
StartStep(c) ==
    \/ FindNext(c) \/ FindHit(c) \/ Allocate(c) \/ AllocateFails(c)
    \/ Fill(c) \/ FillFails(c) \/ ReserveIds(c) \/ Publish(c) \/ StartLocked(c)

\* A finite pipeline reaches its last statement or fails.
Finish(c) == DecrActive(c) \/ ErrorExit(c)

EndStep(c) ==
    \/ End(c) \/ Check(c) \/ Stop(c) \/ Join(c) \/ Joined(c) \/ ReportNext(c)
    \/ ReportEnd(c) \/ ResetNext(c) \/ ResetEnd(c) \/ Clear(c) \/ Return(c)
    \/ JitReport(c) \/ JitReset(c)

Next ==
    \/ \E c \in Callers : \/ Start(c) \/ StartStep(c) \/ IncrActive(c)
                          \/ SetCurrentFunc(c) \/ Finish(c) \/ EndStep(c)
    \/ SamplerStep \/ Tick

Spec == Init /\ [][Next]_vars

\* The runtime's own steps are taken, the sampler is scheduled, and a finite
\* pipeline finishes.  Nobody has to start one, and time need not pass.
Fairness ==
    /\ \A c \in Callers :
          WF_vars(StartStep(c) \/ IncrActive(c) \/ EndStep(c)) /\ WF_vars(Finish(c))
    /\ WF_vars(SamplerStep)

FairSpec == Spec /\ Fairness

-----------------------------------------------------------------------------
(* What must hold while pipelines run one at a time.                       *)

Walking == {"find", "report", "reset"}

\* No thread ever follows a pointer to a freed block: not the unlocked walks
\* of pipeline_start and shutdown, not the body through
\* current_pipeline_stats, not the sampler in bill_func.
NoDangling ==
    /\ \A c \in Callers :
          /\ At(c, "find") \/ At(c, "report") => at[c] \in heap \cup {Null}
          /\ pc[c] \in {"fill", "ids", "publish", "startlock"} => at[c] \in heap
          /\ At(c, "reset") => pipelines \in heap \cup {Null}
          /\ At(c, "body") => current_pipeline_stats \in heap
    /\ spc = "walk" => sp \in heap \cup {Null}

\* pipeline_start and shutdown use the list without the lock
\* (papi_profiler.cpp:106-197 and 525-529): no sampling thread is alive then.
UnlockedListAlone ==
    \A c \in Callers :
        pc[c] \in (Starting \ {"startlock"}) \cup Walking => spc = "none"

\* A running pipeline is measured by its own block, listed, with the counter
\* library initialised and a sampler that was not told to stop.
MeteredWhileRunning ==
    \A c \in Callers : At(c, "body") =>
        /\ current_pipeline_stats = at[c] /\ pipelines = at[c]
        /\ node[at[c]].runs = 1 /\ token[c] = node[at[c]].first
        /\ counting
        /\ sampling_thread /\ spc \notin {"none", "exited"}
        /\ current_func # please_stop

\* bill_func finds the pipeline of the sampled id: no sample is dropped.
SampleFindsOwner ==
    spc = "walk" => sp # Null /\ InRange(sp, func) /\ node[sp].runs = 1

\* No pipeline is billed more time than its sampling thread has lived.
NeverOverbilled ==
    \A p \in heap : node[p].runs > 0 => node[p].time + dt + since <= elapsed

\* A run leaves nothing behind, failed allocations and error exits included:
\* no block, no listed pipeline, no reserved id, no thread, no held lock.
CleanBetweenRuns ==
    (\A c \in Callers : At(c, "idle")) =>
        /\ heap = {} /\ pipelines = Null /\ first_free_id = 0
        /\ current_pipeline_stats = Null
        /\ ~sampling_thread /\ spc = "none" /\ lock = NoThread /\ ~counting

\* The statistics do not move while they are printed and released.
FrozenWhileReported ==
    [][(\E c \in Callers : pc[c] \in {"report", "reset"}) =>
           \A p \in heap \cap heap' : node'[p] = node[p]]_vars

\* realize() comes back: the join in shutdown ends, although set_current_func
\* and the shutdown write the same word that tells the sampler to stop.
EveryRunReturns ==
    \A c \in Callers : ~At(c, "idle") ~> At(c, "idle")

runPhase == [c \in Callers |->
    IF At(c, "idle") THEN "out"
    ELSE IF printed[c] > 0 THEN "printed"
    ELSE IF token[c] >= 0 THEN "running"
    ELSE "called"]

Run == INSTANCE ProfiledRun WITH phase <- runPhase, lines <- printed

\* Every accepted run prints one pipeline, once, although shutdown and the
\* JIT both report; a refused run prints nothing.
ImplementsProfiledRun == Run!Spec

-----------------------------------------------------------------------------
(* What the repository says, and overlapping runs or failing ones break.   *)

\* "The number of threads currently doing work." (HalideRuntime.h:1948)
ActiveThreadsCounted ==
    (\A c \in Callers : At(c, "idle")) => active_threads = 0
=============================================================================
