----------------------------- MODULE JitPipeline -----------------------------
(***************************************************************************)
(* Compiling and running a Halide pipeline in the process (Pipeline.cpp,   *)
(* and the half of Func.cpp that forwards to the pipeline of the Func):    *)
(* the cache of the compiled code, what does and does not invalidate it,   *)
(* the arguments inferred for it, the realizations that use it, also of    *)
(* several threads, and the inference of the sizes of unbound inputs.      *)
(*                                                                         *)
(* The Func is abstracted to the kinds of directives it has been given,    *)
(* the code to what it was compiled from.  The calls of an author are      *)
(* atomic and made while nothing runs; those that compile or run are steps *)
(* of a thread.                                                            *)
(*                                                                         *)
(* History variables, which no action depends on, tell the situations      *)
(* apart: contents[p].missed is what calls that do not invalidate the code *)
(* have changed since it was compiled, contents[p].failed that the last    *)
(* compilation ended in an error, and raced that two calls overlapped of   *)
(* which one found no code to use.                                         *)
(***************************************************************************)
EXTENDS Integers, FiniteSets, FiniteSetsExt

CONSTANTS Threads,
          Pipes, Own,       \* pipelines that output the Func, and its own pipeline_
          Targets, Wasm,    \* targets, and those that are WebAssembly
          EnvTarget,        \* the target of the environment
          Calls,            \* what the threads call
          MaxDirectives,    \* bound on the kinds of directives in effect
          Conditions,       \* requirements, each on a Param of its own
          MaxAdded,         \* bound on requirements, tracing and custom passes
          Inputs, MaxSize,  \* image parameters and a bound on their sizes
          Queries,          \* what a bounds query may make of the sizes
          MaxIters          \* iterations of a bounds query, 16 in the code

ASSUME PipesAssumption == Own \in Pipes
ASSUME TargetsAssumption == Wasm \subseteq Targets /\ EnvTarget \in Targets /\ "unknown" \notin Targets
ASSUME CallsAssumption == Calls \subseteq {"realize", "bounds", "compile"}
ASSUME QueriesAssumption ==
    /\ MaxSize \in Nat /\ MaxAdded \in Nat /\ MaxDirectives \in Nat /\ MaxIters \in Nat \ {0}
    /\ Queries \subseteq [[Inputs -> 0 .. MaxSize] -> [Inputs -> 0 .. MaxSize]]

VARIABLES sched,      \* the directives that are in effect
          contents,   \* the PipelineContents of every pipeline
          inferred,   \* the sizes of the inputs that the last call inferred
          thread,     \* what every thread is doing
          fault,      \* in what situations internal assertions have failed
          raced       \* calls have overlapped of which one found no code

pipelineVars == <<sched, contents, inferred, thread, fault, raced>>

None == [compiled |-> FALSE, target |-> "unknown", version |-> [sched |-> {"none"}]]
NoLinks == [q \in {} |-> None]
Unbound == -1

(* What code is compiled from, and the arguments it has.  Bounds may be on *)
(* a Param, also those of a producer, and so is a requirement.             *)
Params(c) == (sched \cap {"bound", "producers"}) \cup c.reqs
Version(c) == [sched |-> sched, reqs |-> c.reqs, traced |-> c.traced, passes |-> c.passes]
Lowered(c, t) == [compiled |-> TRUE, target |-> t, version |-> Version(c), args |-> Params(c)]

NewContents == [reqs |-> {}, traced |-> FALSE, passes |-> 0, externs |-> {},
          target |-> "unknown", args |-> {}, code |-> None, linked |-> NoLinks,
          missed |-> {}, failed |-> FALSE]

NoSizes == [open |-> {}]

Idle == [pc |-> "idle"]
Busy(t) == thread[t].pc # "idle"
Quiet == \A t \in Threads : ~Busy(t)

PipelineInit ==
    /\ sched = {}
    /\ contents = [p \in Pipes |-> NewContents]
    /\ inferred = NoSizes
    /\ thread = [t \in Threads |-> Idle]
    /\ fault = {}
    /\ raced = FALSE

-----------------------------------------------------------------------------
(* The cache.                                                              *)

(* A mistake: the target of the code survives the code.                    *)
invalidate_code(c) ==
    [c EXCEPT !.code = None, !.linked = NoLinks, !.args = {}, !.missed = {}, !.failed = FALSE]

invalidate_cache(c) ==
    [c EXCEPT !.code = None, !.linked = NoLinks, !.args = {}, !.target = "unknown",
              !.missed = {}, !.failed = FALSE]

Compiled(p) == contents[p].code.compiled

(* get_compiled_jit_target checks that the target is known if and only if  *)
(* there is code, and that it is WebAssembly if and only if the code is.   *)
RealityCheck(c) ==
    IF c.target = "unknown" THEN ~c.code.compiled
                            ELSE c.code.compiled /\ (c.target \in Wasm <=> c.code.target \in Wasm)

(* Code that is there when A changes and that is not invalidated.          *)
Missing(c, A) == IF c.code.compiled THEN [c EXCEPT !.missed = @ \cup A] ELSE c

(* The author calls the pipeline p while nothing runs.  Pipelines that     *)
(* call it are not told of it.                                             *)
SetContents(p, c) ==
    /\ Quiet
    /\ contents' = [q \in Pipes |->
         IF q = p THEN c
         ELSE IF p \in contents[q].externs /\ Version(c) # Version(contents[p])
              THEN Missing(contents[q], {"externs"})
              ELSE contents[q]]
    /\ inferred' = NoSizes
    /\ UNCHANGED <<sched, thread, fault, raced>>

(* A mistake: the pipeline of the Func keeps what was compiled.            *)
KeepsCache == contents

(* Func::invalidate_cache reaches the own pipeline of the Func only.       *)
FuncInvalidated == [contents EXCEPT ![Own] = invalidate_cache(@)]

(* A directive after which those of E are in effect: the pipeline of the   *)
(* Func is invalidated or not, other pipelines that compute the Func, or   *)
(* call one that does, are not told of it.                                 *)
Give(E, invalidates) ==
    /\ Quiet /\ Cardinality(E) <= MaxDirectives
    /\ sched' = E
    /\ LET cache == IF invalidates THEN FuncInvalidated ELSE contents
           changed(c) == SymDiff(sched, E) \cup {x \in {"externs"} : E # sched /\ c.externs # {}}
       IN contents' = [p \in Pipes |-> IF invalidates /\ p = Own THEN cache[p]
                                       ELSE Missing(cache[p], changed(cache[p]))]
    /\ inferred' = NoSizes
    /\ UNCHANGED <<thread, fault, raced>>

Also(E) == sched \cup E

(* Directives on loops invalidate first and may then be refused.           *)
LoopDirective == \E E \in {{}, {"loop"}} : Give(Also(E), TRUE)

(* Those for devices mark loops; shader also orders the storage, and is    *)
(* refused when it has done all of that.                                   *)
DeviceDirective == \E E \in {{}, {"loop"}, {"loop", "storage"}} : Give(Also(E), TRUE)

(* An order of the storage that is refused has been followed in part.      *)
StorageDirective == \E E \in {{}, {"storage"}} : Give(Also(E), TRUE)

(* The forms of tile that take lists forget to invalidate.                 *)
TileDirective == \E E \in {{}, {"loop"}} : Give(Also(E), FALSE)

(* Bounds are tested for being integers before anything is invalidated.    *)
BoundDirective ==
    \/ Give(sched, FALSE)
    \/ \E E \in {{}, {"bound"}} : Give(Also(E), TRUE)

(* Where a Func is computed and stored, and what of it is traced and       *)
(* profiled, cannot be refused.                                            *)
PlaceDirective == Give(Also({"loop"}), TRUE)

(* A Stage invalidates when it is taken by update(), not when it is used,  *)
(* and never when the Func is converted to it.                             *)
UpdateStage == Give(sched, TRUE)
StageDirective == \E E \in {{}, {"loop"}} : Give(Also(E), FALSE)

(* The definition becomes a copy by an extern function: the directives on  *)
(* its loops are gone with it.  It is refused without a change, or for     *)
(* the Func that is a copy already.                                        *)
CopyDirective ==
    \/ Give(sched, FALSE)
    \/ "copied" \notin sched /\ Give((sched \ {"loop"}) \cup {"copied"}, FALSE)

(* A directive on a Func that this one calls invalidates the pipeline of   *)
(* that Func.                                                              *)
ProducerDirective == Give(Also({"producers"}), FALSE)

Added == FoldSet(LAMBDA p, n : n + Cardinality(contents[p].reqs) + contents[p].passes
                                 + (IF contents[p].traced THEN 1 ELSE 0), 0, Pipes)

(* Neither a requirement nor tracing invalidates what is compiled.         *)
add_requirement(p) ==
    /\ Added < MaxAdded
    /\ \E x \in Conditions :
         SetContents(p, Missing([contents[p] EXCEPT !.reqs = @ \cup {x}], {"requirements"}))

trace_pipeline(p) ==
    /\ Added < MaxAdded
    /\ SetContents(p, Missing([contents[p] EXCEPT !.traced = TRUE], {"traced"}))

add_custom_lowering_pass(p) ==
    /\ Added < MaxAdded
    /\ SetContents(p, [invalidate_cache(contents[p]) EXCEPT !.passes = @ + 1])

clear_custom_lowering_passes(p) ==
    SetContents(p, [invalidate_cache(contents[p]) EXCEPT !.passes = 0])

(* Only the own pipeline of the Func calls other ones, so that no pipeline *)
(* calls itself.                                                           *)
set_jit_externs(p) ==
    /\ p = Own
    /\ \E E \in SUBSET (Pipes \ {Own}) :
         SetContents(p, [invalidate_cache(contents[p]) EXCEPT !.externs = E])

(* Inferring the arguments for the author replaces those of the code.      *)
infer_arguments(p) == SetContents(p, [contents[p] EXCEPT !.args = Params(contents[p])])

-----------------------------------------------------------------------------
(* Calls that compile or run.  A realization into sizes is two of them, a  *)
(* query for the sizes of the outputs and the computation: whatever comes  *)
(* between the two is here an order of calls like any other.               *)

Settled(p, want) == Compiled(p) /\ want \in {"unknown", contents[p].target}

(* Calls that overlap, but not realizations that all find their code.      *)
Races(p, want, op) ==
    ~ \/ Quiet
      \/ /\ op = "realize" /\ Settled(p, want)
         /\ \A t \in Threads : Busy(t) =>
              thread[t].op = "realize" /\ Settled(thread[t].pipe, thread[t].want)

Move(t, c, next) ==
    /\ contents' = c
    /\ thread' = [thread EXCEPT ![t] = next]
    /\ UNCHANGED sched
Step(t, c, next) == Move(t, c, next) /\ inferred' = NoSizes /\ UNCHANGED raced
Quietly(t, next) == Step(t, contents, next) /\ UNCHANGED fault
At(t, pc) == thread[t].pc = pc
Goto(t, pc) == [thread[t] EXCEPT !.pc = pc]

(* An internal assertion about the pipeline p, and the situation in which  *)
(* it fails if it does.                                                    *)
Situation(p) == IF raced THEN "race" ELSE IF contents[p].failed THEN "error" ELSE "cache"
Assert(p, condition) == fault' = fault \cup (IF condition THEN {} ELSE {Situation(p)})

(* An unknown target is that of the code, or of the environment.           *)
KnownTarget(p, want) ==
    IF want # "unknown" THEN want
    ELSE IF contents[p].target = "unknown" THEN EnvTarget ELSE contents[p].target

(* A call to p.  After an internal error nothing is called any more.       *)
Begin(t) ==
    /\ ~Busy(t) /\ fault = {}
    /\ \E p \in Pipes, op \in Calls, want \in Targets \cup {"unknown"} :
         /\ want = "unknown" => op = "realize"
         /\ Move(t, contents,
                 [pc |-> "resolve", op |-> op, pipe |-> p, want |-> want, at |-> p, links |-> NoLinks,
                  iter |-> 0, query |-> <<>>, ask |-> <<>>, args |-> {}])
         /\ raced' = (raced \/ Races(p, want, op))
    /\ inferred' = NoSizes
    /\ UNCHANGED fault

Resolve(t) ==
    LET p == thread[t].pipe
        holds == thread[t].want = "unknown" => RealityCheck(contents[p])
    IN /\ At(t, "resolve")
       /\ Assert(p, holds)
       /\ Step(t, contents, IF holds THEN [thread[t] EXCEPT !.pc = "check", !.want = KnownTarget(p, @)]
                                     ELSE Idle)

(* Code for WebAssembly is not where the linked code is taken from.        *)
Native(c) == IF c.target \in Wasm THEN None ELSE c.code

(* The pipeline that was compiled is the one that is called, or one that   *)
(* is linked to it.                                                        *)
After(t, c) ==
    IF thread[t].at # thread[t].pipe
      THEN [thread[t] EXCEPT !.pc = "link", !.at = thread[t].pipe,
              !.links = [q \in DOMAIN @ \cup {thread[t].at} |->
                           IF q = thread[t].at THEN Native(c) ELSE @[q]]]
    ELSE IF thread[t].op = "compile" THEN Idle ELSE Goto(t, "prepare")

(* An exception ends the compilation of p and of the pipeline that p was   *)
(* compiled for: what was set stays.                                       *)
Abandoned(t) ==
    [p \in Pipes |-> IF p \in {thread[t].at, thread[t].pipe} THEN [contents[p] EXCEPT !.failed = TRUE]
                                                             ELSE contents[p]]

Reusable(c, want) == c.target = want

(* compile_jit of the pipeline that the thread is at.                      *)
CheckTarget(t) ==
    LET p == thread[t].at
        c == contents[p]
    IN /\ At(t, "check")
       /\ Assert(p, RealityCheck(c))
       /\ \/ ~RealityCheck(c) /\ Step(t, Abandoned(t), Idle)
          \/ RealityCheck(c) /\ Reusable(c, thread[t].want) /\ Step(t, contents, After(t, c))
          \/ /\ RealityCheck(c) /\ ~Reusable(c, thread[t].want)
             /\ Step(t, [contents EXCEPT ![p] = invalidate_cache(@)], Goto(t, "set"))

(* A mistake: the arguments are left to those who ask for them.            *)
SetTargetOnly(t) ==
    /\ At(t, "set")
    /\ Step(t, [contents EXCEPT ![thread[t].at].target = thread[t].want], Goto(t, "lower"))
    /\ UNCHANGED fault

(* The target is set before there is code for it.                          *)
SetTarget(t) ==
    LET p == thread[t].at
    IN /\ At(t, "set")
       /\ Step(t, [contents EXCEPT ![p].target = thread[t].want, ![p].args = Params(contents[p])],
               Goto(t, "lower"))
       /\ UNCHANGED fault

(* A module is always lowered anew: the one that the pipeline keeps is     *)
(* never taken, since no module has the name that the test asks for.       *)
compile_to_module(t) ==
    /\ At(t, "lower")
    /\ Quietly(t, Goto(t, "link"))

CompileFails(t) ==
    /\ At(t, "lower")
    /\ Step(t, Abandoned(t), Idle)
    /\ UNCHANGED fault

(* A pipeline that the code calls as an extern is compiled first.          *)
ToLink(t) == contents[thread[t].at].externs \ DOMAIN thread[t].links

make_externs_jit_module(t) ==
    /\ At(t, "link") /\ thread[t].at = thread[t].pipe
    /\ \E q \in ToLink(t) : Quietly(t, [thread[t] EXCEPT !.pc = "check", !.at = q])

(* The code is there, with the code of the externs as it is now.  It was   *)
(* lowered from what there still is, since only the author changes that.   *)
Install(t) ==
    LET p == thread[t].at
        c == contents[p]
        stale == {x \in {"externs"} : \E q \in c.externs : contents[q].missed # {}}
        d == [c EXCEPT !.code = Lowered(c, thread[t].want), !.missed = stale,
                       !.linked = IF p = thread[t].pipe THEN thread[t].links ELSE NoLinks]
    IN /\ At(t, "link") /\ (p # thread[t].pipe \/ ToLink(t) = {})
       /\ Step(t, [contents EXCEPT ![p] = d], After(t, d))
       /\ UNCHANGED fault

(* The arguments are those inferred last; an inference of bounds has       *)
(* nothing to do when every input has a buffer.  The sizes of those that   *)
(* the author gave, and what the code requires of them, are chosen here.   *)
prepare_jit_call_arguments(t) ==
    LET p == thread[t].pipe
        called == [thread[t] EXCEPT !.args = contents[p].args]
        asks == [given : [Inputs -> {Unbound, MaxSize}], required : Queries]
        open(x) == {i \in Inputs : x.given[i] = Unbound}
        next == IF thread[t].op = "realize" THEN {[called EXCEPT !.pc = "call"]}
                ELSE {IF open(x) = {} THEN Idle
                      ELSE [called EXCEPT !.pc = "query", !.ask = x,
                                          !.query = [i \in open(x) |-> 0]] : x \in asks}
    IN /\ At(t, "prepare")
       /\ Assert(p, Compiled(p))
       /\ \E n \in next : Step(t, contents, IF Compiled(p) THEN n ELSE Idle)

(* The code runs or fails, which is an exception or left to a handler: the *)
(* call is over.                                                           *)
call_jit_code(t) ==
    /\ At(t, "call")
    /\ Assert(thread[t].pipe, Compiled(thread[t].pipe))
    /\ Step(t, contents, Idle)

(* One iteration of infer_input_bounds: the code writes the sizes that it  *)
(* requires for the inputs without a buffer, given those of all inputs.    *)
WithQuery(t, q) == [i \in Inputs |-> IF i \in DOMAIN q THEN q[i] ELSE thread[t].ask.given[i]]
Answer(t, q) == [i \in DOMAIN q |-> thread[t].ask.required[WithQuery(t, q)][i]]

(* A mistake: iterations are not counted.                                  *)
OutOfItersNever(iter) == FALSE
(* A mistake: the sizes of the last iteration are taken as they are.       *)
Unchanged1(t, q, iter) == q = thread[t].query \/ iter = MaxIters

OutOfIters(iter) == iter >= MaxIters
Converged(t, q, iter) == q = thread[t].query

Bind(t, q, failed) ==
    /\ inferred' = [open |-> DOMAIN q, sizes |-> WithQuery(t, q), required |-> thread[t].ask.required,
                    failed |-> failed]
    /\ Move(t, contents, Idle)
    /\ UNCHANGED <<fault, raced>>

Query(t) ==
    LET q == Answer(t, thread[t].query)
        iter == thread[t].iter + 1
    IN /\ At(t, "query")
       /\ IF Converged(t, q, iter) THEN Bind(t, q, FALSE)
          ELSE Quietly(t, IF OutOfIters(iter) THEN Idle
                          ELSE [thread[t] EXCEPT !.query = q,
                                                 !.iter = IF @ = MaxIters THEN @ ELSE iter])

(* A query that fails changes nothing.  It is an exception, or with a      *)
(* handler of the author it is taken for convergence.                      *)
QueryFails(t) ==
    /\ At(t, "query")
    /\ Quietly(t, Idle) \/ Bind(t, thread[t].query, TRUE)

-----------------------------------------------------------------------------
Author(p) ==
    \/ add_requirement(p) \/ trace_pipeline(p)
    \/ add_custom_lowering_pass(p) \/ clear_custom_lowering_passes(p)
    \/ set_jit_externs(p) \/ infer_arguments(p)

Running(t) ==
    \/ Resolve(t) \/ CheckTarget(t) \/ SetTarget(t) \/ compile_to_module(t) \/ CompileFails(t)
    \/ make_externs_jit_module(t) \/ Install(t) \/ prepare_jit_call_arguments(t) \/ call_jit_code(t)
    \/ Query(t) \/ QueryFails(t)

PipelineNext ==
    \/ LoopDirective \/ DeviceDirective \/ StorageDirective \/ TileDirective
    \/ BoundDirective \/ PlaceDirective \/ UpdateStage \/ StageDirective
    \/ CopyDirective \/ ProducerDirective
    \/ \E p \in Pipes : Author(p)
    \/ \E t \in Threads : Begin(t) \/ Running(t)

(* A call that was begun goes on: nothing in it waits for another thread.  *)
Fairness == \A t \in Threads : WF_pipelineVars(Running(t))

PipelineSpec == PipelineInit /\ [][PipelineNext]_pipelineVars /\ Fairness

-----------------------------------------------------------------------------
(* Properties.                                                             *)

(* In what two versions differ.                                            *)
Differs(v, w) ==
    SymDiff(v.sched, w.sched) \cup
    {x \in {"requirements"} : v.reqs # w.reqs} \cup {x \in {"traced"} : v.traced # w.traced} \cup
    {x \in {"passes"} : v.passes # w.passes}

Runs(t) == thread[t].pc \in {"call", "query"}

(* The code that a call runs was compiled for the target of the call, and  *)
(* differs from what there is to compile when it runs only in what calls   *)
(* that do not invalidate have changed since: a requirement, tracing, a    *)
(* copy to a device, directives through lists of tiles, a Stage taken      *)
(* earlier, another pipeline or another Func, and externs of all of these. *)
(* The linked code of externs without such changes is theirs of now        *)
(* (invalidate_cache, compile_jit and make_externs_jit_module).            *)
RunsCurrent ==
    ~raced => \A t \in Threads : Runs(t) =>
       LET c == contents[thread[t].pipe]
       IN /\ Differs(c.code.version, Version(c)) \subseteq c.missed
          /\ c.code.target = thread[t].want
          /\ thread[t].want \notin Wasm /\ "externs" \notin c.missed =>
                \A q \in c.externs : /\ c.linked[q].version = Version(contents[q])
                                     /\ c.linked[q].target = thread[t].want

(* A call passes the code the arguments that it was compiled with, unless  *)
(* requirements or bounds have been added that the code does not have      *)
(* (compile_jit, infer_arguments and prepare_jit_call_arguments).          *)
ArgsMatchCode ==
    ~raced => \A t \in Threads : Runs(t) =>
       LET c == contents[thread[t].pipe]
       IN c.missed \cap {"requirements", "bound", "producers"} = {} => thread[t].args = c.code.args

(* No internal assertion about the cache fails, and no code is called that *)
(* is not there, but after a compilation that ended in an error, or when   *)
(* calls overlap of which one finds no code (get_compiled_jit_target,      *)
(* prepare_jit_call_arguments, call_jit_code): not after refused           *)
(* directives, changes of targets or externs, or overlapping realizations  *)
(* of code that is there.                                                  *)
NoInternalError == "cache" \notin fault

(* The sizes that an inference of bounds gave to inputs are those that the *)
(* pipeline requires of them when it runs with them, unless the code       *)
(* failed in it and a handler of the author went on (infer_input_bounds).  *)
InferredSettled ==
    inferred.open # {} /\ ~inferred.failed =>
       \A i \in inferred.open : inferred.sizes[i] = inferred.required[inferred.sizes][i]

(* Every call that compiles or runs returns, also an inference of bounds   *)
(* whose constraints nothing satisfies.                                    *)
EveryCallReturns == \A t \in Threads : Busy(t) ~> ~Busy(t)

-----------------------------------------------------------------------------
(* What comments promise and the code does not do.                         *)

(* "Clear all cached info in case there is an error": compile_jit,         *)
(* Pipeline.cpp, so that the next call finds no trace of the error.        *)
ClearedAfterError == "error" \notin fault

(* "This method is thread-safe": realize, Func.h.                          *)
RealizeThreadSafe == "race" \notin fault

(* "The two must be updated together": the inferred arguments and the      *)
(* code, PipelineContents in Pipeline.cpp.                                 *)
UpdatedTogether == \A p \in Pipes : Compiled(p) => contents[p].args = contents[p].code.args

(* "Declare that this function should be implemented by a call to          *)
(* halide_buffer_copy": CopyDirective, Func.h.  The code that the Func    *)
(* runs is such a call.                                                    *)
RunsTheCopy ==
    \A t \in Threads : Runs(t) /\ thread[t].pipe = Own /\ "copied" \in sched =>
       "copied" \in contents[Own].code.version.sched
=============================================================================
