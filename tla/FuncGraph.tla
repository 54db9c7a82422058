------------------------------ MODULE FuncGraph ------------------------------
(***************************************************************************)
(* The graph of Funcs that an author of a Halide pipeline builds: pure,    *)
(* update and extern definitions, the freezing of a Func that is used,     *)
(* implicit variables, and the wrappers and clones that in() and           *)
(* clone_in() put between a Func and its callers.  It models the           *)
(* definition half of Func.cpp and Function.cpp; what is done to the loops *)
(* of a definition is in StageSchedule, compiling and running in           *)
(* JitPipeline.                                                            *)
(*                                                                         *)
(* An expression is abstracted to the Funcs it calls and to whether it     *)
(* calls them with the placeholder `_'.  A call that the code refuses      *)
(* without having changed anything is not a step; one that it refuses      *)
(* after a change is a step that makes that change.                        *)
(*                                                                         *)
(* Unchecked names the one kind of call that the code accepts although the *)
(* graph may be wrong after it (see README); every other sequence of calls *)
(* is allowed.                                                             *)
(***************************************************************************)
EXTENDS Integers, Sequences, FiniteSets, FiniteSetsExt

CONSTANTS Funcs,          \* Funcs that the author declares
          WrapperFuncs,   \* Funcs that in() and clone_in() may create
          Global,         \* the key of a global wrapper, "" in the code
          MaxDims,        \* bound on the dimensions of a Func
          MaxUpdates,     \* bound on the updates of a Func
          MaxCallees,     \* bound on the Funcs that one statement calls
          MaxEarly,       \* bound on references in it that are older than their Func
          MaxCalls,       \* bound on the calls that the author makes
          Unchecked       \* mistakes of an author that the code accepts

ASSUME NamesAssumption == Funcs \cap WrapperFuncs = {} /\ Global \notin Funcs \cup WrapperFuncs
ASSUME BoundsAssumption == MaxDims \in Nat /\ MaxUpdates \in Nat /\ MaxCallees \in Nat /\ MaxCalls \in Nat
ASSUME UncheckedAssumption ==
    Unchecked \subseteq {"extern_args"}

VARIABLES kind,       \* how the Func is defined
          dims,       \* its number of dimensions
          pure,       \* its pure or extern definition
          updates,    \* its update definitions
          frozen,     \* whether it was used, so that it must not be redefined
          wrappers,   \* per Func, its callers that call a wrapper instead
          made,       \* the Funcs that in() and clone_in() created
          piped,      \* the Funcs of which a Pipeline was made
          calls       \* the calls made so far

graph == <<kind, dims, pure, updates, frozen, wrappers, made, piped>>
vars == <<graph, calls>>

Names == Funcs \cup WrapperFuncs

(* The map f, and g for what f has no entry for.                           *)
With(f, g) ==
    [x \in DOMAIN f \cup DOMAIN g |-> IF x \in DOMAIN f THEN f[x] ELSE g[x]]

(* A definition: the Funcs called, each with its number of arguments, the  *)
(* implicit variables that the values use and those that the left-hand     *)
(* side has.  A history field names the Funcs that it calls through a      *)
(* reference which is older than their definition, and does not fit it.    *)
NoCalls == [c \in {} |-> 0]
OneCall(c, n) == [b \in {c} |-> n]
Nothing == [calls |-> NoCalls, used |-> 0, bound |-> 0, early |-> {}]

Defined(f) == kind[f] # "undefined"
Returned == {w \in DOMAIN made : made[w].asked # {}}
Known == Funcs \cup Returned
Definitions(f) == {pure[f]} \cup {updates[f][i] : i \in DOMAIN updates[f]}
Callees(f) ==
    DOMAIN pure[f].calls \cup UNION {DOMAIN updates[f][i].calls : i \in DOMAIN updates[f]}

(* What the author writes: f(a, ..., _) = values that call the callees.    *)
Statement ==
    [explicit : 0 .. MaxDims, placeholder : BOOLEAN, implicit : BOOLEAN,
     callees : {C \in SUBSET Known : Cardinality(C) <= MaxCallees},
     flaw : {"none", "stray_var", "late"}]

(* The implicit variables in the values: g(_) has one per dimension of g.  *)
CountImplicitVars(s) ==
    IF s.implicit THEN Max({0} \cup {dims[c] : c \in s.callees}) ELSE 0

(* The number of arguments of a reference to a Func is checked when it is  *)
(* made, against the definition that there is then.  One of the Func that  *)
(* an update is for must not have more arguments than it.                  *)
MayBeEarly(c) == c \in Funcs \/ made[c].taken = "undefined"
EarlyRefs(C) == {E \in SUBSET {c \in C : MayBeEarly(c)} : Cardinality(E) <= MaxEarly}
CallsOf(f, C, early) ==
    {a \in [C -> 0 .. MaxDims] :
        \A c \in C : IF c \in early THEN a[c] # dims[c] /\ (c = f => a[c] < dims[c])
                                    ELSE a[c] = dims[c]}
CanCall(C) == \A c \in C : Defined(c)

(* The implicit variables on the left of an update.                        *)
add_implicit_vars(f, s) == IF s.placeholder THEN dims[f] - s.explicit ELSE 0
ArityFits(f, s) == s.explicit = dims[f] \/ (s.placeholder /\ s.explicit <= dims[f])

(* A mistake: a placeholder that is not expanded on the left-hand side.    *)
ExpandedDimsShort(s) == s.explicit

(* The dimensions of a Func that the statement defines.                    *)
ExpandedDims(s) == s.explicit + (IF s.placeholder THEN CountImplicitVars(s) ELSE 0)
Expanded(s) == ExpandedDims(s) - s.explicit
ImplicitOnLeft(s) == CountImplicitVars(s) > 0 => s.placeholder

(* What a statement that calls C may become as a definition of f, with b   *)
(* implicit variables on the left.                                         *)
DefinitionsOf(f, s, C, b) ==
    UNION {{[calls |-> a, used |-> CountImplicitVars(s), bound |-> b, early |-> E] :
              a \in CallsOf(f, C, E)} : E \in EarlyRefs(C)}

FreezeFunctions(f, C) == [g \in Names |-> frozen[g] \/ g \in C \ {f}]

Init ==
    /\ kind = [f \in Names |-> "undefined"]
    /\ dims = [f \in Names |-> 0]
    /\ pure = [f \in Names |-> Nothing]
    /\ updates = [f \in Names |-> <<>>]
    /\ frozen = [f \in Names |-> FALSE]
    /\ wrappers = [f \in Names |-> [g \in {} |-> f]]
    /\ made = [w \in {} |-> Nothing]
    /\ piped = {}
    /\ calls = 0

-----------------------------------------------------------------------------
(* Definitions.                                                            *)

Called(f) == f \in Known /\ calls < MaxCalls /\ calls' = calls + 1

(* f(...) = e of an undefined Func.  The callees are frozen before the     *)
(* names of the arguments and the reduction domain are looked at: a        *)
(* statement refused for those leaves them frozen.                         *)
CanDefine(f, s) ==
    /\ CanCall(s.callees) /\ ImplicitOnLeft(s)
    /\ ExpandedDims(s) <= MaxDims

InitDefinition(f, s, d) ==
    /\ kind' = [kind EXCEPT ![f] = "pure"]
    /\ dims' = [dims EXCEPT ![f] = ExpandedDims(s)]
    /\ pure' = [pure EXCEPT ![f] = d]

Define(f) ==
    /\ Called(f) /\ ~Defined(f) /\ ~frozen[f]
    /\ \E s \in Statement :
         /\ CanDefine(f, s) /\ s.flaw # "stray_var"
         /\ frozen' = FreezeFunctions(f, s.callees)
         /\ IF s.flaw = "late" THEN UNCHANGED <<kind, dims, pure>>
                               ELSE \E d \in DefinitionsOf(f, s, s.callees, Expanded(s)) :
                                      InitDefinition(f, s, d)
    /\ UNCHANGED <<updates, wrappers, made, piped>>

(* A mistake: define_update that does not look at frozen().                *)
MayUpdateFrozen(f) == Defined(f)

(* define_update looks at the reduction domain before it freezes anything, *)
(* so that it freezes only what it defines.                                *)
MayUpdate(f) == Defined(f) /\ ~frozen[f]

(* Implicit variables on the left of an update must be those of the pure   *)
(* definition.                                                             *)
SamePlaces(f, s) == add_implicit_vars(f, s) \in {0, pure[f].bound}

AppendUpdate(f, s, C) ==
    /\ CanCall(C) /\ ArityFits(f, s) /\ SamePlaces(f, s) /\ s.flaw = "none"
    /\ CountImplicitVars(s) <= add_implicit_vars(f, s)
    /\ \E d \in DefinitionsOf(f, s, C, add_implicit_vars(f, s)) :
         updates' = [updates EXCEPT ![f] = Append(@, d)]
    /\ frozen' = FreezeFunctions(f, C)

(* f(...) = e of a defined Func, also of an extern one.                    *)
Update(f) ==
    /\ Called(f) /\ MayUpdate(f) /\ Len(updates[f]) < MaxUpdates
    /\ \E s \in Statement : AppendUpdate(f, s, s.callees)
    /\ UNCHANGED <<kind, dims, pure, wrappers, made, piped>>

(* f(...) += e of a defined Func.                                          *)
Accumulate(f) ==
    /\ Called(f) /\ MayUpdate(f) /\ Len(updates[f]) < MaxUpdates
    /\ \E s \in Statement : AppendUpdate(f, s, s.callees \cup {f})
    /\ UNCHANGED <<kind, dims, pure, wrappers, made, piped>>

(* f(...) += e of an undefined Func: define_base_case gives it its initial *)
(* value, and that stays when the update is refused.                       *)
AccumulateFromBase(f) ==
    /\ Called(f) /\ ~Defined(f) /\ ~frozen[f] /\ MaxUpdates > 0
    /\ \E s \in Statement :
         /\ CanDefine(f, s) /\ s.flaw # "late"
         /\ InitDefinition(f, s, [Nothing EXCEPT !.bound = Expanded(s)])
         /\ IF s.flaw = "stray_var"
              THEN UNCHANGED <<updates, frozen>>
              ELSE /\ \E d \in DefinitionsOf(f, s, s.callees, Expanded(s)) :
                        updates' = [updates EXCEPT ![f] =
                          <<[d EXCEPT !.calls = With(@, OneCall(f, ExpandedDims(s)))]>>]
                   /\ frozen' = FreezeFunctions(f, s.callees)
    /\ UNCHANGED <<wrappers, made, piped>>

(* An extern definition neither looks at frozen nor freezes the Funcs that *)
(* it is given as arguments: those should be finished, and the Func must   *)
(* not be one that callers use already, as they do an undefined clone.     *)
ExternArgs(f) ==
    {a \in Known : \/ "extern_args" \in Unchecked
                   \/ f \notin DOMAIN made /\ a # f /\ Defined(a) /\ frozen[a]}

define_extern(f) ==
    /\ Called(f) /\ ~Defined(f)
    /\ \E A \in SUBSET ExternArgs(f) :
         /\ Cardinality(A) <= MaxCallees
         /\ pure' = [pure EXCEPT ![f] = [Nothing EXCEPT !.calls = [a \in A |-> dims[a]]]]
    /\ kind' = [kind EXCEPT ![f] = "extern"]
    /\ \E n \in 0 .. MaxDims : dims' = [dims EXCEPT ![f] = n]
    /\ UNCHANGED <<updates, frozen, wrappers, made, piped>>

(* A Func that is one call with the same arguments may be that call and    *)
(* nothing else; copy_to_device then replaces its definition, frozen or    *)
(* not, by an extern one with the callee as its argument.                  *)
is_wrapper(f) ==
    \E c \in Names : DOMAIN pure[f].calls = {c} /\ pure[f].calls[c] = dims[f]

copy_to_device(f) ==
    /\ Called(f) /\ kind[f] = "pure" /\ updates[f] = <<>> /\ is_wrapper(f)
    /\ kind' = [kind EXCEPT ![f] = "extern"]
    /\ UNCHANGED <<dims, pure, updates, frozen, wrappers, made, piped>>

(* A Pipeline freezes its outputs, the undefined ones too.                 *)
MakePipeline(f) ==
    /\ Called(f) /\ f \notin piped
    /\ piped' = piped \cup {f}
    /\ frozen' = [frozen EXCEPT ![f] = TRUE]
    /\ UNCHANGED <<kind, dims, pure, updates, wrappers, made>>

-----------------------------------------------------------------------------
(* Wrappers.  An empty set of callers stands for the global wrapper.       *)

Callers == {A \in SUBSET Known : Cardinality(A) <= 2}
Keys(A) == IF A = {} THEN {Global} ELSE A
Fresh == CHOOSE w \in WrapperFuncs : w \notin DOMAIN made

(* A clone calls itself where the original called itself.                  *)
Cloned(d, f, w) ==
    LET Turned(C) == {IF b = f THEN w ELSE b : b \in C}
    IN [d EXCEPT !.calls = [c \in Turned(DOMAIN d.calls) |-> d.calls[IF c = w THEN f ELSE c]],
                 !.early = Turned(@)]

(* A mistake: a deep copy without the updates.                             *)
ClonedInitOnly(f, w) == <<>>

ClonedUpdates(f, w) == [i \in DOMAIN updates[f] |-> Cloned(updates[f][i], f, w)]

create_in_wrapper(f, w) ==
    /\ Defined(f)
    /\ kind' = [kind EXCEPT ![w] = "pure"]
    /\ dims' = [dims EXCEPT ![w] = dims[f]]
    /\ pure' = [pure EXCEPT ![w] = [Nothing EXCEPT !.calls = OneCall(f, dims[f])]]
    /\ UNCHANGED updates

(* A Func may be cloned at any time, also before it is defined, but a deep *)
(* copy of one with wrappers, or with Funcs as extern arguments, fails.    *)
create_clone_wrapper(f, w) ==
    /\ DOMAIN wrappers[f] = {}
    /\ kind[f] = "extern" => DOMAIN pure[f].calls \subseteq {f}
    /\ kind' = [kind EXCEPT ![w] = kind[f]]
    /\ dims' = [dims EXCEPT ![w] = dims[f]]
    /\ pure' = [pure EXCEPT ![w] = Cloned(pure[f], f, w)]
    /\ updates' = [updates EXCEPT ![w] = ClonedUpdates(f, w)]

(* A mistake: the Func itself among the callers is not refused.            *)
AddedToAll(f, A, first) == {Keys(A)}

(* None of the callers has a wrapper yet.  The Func itself among them is   *)
(* refused only when its turn comes: the callers before it have been given *)
(* the wrapper by then.                                                    *)
AddedTo(f, A, first) ==
    IF f \notin A THEN {Keys(A)}
    ELSE IF first = f THEN {{}}
    ELSE {B \in SUBSET (A \ {f}) : first \in B}

Taken(f) == IF ~Defined(f) THEN "undefined" ELSE IF frozen[f] THEN "final" ELSE "open"

NewWrapper(f) ==
    /\ Called(f) /\ DOMAIN made # WrapperFuncs
    /\ \E A \in Callers, clone \in BOOLEAN : \E first \in Keys(A) :
         /\ Keys(A) \cap DOMAIN wrappers[f] = {} /\ (clone => A # {})
         /\ IF clone THEN create_clone_wrapper(f, Fresh) ELSE create_in_wrapper(f, Fresh)
         /\ \E B \in AddedTo(f, A, first) :
              /\ wrappers' = [wrappers EXCEPT ![f] = With(@, [g \in B |-> Fresh])]
              /\ frozen' = [frozen EXCEPT ![f] = @ \/ ~clone,
                                          ![Fresh] = B # {} \/ (clone /\ frozen[f])]
         /\ made' = With(made, [w \in {Fresh} |->
                              [of |-> f, clone |-> clone,
                               asked |-> IF f \in A THEN {} ELSE Keys(A),
                               askedClone |-> clone, taken |-> Taken(f)]])
    /\ UNCHANGED piped

(* A mistake: sharers that are not named are not looked for.               *)
validate_named(f, A, first, w) ==
    A # {} => \A g \in DOMAIN wrappers[f] \ {first} : g \in A => wrappers[f][g] = w

(* The wrapper of the first caller is returned again, be it a clone or     *)
(* not, unless another caller has a different one although it is named, or *)
(* shares it without being named.                                          *)
validate_wrapper(f, A, first, w) ==
    A # {} => \A g \in DOMAIN wrappers[f] \ {first} : (g \in A) <=> (wrappers[f][g] = w)

FoundWrapper(f) ==
    /\ Called(f)
    /\ \E A \in Callers, clone \in BOOLEAN : \E first \in Keys(A) \cap DOMAIN wrappers[f] :
         LET w == wrappers[f][first]
         IN /\ validate_wrapper(f, A, first, w)
            /\ clone => A # {}
            /\ made' = [made EXCEPT ![w].asked = Keys(A), ![w].askedClone = clone]
    /\ UNCHANGED <<kind, dims, pure, updates, frozen, wrappers, piped>>

-----------------------------------------------------------------------------
Next ==
    \E f \in Names :
       \/ Define(f) \/ Update(f) \/ Accumulate(f) \/ AccumulateFromBase(f)
       \/ define_extern(f) \/ copy_to_device(f) \/ MakePipeline(f)
       \/ NewWrapper(f) \/ FoundWrapper(f)

Spec == Init /\ [][Next]_vars

-----------------------------------------------------------------------------
(* Properties.                                                             *)

Definition(d) ==
    /\ DOMAIN d = {"calls", "used", "bound", "early"} /\ d.early \subseteq DOMAIN d.calls
    /\ DOMAIN d.calls \subseteq Names /\ \A c \in DOMAIN d.calls : d.calls[c] \in 0 .. MaxDims
    /\ d.used \in 0 .. MaxDims /\ d.bound \in 0 .. MaxDims

(* Every variable has its type.                                            *)
TypeOK ==
    /\ kind \in [Names -> {"undefined", "pure", "extern"}]
    /\ dims \in [Names -> 0 .. MaxDims]
    /\ \A f \in Names : \A d \in Definitions(f) : Definition(d)
    /\ frozen \in [Names -> BOOLEAN]
    /\ \A f \in Names : wrappers[f] \in [DOMAIN wrappers[f] -> DOMAIN made]
    /\ DOMAIN made \subseteq WrapperFuncs /\ piped \subseteq Names /\ calls \in 0 .. MaxCalls

(* What lowering makes of the calls of a Func: its own wrapper of a callee *)
(* comes before the global one, which the wrappers of the callee and the   *)
(* callee itself do not use.                                               *)
WrappersOf(c) == {w \in DOMAIN made : made[w].of = c}
LoweredCallee(g, c) ==
    IF g \in DOMAIN wrappers[c] THEN wrappers[c][g]
    ELSE IF Global \in DOMAIN wrappers[c] /\ g # c /\ g \notin WrappersOf(c)
         THEN wrappers[c][Global] ELSE c
LoweredCallees(g) == {LoweredCallee(g, c) : c \in Callees(g)} \ {g}

(* After lowering has put in the wrappers, no Func depends on itself but   *)
(* by a direct reference in its own updates: whatever set of Funcs is      *)
(* taken, one of them calls no other of the set.  It is the freezing of    *)
(* every Func that is called (FreezeFunctions and frozen(), Function.cpp), *)
(* and the refusal to wrap a Func in itself, that forbid a cycle.          *)
LoweredAcyclic ==
    LET callees == [f \in Names |-> LoweredCallees(f)]
        active == {f \in Names : callees[f] # {}}
    IN \A S \in (SUBSET active) \ {{}} : \E f \in S : callees[f] \cap S = {}

(* Every call through a reference that was made when its Func was defined  *)
(* has as many arguments as the Func has dimensions, and no definition     *)
(* uses an implicit variable that its left-hand side does not have,        *)
(* whatever was defined, extended by placeholders, wrapped or cloned in    *)
(* between (add_implicit_vars and args_with_implicit_vars, Func.cpp).      *)
WellFormed(d) == /\ \A c \in DOMAIN d.calls \ d.early : d.calls[c] = dims[c]
                 /\ d.used <= d.bound
CallsWellFormed == TypeOK /\ \A f \in Names : \A d \in Definitions(f) : WellFormed(d)

(* What add_implicit_vars (Func.cpp) reports otherwise: a Func "was called *)
(* with .. arguments, but was defined with ..".                            *)
EveryCallFits ==
    \A f \in Names : \A d \in Definitions(f) : \A c \in DOMAIN d.calls : d.calls[c] = dims[c]

(* Once a definition of another Func or a Pipeline uses a defined Func,    *)
(* its values never change: no update is added, no call replaced           *)
(* (Function::define and define_update, which ask frozen()).               *)
UsedBy(f) == {g \in Names \ {f} : f \in Callees(g)}
Values(f) == <<dims[f], pure[f], updates[f]>>
UsedKeepsValues ==
    [][\A f \in Names : Defined(f) /\ (f \in piped \/ UsedBy(f) # {}) => Values(f)' = Values(f)]_vars

(* The wrapper that in() or clone_in() returned last for some callers is   *)
(* used, and by none but these callers, whatever wrappers were made,       *)
(* returned again or refused half-way before (get_wrapper and              *)
(* validate_wrapper, Func.cpp).                                            *)
Sharers(w) == {g \in DOMAIN wrappers[made[w].of] : wrappers[made[w].of][g] = w}
WrapperNotShared ==
    \A w \in Returned : Sharers(w) # {} /\ Sharers(w) \subseteq made[w].asked

(* "shared by all the Funcs in 'fs'.  If any of the Funcs in 'fs' already  *)
(* have a custom wrapper, this will throw an error": in(fs), Func.h.       *)
SharedByAll == \A w \in Returned : made[w].asked \subseteq Sharers(w)

(* "instead of replacing the call to this Func with an identity Func that  *)
(* refers to it, this replaces the call with a clone": clone_in, Func.h.   *)
CloneIfAsked == \A w \in Returned : made[w].askedClone => made[w].clone

(* A clone has the definitions that the original had when it was cloned,   *)
(* with the references to itself turned to the clone, and if the original  *)
(* was final then, the clone computes what it computes for as long as both *)
(* exist; of later updates it has none (create_clone_wrapper and           *)
(* Function::deep_copy).                                                   *)
CloneIsCopy ==
    \A w \in DOMAIN made : made[w].clone /\ made[w].taken # "undefined" =>
       LET f == made[w].of
       IN /\ dims[w] = dims[f]
          /\ pure[w].calls = Cloned(pure[f], f, w).calls
          /\ Len(updates[w]) <= Len(updates[f])
          /\ made[w].taken = "final" => Len(updates[w]) = Len(updates[f])
          /\ \A i \in DOMAIN updates[w] : updates[w][i].calls = Cloned(updates[f][i], f, w).calls

=============================================================================
