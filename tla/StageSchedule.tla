--------------------------- MODULE StageSchedule ---------------------------
(* The schedule of the stages of a func, as class Stage of Func.cpp keeps    *)
(* it: the list of the loops ("dims", innermost first, the last one a dummy  *)
(* around all) and the list of the splits that derived them from the         *)
(* variables of the definition. Every directive rewrites both lists; what    *)
(* loops they stand for, and which points of the definition these loops      *)
(* compute in which order, is defined at the end, and the properties compare *)
(* that with the definition as it was before any directive.                  *)
(*                                                                           *)
(* A dotted name is the sequence of its parts. A directive that the code     *)
(* refuses (user_error, user_assert) ends the program: it is no step here.   *)
EXTENDS Integers, FiniteSets, SequencesExt

CONSTANTS
    Definitions,     \* what to schedule, and with how many directives
    OutermostName,   \* of the dummy loop around all others
    RVarNames,       \* the names of RVars; all others are Vars
    FreshNames,      \* names that a directive may introduce
    Factors,         \* split factors
    Tails,           \* tail strategies to ask for
    ForTypes,        \* loop types to ask for
    Enabled,         \* the directives of this instance
    Overlooked       \* what the user may do although the code does not check it

ASSUME OverlookedAssumption ==
    Overlooked \subseteq {"reorder_some", "fuse_reductions", "fuse_names", "same_names",
                         "rfactor_split", "rfactor_parallel", "rename_pure"}

ASSUME OutermostAssumption == OutermostName \notin FreshNames \cup RVarNames

ASSUME FactorsAssumption == Factors \subseteq Nat \ {0}

ASSUME TailsAssumption == Tails \subseteq {"Auto", "RoundUp", "GuardWithIf", "ShiftInwards"}

\* What Function::define and define_update accept: arguments are not named twice,
\* and a pure definition has no reduction domain.
ASSUME DefinitionsAssumption ==
    \A def \in Definitions :
        LET names == DOMAIN def.ext
        IN /\ def.ext \in [names -> Nat \ {0}] /\ OutermostName \notin names
           /\ def.vars \in Seq(names)
           /\ def.args \in Seq(names \ RVarNames) /\ IsInjective(def.args)
           /\ def.rvars \in Seq(names \cap RVarNames) /\ IsInjective(def.rvars)
           /\ def.impure \subseteq ToSet(def.rvars)
           /\ def.init \in BOOLEAN /\ (def.init => def.rvars = << >>)
           /\ def.algebra \in {"none", "associative", "commutative"}
           /\ def.for \in {"serial", "extern"}
           /\ def.directives \in Nat

VARIABLES
    stages,          \* the stage, and the intermediates that rfactor made of it
    left             \* how many directives may still follow

stageVars == <<stages, left>>

IsRVar(name) == name \in RVarNames

Dim(path, type) == [var |-> path, for |-> "serial", api |-> "none", type |-> type]
Outermost == Dim(<<OutermostName>>, "PureVar")

IsPure(d) == d.type # "ImpureRVar"
IsRVarDim(d) == d.type # "PureVar"
IsParallel(t) == t \in {"parallel", "vectorized", "gpu_block", "gpu_thread", "gpu_lane"}

\* The function f with the value v for p.
Put(f, p, v) == [q \in DOMAIN f \cup {p} |-> IF q = p THEN v ELSE f[q]]

\* var_name_match(): an unqualified name stands for every path that ends in it.
Matches(path, name) == Last(path) = name
Find(dims, name) == SelectInSeq(dims, LAMBDA d : Matches(d.var, name))
DimNames(st) == {Last(st.dims[i].var) : i \in DOMAIN st.dims}

\* The stages of Function::define (pure) and Function::define_update: first the
\* reduction domain, then the pure arguments, then the dummy. ext gives the
\* extent of each variable, which the schedule is built without knowing.
NewStage(def) ==
    LET pure == [i \in DOMAIN def.args |-> [Dim(<<def.args[i]>>, "PureVar") EXCEPT !.for = def.for]]
        red == [i \in DOMAIN def.rvars |->
                  Dim(<<def.rvars[i]>>, IF def.rvars[i] \in def.impure THEN "ImpureRVar" ELSE "PureRVar")]
        rvars == [i \in DOMAIN def.rvars |-> <<def.rvars[i]>>]
    IN [init |-> def.init, vars |-> def.vars, args |-> def.args, rvars |-> rvars,
        assoc |-> def.algebra # "none", comm |-> def.algebra = "commutative",
        race |-> FALSE, atomic |-> FALSE, override |-> FALSE,
        dims |-> red \o pure \o <<Outermost>>, splits |-> << >>,
        \* for the properties: the extents and the reduction as first defined,
        \* what rfactor substituted into the definition, the tails asked for
        ext |-> Put([p \in {<<n>> : n \in DOMAIN def.ext} |-> def.ext[p[1]]], <<OutermostName>>, 1),
        order |-> rvars, impure |-> {<<r>> : r \in def.impure},
        origin |-> << >>, kept |-> << >>, inwards |-> TRUE]

-----------------------------------------------------------------------------
(* Directives map a stage to a stage. *)

Refused == [refused |-> TRUE]
Try(st, legal, result) == IF st # Refused /\ legal THEN result ELSE Refused

UpdateDims(st, name, Upd(_)) ==
    [st EXCEPT !.dims = [i \in DOMAIN st.dims |->
        IF Matches(st.dims[i].var, name) THEN Upd(st.dims[i]) ELSE st.dims[i]]]

\* Every loop of that name gets the type. A reduction that is not pure may be
\* parallel only if races are allowed, or atomic updates of an associative one.
SetDimType(st, name, t) ==
    LET races == /\ IsRVar(name) /\ IsParallel(t)
                 /\ \E i \in DOMAIN st.dims :
                        Matches(st.dims[i].var, name) /\ ~IsPure(st.dims[i])
        allowed == st.race \/ (st.atomic /\ (st.override \/ st.assoc))
    IN Try(st, name \in DimNames(st) /\ (races => allowed),
           UpdateDims(st, name, LAMBDA d : [d EXCEPT !.for = t]))

SetDimDeviceAPI(st, name, api) ==
    Try(st, name \in DimNames(st), UpdateDims(st, name, LAMBDA d : [d EXCEPT !.api = api]))

\* Mutant: every split of a pure variable may round up.
RoundUpAlways(st, old, exact) == ~exact

\* The variables that run over the inside of an earlier split: to compute more
\* of them than there are is to compute something twice.
InnerAfter(inner, s) ==
    CASE s.kind = "split" ->
           inner \cup {s.inner} \cup (IF s.old \in inner \cup {s.inner} THEN {s.outer} ELSE {})
      [] s.kind = "fuse" -> inner \cup (IF {s.inner, s.outer} \cap inner # {} THEN {s.old} ELSE {})
      [] OTHER -> inner \cup (IF s.old \in inner THEN {s.outer} ELSE {})

InnerVars(splits) ==
    LET inner[n \in 0 .. Len(splits)] ==
            IF n = 0 THEN {} ELSE InnerAfter(inner[n - 1], splits[n])
    IN inner[Len(splits)]

RoundUpOk(st, old, exact) == ~exact /\ (~st.init => old \notin InnerVars(st.splits))

\* Mutant: the inner variable counts as clamped, too.
ShiftedBoth(shifted, s) ==
    IF s.kind = "split" /\ s.tail = "ShiftInwards"
    THEN Put(Put(shifted, s.inner, s.factor), s.outer, s.factor) ELSE shifted

\* The variables that an earlier ShiftInwards clamps, with its factor.
ShiftedAfter(shifted, s) ==
    CASE s.kind = "split" /\ s.tail = "ShiftInwards" -> Put(shifted, s.outer, s.factor)
      [] s.kind = "split" /\ s.tail # "ShiftInwards" /\ s.old \in DOMAIN shifted ->
           Put(Put(shifted, s.outer, shifted[s.old]), s.inner, shifted[s.old])
      [] s.kind \in {"rename", "purify"} /\ s.old \in DOMAIN shifted ->
           Put(shifted, s.outer, shifted[s.old])
      [] OTHER -> shifted

ShiftedInwards(splits) ==
    LET shifted[n \in 0 .. Len(splits)] ==
            IF n = 0 THEN << >> ELSE ShiftedAfter(shifted[n - 1], splits[n])
    IN shifted[Len(splits)]

\* TailStrategy::Auto: the cheapest one that does not change the meaning.
AutoTail(st, old, factor, exact) ==
    LET shifted == ShiftedInwards(st.splits)
    IN CASE exact -> "GuardWithIf"
         [] ~exact /\ ~st.init -> IF RoundUpOk(st, old, exact) THEN "RoundUp" ELSE "GuardWithIf"
         [] OTHER -> IF old \in DOMAIN shifted /\ shifted[old] >= factor
                     THEN "RoundUp" ELSE "ShiftInwards"

\* The first loop called old becomes two. exact is true of RVars.
Split(st, old, outer, inner, factor, asked) ==
    LET exact == IsRVar(old)
        at == Find(st.dims, old)
        path == st.dims[at].var
        d == st.dims[at]
        two == << [d EXCEPT !.var = Append(path, inner)],
                  [d EXCEPT !.var = Append(path, outer),
                            !.for = IF @ = "extern" THEN "serial" ELSE @] >>
        tail == IF asked = "Auto" THEN AutoTail(st, path, factor, exact) ELSE asked
        legal == /\ IsRVar(outer) = exact /\ IsRVar(inner) = exact
                 /\ {inner, outer} \cap DimNames(st) \subseteq {old}
                 /\ at # 0
                 /\ ~st.init => /\ asked = "RoundUp" /\ ~exact => RoundUpOk(st, path, exact)
                                /\ tail # "ShiftInwards"
                 /\ exact => tail = "GuardWithIf"
    IN Try(st, legal,
         [st EXCEPT !.dims = SubSeq(@, 1, at - 1) \o two \o SubSeq(@, at + 1, Len(@)),
                    !.splits = Append(@, [kind |-> "split", old |-> path, factor |-> factor, tail |-> tail,
                                          outer |-> Append(path, outer), inner |-> Append(path, inner)]),
                    !.inwards = @ /\ asked \in {"Auto", "ShiftInwards"}])

\* Two loops become one, in the place of the inner one.
Fuse(st, inner, outer, fused) ==
    LET at == Find(st.dims, outer)
        rest == RemoveAt(st.dims, at)
        in == Find(rest, inner)
        path == Append(rest[in].var, fused)
        types == {rest[in].type, st.dims[at].type}
        worst == CASE "ImpureRVar" \in types -> "ImpureRVar"
                   [] types = {"PureVar"} -> "PureVar"
                   [] OTHER -> "PureRVar"
    IN Try(st, /\ ~IsRVar(fused) => ~IsRVar(inner) /\ ~IsRVar(outer)
               /\ at # 0
               /\ in # 0,
         [st EXCEPT !.dims = [rest EXCEPT ![in] = [@ EXCEPT !.var = path, !.type = worst]],
                    !.splits = Append(@, [kind |-> "fuse", old |-> path, factor |-> 0, tail |-> "RoundUp",
                                          outer |-> st.dims[at].var, inner |-> rest[in].var])])

\* Mutant: the split that made the loop keeps the old name.
RenameLoop(st, old, new) ==
    LET at == Find(st.dims, old)
    IN Try(st, IsRVar(old) = IsRVar(new) /\ at # 0,
           [st EXCEPT !.dims[at].var = Append(@, new)])

\* The definition of a loop's name is the last split that made it.
Rename(st, old, new) ==
    LET at == Find(st.dims, old)
        path == st.dims[at].var
        to == Append(path, new)
        makes(s) == IF s.kind = "fuse" THEN s.old = path ELSE path \in {s.inner, s.outer}
        uses(s) == IF s.kind = "fuse" THEN path \in {s.inner, s.outer} ELSE s.old = path
        last == SelectLastInSeq(st.splits, LAMBDA s : makes(s) \/ uses(s))
        swap(p) == IF p = path THEN to ELSE p
        defining(s) == IF s.kind = "fuse" THEN [s EXCEPT !.old = to]
                       ELSE [s EXCEPT !.inner = swap(@), !.outer = IF s.inner = path THEN @ ELSE swap(@)]
    IN Try(st, /\ IsRVar(old) = IsRVar(new)
               /\ at # 0
               /\ last # 0 => makes(st.splits[last]),
         [st EXCEPT !.dims[at].var = to,
                    !.splits = IF last # 0 THEN [@ EXCEPT ![last] = defining(st.splits[last])]
                               ELSE Append(@, [kind |-> "rename", old |-> path, outer |-> to, inner |-> << >>,
                                               factor |-> 1, tail |-> "RoundUp"])])

\* Mutant: compares the places the wrong way round.
SwapsBack(st, idx) ==
    \E i, j \in DOMAIN idx :
        i < j /\ idx[i] < idx[j] /\ ~IsPure(st.dims[idx[i]]) /\ ~IsPure(st.dims[idx[j]])

\* Whether two reductions that are named change places.
SwapsReductions(st, idx) ==
    \E i, j \in DOMAIN idx :
        i < j /\ idx[i] > idx[j] /\ ~IsPure(st.dims[idx[i]]) /\ ~IsPure(st.dims[idx[j]])

\* The loops take each other's places. A reduction keeps its order unless the
\* update is associative and commutative. names is a sequence.
Reorder(st, names) ==
    LET idx == [i \in DOMAIN names |-> SelectLastInSeq(st.dims, LAMBDA d : Matches(d.var, names[i]))]
        place(k) == Cardinality({m \in ToSet(idx) : m <= k})
    IN Try(st, /\ 0 \notin ToSet(idx)
               /\ IsInjective(idx)
               /\ SwapsReductions(st, idx) => st.assoc /\ st.comm,
         [st EXCEPT !.dims = [k \in DOMAIN @ |->
            IF k \in ToSet(idx) THEN st.dims[idx[place(k)]] ELSE @[k]]])

\* xs, os, is and fs are sequences of the same length.
SplitAll(st, xs, os, is, fs, tail) ==
    LET cut[n \in 0 .. Len(xs)] ==
            IF n = 0 THEN st ELSE Split(cut[n - 1], xs[n], os[n], is[n], fs[n], tail)
    IN cut[Len(xs)]
Tile(st, xs, os, is, fs, tail) == Reorder(SplitAll(st, xs, os, is, fs, tail), is \o os)

OnGpu(st, blocks, threads) ==
    LET all == [i \in DOMAIN blocks |-> <<blocks[i], "gpu_block">>]
               \o [i \in DOMAIN threads |-> <<threads[i], "gpu_thread">>]
        on[n \in 0 .. Len(all)] ==
            IF n = 0 THEN st ELSE SetDimType(SetDimDeviceAPI(on[n - 1], all[n][1], "gpu"), all[n][1], all[n][2])
    IN on[Len(all)]

GpuTile(st, xs, bs, ts, fs, tail) == OnGpu(Tile(st, xs, bs, ts, fs, tail), bs, ts)

GpuSingleThread(st, block, thread) ==
    OnGpu(Split(Split(st, OutermostName, OutermostName, thread, 1, "Auto"),
                OutermostName, OutermostName, block, 1, "Auto"), <<block>>, <<thread>>)

\* parallel(), vectorize() and unroll() with a factor.
SplitAndMark(st, name, tmp, factor, t, tail) ==
    LET s == Split(st, name, name, tmp, factor, tail)
    IN SetDimType(s, IF t = "parallel" THEN name ELSE tmp, t)

-----------------------------------------------------------------------------
(* rfactor: some variables of the reduction become pure in an intermediate. *)
(* preserved is a set of pairs <<RVar, Var>>.                                *)

Purify(st, old, new) ==
    LET at == Find(st.dims, old)
    IN Try(st, at # 0,
         [st EXCEPT !.dims[at].var = <<new>>, !.dims[at].type = "PureVar",
                    !.splits = Append(@, [kind |-> "purify", old |-> st.dims[at].var, outer |-> <<new>>,
                                          inner |-> << >>, factor |-> 1, tail |-> "RoundUp"])])

\* Remove the loop over path, with the splits that nothing else needs any more.
RemoveDim(st, path) ==
    LET at == SelectInSeq(st.dims, LAMBDA d : d.var = path)
        uses(s) == IF s.kind = "fuse" THEN path \in {s.inner, s.outer} ELSE s.old = path
        gone == FoldRight(LAMBDA s, acc :
                    CASE s.kind = "fuse" -> IF s.old \in acc.vars
                           THEN [acc EXCEPT !.vars = @ \cup {s.outer, s.inner}]
                           ELSE [acc EXCEPT !.splits = <<s>> \o @]
                      [] OTHER -> IF {s.inner, s.outer} \cap acc.vars # {}
                           THEN [acc EXCEPT !.vars = @ \cup {s.old}]
                           ELSE [acc EXCEPT !.splits = <<s>> \o @],
                    st.splits, [vars |-> {path}, splits |-> << >>])
    IN Try(st, at # 0 /\ \A i \in DOMAIN st.splits : ~uses(st.splits[i]),
         [st EXCEPT !.dims = RemoveAt(@, at), !.splits = gone.splits])

\* What a split does to the list of reduction variables: nothing if it is not
\* about them.
ApplyToRVars(s, rvars) ==
    LET at(p) == SelectInSeq(rvars, LAMBDA r : r = p)
    IN CASE s.kind = "split" /\ at(s.old) # 0 ->
              InsertAt([rvars EXCEPT ![at(s.old)] = s.inner], at(s.old) + 1, s.outer)
         [] s.kind = "fuse" /\ at(s.outer) # 0 /\ at(s.inner) # 0 ->
              RemoveAt([rvars EXCEPT ![at(s.outer)] = s.old], at(s.inner))
         [] s.kind = "purify" /\ at(s.old) # 0 -> RemoveAt(rvars, at(s.old))
         [] s.kind = "rename" /\ at(s.old) # 0 -> [rvars EXCEPT ![at(s.old)] = s.outer]
         [] OTHER -> rvars

\* The splits of the reduction are substituted into the definition.
Applied(st) ==
    FoldLeft(LAMBDA acc, s :
        LET r == ApplyToRVars(s, acc.rvars)
        IN IF r = acc.rvars THEN [acc EXCEPT !.splits = Append(@, s)]
           ELSE [acc EXCEPT !.rvars = r, !.origin = Append(@, s)],
        [rvars |-> st.rvars, origin |-> st.origin, splits |-> << >>], st.splits)

NamesOf(preserved) == {p[1] : p \in preserved}
KeptRVars(rvars, preserved) == SelectSeq(rvars, LAMBDA r : Last(r) \in NamesOf(preserved))
Lifted(rvars, preserved) == SelectSeq(rvars, LAMBDA r : Last(r) \notin NamesOf(preserved))

\* Mutant: looks for reductions inside of those that are factored.
InnerFirst(st, preserved) ==
    LET factored == {Find(st.dims, n) : n \in NamesOf(preserved)}
    IN \A i \in factored : \A j \in 1 .. i - 1 : IsRVarDim(st.dims[j]) => j \in factored

\* A variable that is not commuted past others: all reductions around it go with it.
OuterFirst(st, preserved) ==
    LET factored == {Find(st.dims, n) : n \in NamesOf(preserved)}
        around(i) == {j \in i + 1 .. Len(st.dims) : IsRVarDim(st.dims[j])}
    IN \A i \in factored : around(i) # {} => \E j \in around(i) :
          j \in factored /\ \A k \in around(i) : j <= k

CanFactor(st, preserved) ==
    /\ ~st.init /\ st.assoc
    /\ \A p \in preserved : /\ Find(st.dims, p[1]) # 0 /\ IsRVarDim(st.dims[Find(st.dims, p[1])])
                            /\ p[2] \notin DimNames(st)
    /\ ~st.comm => OuterFirst(st, preserved)
    \* else the code reads past the end of the list of reduction variables
    /\ Len(KeptRVars(Applied(st).rvars, preserved)) = Cardinality(preserved)

-----------------------------------------------------------------------------
(* The loops that a stage stands for, as Halide lowers them.                 *)

Derivation(st) == st.origin \o st.splits

\* Mutant: the extent of the outer loop is rounded down.
ExtentsDown(e, s) ==
    CASE s.kind = "split" -> Put(Put(e, s.inner, s.factor), s.outer, e[s.old] \div s.factor)
      [] s.kind = "fuse" -> Put(e, s.old, e[s.inner] * e[s.outer])
      [] s.kind = "rename" -> Put(e, s.outer, e[s.old])
      [] OTHER -> e

\* The extent of every variable: of the outer loop of a split, rounded up.
ExtentsAfter(e, s) ==
    CASE s.kind = "split" -> Put(Put(e, s.inner, s.factor), s.outer, (e[s.old] + s.factor - 1) \div s.factor)
      [] s.kind = "fuse" -> Put(e, s.old, e[s.inner] * e[s.outer])
      [] s.kind = "rename" -> Put(e, s.outer, e[s.old])
      [] OTHER -> e

Extents(st) ==
    LET d == Derivation(st)
        e[n \in 0 .. Len(d)] == IF n = 0 THEN st.ext ELSE ExtentsAfter(e[n - 1], d[n])
    IN e[Len(d)]

Iterations(st) ==
    LET e == Extents(st)
        its[n \in 0 .. Len(st.dims)] ==
            IF n = 0 THEN {<< >>}
            ELSE {Append(it, k) : it \in its[n - 1], k \in 0 .. e[st.dims[n].var] - 1}
    IN its[Len(st.dims)]

\* Where the inside of a split begins.
SplitBase(s, e, at) ==
    LET base == at[s.outer] * s.factor
    IN IF s.tail = "ShiftInwards" /\ base > e[s.old] - s.factor THEN e[s.old] - s.factor ELSE base

\* The values of the variables that s takes, from those that it makes.
Undone(at, s, e) ==
    CASE s.kind = "split" -> Put(at, s.old, SplitBase(s, e, at) + at[s.inner])
      [] s.kind = "fuse" -> Put(Put(at, s.outer, at[s.old] \div e[s.inner]), s.inner, at[s.old] % e[s.inner])
      [] OTHER -> Put(at, s.old, at[s.outer])

\* The values of all variables in one iteration.
Evaluate(st, e, it) ==
    LET d == Derivation(st)
        loop(p) == CHOOSE i \in DOMAIN st.dims : st.dims[i].var = p
        at[n \in 0 .. Len(d)] ==
            IF n = Len(d) THEN [p \in {st.dims[i].var : i \in DOMAIN st.dims} |-> it[loop(p)]]
            ELSE Undone(at[n + 1], d[n + 1], e)
    IN at[0]

\* Whether the conditions of GuardWithIf let these values be computed.
Guarded(d, e, at) ==
    \A i \in DOMAIN d :
        d[i].kind = "split" /\ d[i].tail = "GuardWithIf" => at[d[i].old] < e[d[i].old]

ToPaths(names) == {<<names[i]>> : i \in DOMAIN names}
Roots(st) == ToPaths(st.args) \cup ToSet(st.order)

\* The iterations that compute something, with the point of the definition and
\* the variables that tell which value it updates.
Runs(st) ==
    LET e == Extents(st)
        site == (Roots(st) \ st.impure) \cup ToSet(st.kept)
    IN {[it |-> x[1], point |-> [r \in Roots(st) |-> x[2][r]], site |-> [r \in site |-> x[2][r]]] :
          x \in {y \in {<<it, Evaluate(st, e, it)>> : it \in Iterations(st)} :
                   Guarded(Derivation(st), e, y[2])}}

Domain(st) ==
    {p \in [Roots(st) -> UNION {0 .. st.ext[r] - 1 : r \in Roots(st)}] :
        \A r \in Roots(st) : p[r] < st.ext[r]}

\* The order the definition reduces in: the first reduction variable runs fastest.
Precedes(st, p, q) ==
    \E i \in DOMAIN st.order :
        /\ p[st.order[i]] < q[st.order[i]]
        /\ \A j \in i + 1 .. Len(st.order) : p[st.order[j]] = q[st.order[j]]

\* Iteration a ends before b begins, in the loops as they are marked.
Before(st, a, b) ==
    \E i \in DOMAIN a :
        /\ a[i] < b[i] /\ ~IsParallel(st.dims[i].for)
        /\ \A j \in i + 1 .. Len(a) : a[j] = b[j]

-----------------------------------------------------------------------------
(* What rfactor makes of a stage. *)

\* The variables that the lifted ones enter into: conditions on them stay behind.
LostVars(origin, lifted) ==
    FoldRight(LAMBDA s, acc :
        CASE s.kind = "fuse" -> acc \cup (IF s.old \in acc THEN {s.inner, s.outer} ELSE {})
          [] OTHER -> acc \cup (IF {s.inner, s.outer} \cap acc # {} THEN {s.old} ELSE {}),
        origin, lifted)

\* The loops that only the reduction of the intermediate needs go; the pure
\* variables of the func that no loop is called after are added.
MergeStage(st, preserved) ==
    LET ap == Applied(st)
        kept == KeptRVars(ap.rvars, preserved)
        lifted == ToSet(Lifted(ap.rvars, preserved))
        all == FoldLeft(LAMBDA dims, v :
                   IF Find(dims, v) # 0 THEN dims ELSE InsertAt(dims, Len(dims), Dim(<<v>>, "PureVar")),
                   st.dims, st.vars)
        lost == LostVars(ap.origin, lifted)
    IN FoldLeft(RemoveDim,
         [st EXCEPT !.args = st.vars, !.dims = all, !.splits = ap.splits, !.rvars = kept, !.order = kept,
                    !.origin = SelectSeq(ap.origin, LAMBDA s : s.old \notin lost),
                    !.impure = {r \in ToSet(kept) : \E d \in ToSet(st.dims) : d.var = r /\ ~IsPure(d)},
                    !.ext = Extents(st)],
         Lifted(ap.rvars, preserved))

\* The update of the intermediate: the loops and the remaining splits of st, with
\* the preserved RVars made pure. None of the flags of st are copied.
IntermediateStage(st, preserved) ==
    LET ap == Applied(st)
        extents == Extents(st)
        kept == KeptRVars(ap.rvars, preserved)
        new(r) == CHOOSE v \in {p[2] : p \in preserved} : <<Last(r), v>> \in preserved
        inherited ==
          [st EXCEPT !.splits = ap.splits, !.rvars = Lifted(ap.rvars, preserved), !.origin = ap.origin,
                     !.race = FALSE, !.atomic = FALSE, !.override = FALSE,
                     !.kept = [i \in DOMAIN kept |-> <<new(kept[i])>>],
                     !.ext = FoldLeft(LAMBDA e, r : Put(e, <<new(r)>>, extents[r]), @, kept)]
    IN FoldLeft(LAMBDA acc, r : Purify(acc, Last(r), new(r)), inherited, kept)

-----------------------------------------------------------------------------
StageInit == \E def \in Definitions : stages = <<NewStage(def)>> /\ left = def.directives

Apply(k, st) == /\ st # Refused
                /\ stages' = [stages EXCEPT ![k] = st]
                /\ left' = left - 1

\* A directive of the instance, to a stage; names are those of its loops.
May(directive) == directive \in Enabled /\ left > 0
LoopNames(st) == DimNames(st) \ {OutermostName}
NewNames(st, old) == {n \in FreshNames \cup {old} : IsRVar(n) = IsRVar(old)}
\* The code does not look whether outer and inner are one name.
SplitNames(st, old) ==
    {p \in NewNames(st, old) \X NewNames(st, old) : "same_names" \in Overlooked \/ p[1] # p[2]}

SplitDim ==
    /\ May("split")
    /\ \E k \in DOMAIN stages : \E old \in LoopNames(stages[k]) :
       \E p \in SplitNames(stages[k], old), f \in Factors, tail \in Tails :
           Apply(k, Split(stages[k], old, p[1], p[2], f, tail))

\* Nothing in the code keeps a reduction in its order, or keeps it from a
\* parallel loop, once it is fused with another loop; nor does it look whether
\* another loop has the new name already, which two directives then mix up.
FuseDims ==
    /\ May("fuse")
    /\ \E k \in DOMAIN stages : \E inner, outer \in LoopNames(stages[k]) :
       \E fused \in FreshNames :
           /\ inner # outer
           /\ "fuse_reductions" \in Overlooked \/
                 \A d \in ToSet(stages[k].dims) : Last(d.var) \in {inner, outer} => IsPure(d)
           /\ "fuse_names" \in Overlooked \/ fused \notin DimNames(stages[k]) \ {inner, outer}
           /\ Apply(k, Fuse(stages[k], inner, outer, fused))

\* The variable that rfactor made is an argument of the intermediate, and not only
\* what a split produced: the code rewrites it like the latter.
RenameDim ==
    /\ May("rename")
    /\ \E k \in DOMAIN stages : \E old \in LoopNames(stages[k]) :
       \E new \in NewNames(stages[k], old) \ DimNames(stages[k]) :
           /\ "rename_pure" \in Overlooked \/ <<old>> \notin ToSet(stages[k].kept)
           /\ Apply(k, Rename(stages[k], old, new))

\* The code compares the reductions that are named with each other, and not
\* with one that is not named and lies between them.
NamesAllReductions(st, names) ==
    LET impure == {Last(d.var) : d \in {e \in ToSet(st.dims) : ~IsPure(e)}}
    IN "reorder_some" \in Overlooked \/ impure \cap ToSet(names) \in {{}, impure}

ReorderDims ==
    /\ May("reorder")
    /\ \E k \in DOMAIN stages : \E names \in SetToAllKPermutations(LoopNames(stages[k])) :
           /\ Len(names) > 1
           /\ NamesAllReductions(stages[k], names)
           /\ Apply(k, Reorder(stages[k], names))

MarkDim ==
    /\ May("mark")
    /\ \E k \in DOMAIN stages : \E name \in LoopNames(stages[k]), t \in ForTypes :
           Apply(k, SetDimType(stages[k], name, t))

SplitAndMarkDim ==
    /\ May("split and mark")
    /\ \E k \in DOMAIN stages : \E name \in LoopNames(stages[k]) :
       \E tmp \in NewNames(stages[k], name), t \in ForTypes \ {"serial"}, f \in Factors, tail \in Tails :
           tmp # name /\ Apply(k, SplitAndMark(stages[k], name, tmp, f, t, tail))

\* allow_race_conditions() and atomic().
AllowRaces ==
    /\ May("allow")
    /\ \E k \in DOMAIN stages :
         \/ Apply(k, [stages[k] EXCEPT !.race = TRUE])
         \/ \E override \in BOOLEAN : Apply(k, [stages[k] EXCEPT !.atomic = TRUE, !.override = override])

\* tile() and gpu_tile() of one or two loops.
TileDims ==
    /\ May("tile")
    /\ \E k \in DOMAIN stages : \E xs \in SetToAllKPermutations(LoopNames(stages[k])) :
       /\ Len(xs) \in 1 .. 2
       /\ \E is \in [DOMAIN xs -> FreshNames], f \in Factors, tail \in Tails :
            /\ Len(xs) = 2 => is[1] # is[2]
            /\ LET fs == [i \in DOMAIN xs |-> f]
                   cut == SplitAll(stages[k], xs, xs, is, fs, tail)
               IN /\ cut # Refused /\ NamesAllReductions(cut, xs \o is)
                  /\ \/ Apply(k, Tile(stages[k], xs, xs, is, fs, tail))
                     \/ Apply(k, GpuTile(stages[k], xs, xs, is, fs, tail))

SingleThread ==
    /\ May("gpu single thread")
    /\ \E k \in DOMAIN stages : \E b, t \in FreshNames \ RVarNames :
           b # t /\ Apply(k, GpuSingleThread(stages[k], b, t))

\* rfactor() of one or more variables of the reduction; once in a behaviour.
Rfactor ==
    /\ May("rfactor") /\ Len(stages) = 1
    /\ LET st == stages[1]
       IN \E rs \in SUBSET (LoopNames(st) \cap RVarNames) \ {{}} :
          \E new \in [rs -> (FreshNames \ RVarNames) \ DimNames(st)] :
            LET preserved == {<<r, new[r]>> : r \in rs}
                lifted == {d \in ToSet(st.dims) : IsRVarDim(d) /\ Last(d.var) \notin rs}
            IN /\ \A r1, r2 \in rs : new[r1] = new[r2] => r1 = r2
               /\ CanFactor(st, preserved)
               \* nothing in the code looks for either
               /\ "rfactor_split" \in Overlooked \/
                    \A i \in DOMAIN st.splits : st.splits[i].old[1] \notin ToSet(st.vars)
               /\ "rfactor_parallel" \in Overlooked \/
                    \A d \in lifted : IsPure(d) \/ ~IsParallel(d.for)
               /\ MergeStage(st, preserved) # Refused
               /\ stages' = <<MergeStage(st, preserved), IntermediateStage(st, preserved)>>
               /\ left' = left - 1

StageNext == \/ SplitDim \/ FuseDims \/ RenameDim \/ ReorderDims \/ MarkDim
             \/ SplitAndMarkDim \/ AllowRaces \/ TileDims \/ SingleThread \/ Rfactor

StageSpec == StageInit /\ [][StageNext]_stageVars

-----------------------------------------------------------------------------
(* Properties *)

\* What the splits of a stage leave of its variables.
LeavesAfter(leaves, s) ==
    CASE s.kind = "split" -> (leaves \ {s.old}) \cup {s.inner, s.outer}
      [] s.kind = "fuse" -> (leaves \ {s.inner, s.outer}) \cup {s.old}
      [] OTHER -> (leaves \ {s.old}) \cup {s.outer}

Leaves(st) ==
    LET d == Derivation(st)
        leaves[n \in 0 .. Len(d)] ==
            IF n = 0 THEN Roots(st) \cup {<<OutermostName>>} ELSE LeavesAfter(leaves[n - 1], d[n])
    IN leaves[Len(d)]

\* Every variable has its type; the outermost loop is always there.
StageTypeOK ==
    /\ left \in Nat
    /\ Len(stages) \in 1 .. 2
    /\ \A st \in ToSet(stages) :
         /\ \A d \in ToSet(st.dims) : /\ d.type \in {"PureVar", "PureRVar", "ImpureRVar"}
                                      /\ IsRVarDim(d) => IsRVar(Last(d.var))
         /\ ToSet(st.rvars) \subseteq Leaves([st EXCEPT !.splits = << >>])
         /\ \A s \in ToSet(st.splits) : s.kind \in {"split", "fuse", "rename", "purify"}
         /\ Last(st.dims).type = "PureVar"

\* The loops of a stage are what the splits leave of its variables, each once:
\* lowering finds a value for every variable, and a loop for every value.
LoopsAreLeaves ==
    /\ StageTypeOK
    /\ \A st \in ToSet(stages) :
        /\ {d.var : d \in ToSet(st.dims)} = Leaves(st)
        /\ Cardinality(Leaves(st)) = Len(st.dims)

\* Whatever was split, fused, renamed, reordered or factored, the loops compute
\* every point of the definition: those of the intermediate, once there is one.
EveryPointComputed ==
    LET st == Last(stages) IN Domain(st) \subseteq {r.point : r \in Runs(st)}

\* An update computes no point twice ("GuardWithIf to avoid recomputing values"),
\* not even one of those that rounding up adds.
NothingRecomputed ==
    \A st \in ToSet(stages) : ~st.init =>
        \A a, b \in Runs(st) : a.point = b.point => a = b

\* A reduction stays in the domain it was given, and so does each partial result
\* that is merged (rounding up may compute others).
ReductionInDomain ==
    \A st \in ToSet(stages) : \A r \in Runs(st) :
        (\A u \in ToSet(st.kept) : r.site[u] < st.ext[u]) =>
            \A v \in ToSet(st.order) : r.point[v] < st.ext[v]

\* With the tails that Auto selects, or ShiftInwards, a pure stage computes nothing
\* outside of what is asked of it, if what is split is no smaller than the factor.
PureStageInDomain ==
    \A st \in ToSet(stages) :
        LET e == Extents(st)
            fits == \A i \in DOMAIN st.splits :
                      st.splits[i].tail = "ShiftInwards" => e[st.splits[i].old] >= st.splits[i].factor
        IN st.init /\ st.inwards /\ fits => \A r \in Runs(st) : r.point \in Domain(st)

\* No stage computes what it must not (AutoTail, and the guards of reductions).
StaysInDomain == ReductionInDomain /\ PureStageInDomain

\* Two points that update one value are computed in the order of the definition,
\* or in any order if the update is associative and commutative, and never at one
\* time unless the user took responsibility.
ReductionOrderKept ==
    \A st \in ToSet(stages) : ~st.init /\ ~st.race /\ ~st.atomic =>
        LET runs == Runs(st)
        IN \A a, b \in runs :
             a.site = b.site /\ Precedes(st, a.point, b.point) =>
                Before(st, a.it, b.it) \/ (st.assoc /\ st.comm /\ Before(st, b.it, a.it))

\* The stage that rfactor leaves merges every partial result that the intermediate
\* computes, and, if the update does not commute, merges them in order.
PartialsMerged ==
    Len(stages) = 2 =>
        LET f == stages[1]
            intm == stages[2]
            merged == Runs(f)
            partial == {p \in Runs(intm) : p.point \in Domain(intm)}
            same(m, p) == /\ \A i \in DOMAIN f.order : m.point[f.order[i]] = p.site[intm.kept[i]]
                          /\ \A v \in ToPaths(intm.args) : m.point[v] = p.point[v]
        IN /\ \A p \in partial : \E m \in merged : same(m, p)
           /\ ~f.comm /\ ~f.race /\ ~f.atomic =>
                \A m, n \in merged : \A p, q \in partial :
                    same(m, p) /\ same(n, q) /\ m.site = n.site /\ Precedes(intm, p.point, q.point)
                      => m.it = n.it \/ Before(f, m.it, n.it)
=============================================================================
