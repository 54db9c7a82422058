----------------------------- MODULE StagePoints ----------------------------
(***************************************************************************)
(* What the loops and splits of a stage compute, for any definition and    *)
(* any list of splits.                                                     *)
(*                                                                         *)
(* The module StageSchedule computes sizes, loops, iterations and points   *)
(* by recursion over the splits.  Here each split is an equation instead,  *)
(* and the recursions are shown to be the only solutions.  StageInv, the   *)
(* inductive invariant, speaks of the valuations that solve the equations; *)
(* it holds when a definition is scheduled first, and the properties of    *)
(* StageSchedule follow from it.  The last part says what a stage needs    *)
(* that has one split more.                                                *)
(***************************************************************************)
EXTENDS StageSchedule, SetSums, SequenceTheorems, TLAPS

-----------------------------------------------------------------------------
(* What the splits say of the variables, read as equations: the chains that *)
(* the module computes are their only solutions.                            *)

Name == {OutermostName} \cup FreshNames \cup RVarNames \cup UNION {DOMAIN def.ext : def \in Definitions}
Path == Seq(Name)
Positive == Nat \ {0}

Forms == {"serial", "extern", "gpu_block", "gpu_thread"} \cup ForTypes
DimRec == [var : Path, for : Forms, api : {"none", "gpu"}, type : {"PureVar", "PureRVar", "ImpureRVar"}]
SplitFields == [kind : {"split", "fuse", "rename"}, old : Path, outer : Path, inner : Path,
                factor : Nat, tail : {"RoundUp", "GuardWithIf", "ShiftInwards"}]
SplitRec == {s \in SplitFields : s.kind = "rename" => s.inner = << >>}
StageRec == [init : BOOLEAN, vars : Seq(Name), args : Seq(Name), rvars : Seq(Path),
             assoc : BOOLEAN, comm : BOOLEAN, race : BOOLEAN, atomic : BOOLEAN, override : BOOLEAN,
             dims : Seq(DimRec), splits : Seq(SplitRec),
             ext : UNION {[D -> Positive] : D \in SUBSET Path},
             order : Seq(Path), impure : SUBSET Path,
             origin : {<< >>}, kept : {<< >>}, inwards : BOOLEAN]

Makes(s) == CASE s.kind = "split" -> {s.inner, s.outer} [] s.kind = "fuse" -> {s.old} [] OTHER -> {s.outer}
Takes(s) == CASE s.kind = "fuse" -> {s.inner, s.outer} [] OTHER -> {s.old}

Base(st) == Roots(st) \cup {<<OutermostName>>}
KnownAt(st, n) == Base(st) \cup UNION {Makes(st.splits[m]) : m \in 1 .. n}
Known(st) == KnownAt(st, Len(st.splits))

\* p was made of the loop l, by one directive or several.
Under(p, l) == Len(p) > Len(l) /\ \A n \in 1 .. Len(l) : p[n] = l[n]

\* Every variable is made before it is taken, is made once, and is taken once.
Proper(st) ==
    \A n \in 1 .. Len(st.splits) :
        /\ Makes(st.splits[n]) \cap KnownAt(st, n - 1) = {}
        /\ Takes(st.splits[n]) \subseteq KnownAt(st, n - 1)
        /\ \A m \in 1 .. n - 1 : Takes(st.splits[n]) \cap Takes(st.splits[m]) = {}
        /\ st.splits[n].kind # "rename" => st.splits[n].inner # st.splits[n].outer
        /\ st.splits[n].kind = "split" => st.splits[n].factor # 0

IsLeaf(st, p) == p \in Known(st) /\ \A m \in 1 .. Len(st.splits) : p \notin Takes(st.splits[m])

Shape(st) ==
    /\ Proper(st)
    /\ \A p : (\E i \in 1 .. Len(st.dims) : p = st.dims[i].var) <=> IsLeaf(st, p)
    /\ \A i, j \in 1 .. Len(st.dims) : Last(st.dims[i].var) = Last(st.dims[j].var) => i = j
    /\ \A i \in 1 .. Len(st.dims), p \in Known(st) : ~Under(p, st.dims[i].var)
    /\ \A p \in Known(st) : p \in Path /\ p # << >>
    /\ Len(st.dims) > 0
    /\ st.dims[Len(st.dims)].type = "PureVar"
    /\ Last(st.dims[Len(st.dims)].var) = OutermostName
    /\ \A i \in 1 .. Len(st.dims) : st.dims[i].type # "PureVar" => Last(st.dims[i].var) \in RVarNames
    /\ \A i \in 1 .. Len(st.rvars) : st.rvars[i] \in Roots(st)
    /\ st.init => st.order = << >>
    /\ st.impure \subseteq ToSet(st.order)

-----------------------------------------------------------------------------
SizeRule(s, e) ==
    CASE s.kind = "split" -> e[s.outer] = (e[s.old] + s.factor - 1) \div s.factor /\ e[s.inner] = s.factor
      [] s.kind = "fuse" -> e[s.old] = e[s.inner] * e[s.outer]
      [] OTHER -> e[s.outer] = e[s.old]

InnerRule(s, inner) ==
    CASE s.kind = "split" -> s.inner \in inner /\ (s.outer \in inner <=> s.old \in inner)
      [] s.kind = "fuse" -> s.old \in inner <=> (s.inner \in inner \/ s.outer \in inner)
      [] OTHER -> s.outer \in inner <=> s.old \in inner

ShiftRule(s, shifted) ==
    CASE s.kind = "split" /\ s.tail = "ShiftInwards" -> s.outer \in shifted /\ s.inner \notin shifted
      [] s.kind = "split" /\ s.tail # "ShiftInwards" ->
            (s.outer \in shifted <=> s.old \in shifted) /\ (s.inner \in shifted <=> s.old \in shifted)
      [] s.kind = "fuse" -> s.old \notin shifted
      [] OTHER -> s.outer \in shifted <=> s.old \in shifted

\* The value of a variable that s takes is that of those that s makes.
Follows(s, e, a) ==
    CASE s.kind = "split" -> a[s.old] = SplitBase(s, e, a) + a[s.inner]
      [] s.kind = "fuse" -> a[s.inner] = a[s.old] % e[s.inner] /\ a[s.outer] = a[s.old] \div e[s.inner]
      [] OTHER -> a[s.old] = a[s.outer]

Sizes(st, e) ==
    /\ e \in [Path -> Positive]
    /\ \A p \in Base(st) : p \in DOMAIN st.ext /\ e[p] = st.ext[p]
    /\ \A i \in 1 .. Len(st.splits) : SizeRule(st.splits[i], e)
    /\ \A i \in 1 .. Len(st.dims) : Last(st.dims[i].var) = OutermostName => e[st.dims[i].var] = 1

Inners(st, inner) ==
    /\ inner \in SUBSET Path /\ inner \cap Base(st) = {}
    /\ \A i \in 1 .. Len(st.splits) : InnerRule(st.splits[i], inner)

Shifts(st, shifted) ==
    /\ shifted \in SUBSET Path /\ shifted \cap Base(st) = {}
    /\ \A i \in 1 .. Len(st.splits) : ShiftRule(st.splits[i], shifted)

\* a gives every variable a value that the splits allow and the conditions let pass.
Solves(st, e, a) == \A i \in 1 .. Len(st.splits) : Follows(st.splits[i], e, a)
Allowed(st, e, a) ==
    /\ a \in [Path -> Int]
    /\ Solves(st, e, a)
    /\ Guarded(st.splits, e, a)

\* The loops run in their ranges.
InRange(st, e, a) == \A i \in 1 .. Len(st.dims) : a[st.dims[i].var] \in 0 .. e[st.dims[i].var] - 1

\* ... and as far as rounding up may make others run further.
Bounded(l, inner) == l \in inner \/ Last(l) \in RVarNames \/ Last(l) = OutermostName
Fine(st, e, inner, a) ==
    /\ Allowed(st, e, a)
    /\ \A i \in 1 .. Len(st.dims) :
          /\ a[st.dims[i].var] >= 0
          /\ Bounded(st.dims[i].var, inner) => a[st.dims[i].var] < e[st.dims[i].var]

Calm(st, e, shifted, a) ==
    /\ Allowed(st, e, a)
    /\ \A i \in 1 .. Len(st.dims) :
          /\ a[st.dims[i].var] >= 0
          /\ st.dims[i].var \notin shifted => a[st.dims[i].var] < e[st.dims[i].var]

Fits(st, e) ==
    \A i \in 1 .. Len(st.splits) :
        st.splits[i].kind = "split" /\ st.splits[i].tail = "ShiftInwards" => e[st.splits[i].old] >= st.splits[i].factor

\* Every point of the domain is computed.
Covers(st, e) ==
    \A p \in [Roots(st) -> Int] : (\A r \in Roots(st) : p[r] \in 0 .. e[r] - 1) =>
        \E a : Allowed(st, e, a) /\ InRange(st, e, a) /\ \A r \in Roots(st) : a[r] = p[r]

\* A reduction stays in its domain.
Bounds(st, e, inner) ==
    \A a : Fine(st, e, inner, a) => \A i \in 1 .. Len(st.order) : a[st.order[i]] < e[st.order[i]]

\* The loops but for those of drop are determined by the roots but for those of free.
Determines(st, e, inner, free, drop) ==
    \A a, b : Fine(st, e, inner, a) /\ Fine(st, e, inner, b) /\ (\A r \in Roots(st) \ free : a[r] = b[r]) =>
        \A i \in 1 .. Len(st.dims) : i \notin drop => a[st.dims[i].var] = b[st.dims[i].var]

Impure(st) == {i \in 1 .. Len(st.dims) : ~IsPure(st.dims[i])}

\* In the reductions, a comes before b; they differ in one at all.
Sooner(st, a, b) ==
    \E i \in Impure(st) :
        /\ a[st.dims[i].var] < b[st.dims[i].var]
        /\ \A j \in Impure(st) : j > i => a[st.dims[j].var] = b[st.dims[j].var]
Differ(st, a, b) == \E i \in Impure(st) : a[st.dims[i].var] # b[st.dims[i].var]

Orders(st, e, inner) ==
    \A a, b : /\ Fine(st, e, inner, a) /\ Fine(st, e, inner, b)
              /\ \A r \in Roots(st) \ st.impure : a[r] = b[r]
              /\ Precedes(st, a, b)
              => Sooner(st, a, b) \/ (st.assoc /\ st.comm /\ Differ(st, a, b))

\* A pure stage stays in its domain as long as it only splits inwards.
PureBounds(st, e, shifted) ==
    st.inwards /\ Fits(st, e) =>
        \A a : Calm(st, e, shifted, a) => \A r \in Roots(st) : a[r] \in 0 .. e[r] - 1

Serial(st) == ~st.race /\ ~st.atomic => \A i \in Impure(st) : ~IsParallel(st.dims[i].for)

Meaning(st, e, inner, shifted) ==
    /\ Sizes(st, e) /\ Inners(st, inner) /\ Shifts(st, shifted)
    /\ Covers(st, e)
    /\ ~st.init => /\ Bounds(st, e, inner)
                   /\ Determines(st, e, inner, {}, {})
                   /\ Determines(st, e, inner, st.impure, Impure(st))
                   /\ Orders(st, e, inner)
    /\ st.init => PureBounds(st, e, shifted)

StageInv(st) ==
    /\ st \in StageRec /\ Shape(st) /\ Serial(st)
    /\ \E e, inner, shifted : Meaning(st, e, inner, shifted)

-----------------------------------------------------------------------------
(* Induction over indices, and with it: a function defined by recursion     *)
(* over the indices of a sequence is the one that it says it is.            *)
LEMMA IndexInduction ==
    ASSUME NEW N \in Nat, NEW T \in SUBSET (0 .. N), 0 \in T,
           \A n \in 1 .. N : n - 1 \in T => n \in T
    PROVE  T = 0 .. N
<1> DEFINE R == (0 .. N) \ T
<1> SUFFICES ASSUME R # {} PROVE FALSE
  OBVIOUS
<1>1. R \in SUBSET Nat
  OBVIOUS
<1> HIDE DEF R
<1>2. PICK n \in R : \A m \in R : n <= m
  BY <1>1, LeastNumber
<1> QED BY <1>2 DEF R

LEMMA DownInduction ==
    ASSUME NEW N \in Nat, NEW T \in SUBSET (0 .. N), N \in T,
           \A n \in 1 .. N : n \in T => n - 1 \in T
    PROVE  T = 0 .. N
<1> DEFINE U == {n \in 0 .. N : N - n \in T}
<1>1. U = 0 .. N
  <2>1. 0 \in U /\ U \in SUBSET (0 .. N)
    OBVIOUS
  <2>2. \A n \in 1 .. N : n - 1 \in U => n \in U
    <3> TAKE n \in 1 .. N
    <3> HAVE n - 1 \in U
    <3>1. N - (n - 1) \in T /\ N - (n - 1) \in 1 .. N
      OBVIOUS
    <3>2. (N - (n - 1)) - 1 \in T
      BY <3>1
    <3>3. (N - (n - 1)) - 1 = N - n
      OBVIOUS
    <3> QED BY <3>2, <3>3
  <2> HIDE DEF U
  <2> QED BY <2>1, <2>2, IndexInduction
<1>2. \A n \in 0 .. N : N - n \in 0 .. N /\ N - (N - n) = n
  OBVIOUS
<1>3. \A n \in 0 .. N : N - n \in U
  BY <1>1, <1>2
<1> QED BY <1>2, <1>3

LEMMA DerivationIs ==
    ASSUME NEW st, st.origin = << >>, NEW D, st.splits \in Seq(D)
    PROVE  Derivation(st) = st.splits
BY DEF Derivation

Longer(its, size) == {Append(it, k) : it \in its, k \in 0 .. size - 1}

LEMMA ExtentsChain ==
    ASSUME NEW st, st.origin = << >>, NEW D, st.splits \in Seq(D)
    PROVE  \E g : /\ g = [n \in 0 .. Len(st.splits) |-> IF n = 0 THEN st.ext ELSE ExtentsAfter(g[n - 1], st.splits[n])]
                  /\ Extents(st) = g[Len(st.splits)]
<1> DEFINE Up(g, k) == g = [n \in 0 .. k |-> IF n = 0 THEN st.ext ELSE ExtentsAfter(g[n - 1], st.splits[n])]
           T == {k \in 0 .. Len(st.splits) : \E g : Up(g, k)}
<1>1. Len(st.splits) \in Nat /\ T \in SUBSET (0 .. Len(st.splits))
  OBVIOUS
<1>2. 0 \in T
  <2>1. Up([n \in 0 .. 0 |-> st.ext], 0)
    OBVIOUS
  <2> HIDE DEF Up
  <2> QED BY <2>1, <1>1
<1>3. ASSUME NEW k \in 1 .. Len(st.splits), k - 1 \in T PROVE k \in T
  <2>1. PICK g : Up(g, k - 1)
    BY <1>3
  <2> DEFINE h == [n \in 0 .. k |-> IF n = k THEN ExtentsAfter(g[k - 1], st.splits[k]) ELSE g[n]]
  <2>2. h[k] = ExtentsAfter(g[k - 1], st.splits[k]) /\ \A n \in 0 .. k - 1 : h[n] = g[n]
    OBVIOUS
  <2>3. \A n \in 0 .. k - 1 : g[n] = IF n = 0 THEN st.ext ELSE ExtentsAfter(g[n - 1], st.splits[n])
    BY <2>1
  <2>4. \A n \in 0 .. k : h[n] = IF n = 0 THEN st.ext ELSE ExtentsAfter(h[n - 1], st.splits[n])
    <3> TAKE n \in 0 .. k
    <3>1. (n = 0 \/ (n - 1 \in 0 .. k - 1 /\ (n = k \/ n \in 0 .. k - 1))) /\ k # 0
      OBVIOUS
    <3> HIDE DEF h
    <3> QED BY <2>2, <2>3, <3>1
  <2>5. Up(h, k)
    <3>1. h = [n \in 0 .. k |-> h[n]]
      OBVIOUS
    <3> HIDE DEF h
    <3> QED BY <2>4, <3>1
  <2> HIDE DEF Up
  <2> QED BY <2>5
<1>4. Len(st.splits) \in T
  <2> HIDE DEF T
  <2>1. T = 0 .. Len(st.splits)
    BY <1>1, <1>2, <1>3, IndexInduction
  <2> QED BY <1>1, <2>1
<1>5. \E g : Up(g, Len(st.splits))
  BY <1>4
<1>6. Extents(st) = (CHOOSE g : Up(g, Len(st.splits)))[Len(st.splits)]
  <2>1. Derivation(st) = st.splits
    BY DerivationIs
  <2> QED BY <2>1 DEF Extents
<1> HIDE DEF Up
<1>7. Up(CHOOSE g : Up(g, Len(st.splits)), Len(st.splits))
  BY <1>5
<1> QED BY <1>6, <1>7 DEF Up

LEMMA LeavesChain ==
    ASSUME NEW st, st.origin = << >>, NEW D, st.splits \in Seq(D)
    PROVE  \E g : /\ g = [n \in 0 .. Len(st.splits) |-> IF n = 0 THEN Base(st) ELSE LeavesAfter(g[n - 1], st.splits[n])]
                  /\ Leaves(st) = g[Len(st.splits)]
<1> DEFINE Up(g, k) == g = [n \in 0 .. k |-> IF n = 0 THEN Base(st) ELSE LeavesAfter(g[n - 1], st.splits[n])]
           T == {k \in 0 .. Len(st.splits) : \E g : Up(g, k)}
<1>1. Len(st.splits) \in Nat /\ T \in SUBSET (0 .. Len(st.splits))
  OBVIOUS
<1>2. 0 \in T
  <2>1. Up([n \in 0 .. 0 |-> Base(st)], 0)
    OBVIOUS
  <2> HIDE DEF Up
  <2> QED BY <2>1, <1>1
<1>3. ASSUME NEW k \in 1 .. Len(st.splits), k - 1 \in T PROVE k \in T
  <2>1. PICK g : Up(g, k - 1)
    BY <1>3
  <2> DEFINE h == [n \in 0 .. k |-> IF n = k THEN LeavesAfter(g[k - 1], st.splits[k]) ELSE g[n]]
  <2>2. h[k] = LeavesAfter(g[k - 1], st.splits[k]) /\ \A n \in 0 .. k - 1 : h[n] = g[n]
    OBVIOUS
  <2>3. \A n \in 0 .. k - 1 : g[n] = IF n = 0 THEN Base(st) ELSE LeavesAfter(g[n - 1], st.splits[n])
    BY <2>1
  <2>4. \A n \in 0 .. k : h[n] = IF n = 0 THEN Base(st) ELSE LeavesAfter(h[n - 1], st.splits[n])
    <3> TAKE n \in 0 .. k
    <3>1. (n = 0 \/ (n - 1 \in 0 .. k - 1 /\ (n = k \/ n \in 0 .. k - 1))) /\ k # 0
      OBVIOUS
    <3> HIDE DEF h
    <3> QED BY <2>2, <2>3, <3>1
  <2>5. Up(h, k)
    <3>1. h = [n \in 0 .. k |-> h[n]]
      OBVIOUS
    <3> HIDE DEF h
    <3> QED BY <2>4, <3>1
  <2> HIDE DEF Up
  <2> QED BY <2>5
<1>4. Len(st.splits) \in T
  <2> HIDE DEF T
  <2>1. T = 0 .. Len(st.splits)
    BY <1>1, <1>2, <1>3, IndexInduction
  <2> QED BY <1>1, <2>1
<1>5. \E g : Up(g, Len(st.splits))
  BY <1>4
<1>6. Leaves(st) = (CHOOSE g : Up(g, Len(st.splits)))[Len(st.splits)]
  <2>1. Derivation(st) = st.splits
    BY DerivationIs
  <2> QED BY <2>1 DEF Leaves, Base
<1> HIDE DEF Up
<1>7. Up(CHOOSE g : Up(g, Len(st.splits)), Len(st.splits))
  BY <1>5
<1> QED BY <1>6, <1>7 DEF Up

LEMMA InnerChain ==
    ASSUME NEW D, NEW splits \in Seq(D)
    PROVE  \E g : /\ g = [n \in 0 .. Len(splits) |-> IF n = 0 THEN {} ELSE InnerAfter(g[n - 1], splits[n])]
                  /\ InnerVars(splits) = g[Len(splits)]
<1> DEFINE Up(g, k) == g = [n \in 0 .. k |-> IF n = 0 THEN {} ELSE InnerAfter(g[n - 1], splits[n])]
           T == {k \in 0 .. Len(splits) : \E g : Up(g, k)}
<1>1. Len(splits) \in Nat /\ T \in SUBSET (0 .. Len(splits))
  OBVIOUS
<1>2. 0 \in T
  <2>1. Up([n \in 0 .. 0 |-> {}], 0)
    OBVIOUS
  <2> HIDE DEF Up
  <2> QED BY <2>1, <1>1
<1>3. ASSUME NEW k \in 1 .. Len(splits), k - 1 \in T PROVE k \in T
  <2>1. PICK g : Up(g, k - 1)
    BY <1>3
  <2> DEFINE h == [n \in 0 .. k |-> IF n = k THEN InnerAfter(g[k - 1], splits[k]) ELSE g[n]]
  <2>2. h[k] = InnerAfter(g[k - 1], splits[k]) /\ \A n \in 0 .. k - 1 : h[n] = g[n]
    OBVIOUS
  <2>3. \A n \in 0 .. k - 1 : g[n] = IF n = 0 THEN {} ELSE InnerAfter(g[n - 1], splits[n])
    BY <2>1
  <2>4. \A n \in 0 .. k : h[n] = IF n = 0 THEN {} ELSE InnerAfter(h[n - 1], splits[n])
    <3> TAKE n \in 0 .. k
    <3>1. (n = 0 \/ (n - 1 \in 0 .. k - 1 /\ (n = k \/ n \in 0 .. k - 1))) /\ k # 0
      OBVIOUS
    <3> HIDE DEF h
    <3> QED BY <2>2, <2>3, <3>1
  <2>5. Up(h, k)
    <3>1. h = [n \in 0 .. k |-> h[n]]
      OBVIOUS
    <3> HIDE DEF h
    <3> QED BY <2>4, <3>1
  <2> HIDE DEF Up
  <2> QED BY <2>5
<1>4. Len(splits) \in T
  <2> HIDE DEF T
  <2>1. T = 0 .. Len(splits)
    BY <1>1, <1>2, <1>3, IndexInduction
  <2> QED BY <1>1, <2>1
<1>5. \E g : Up(g, Len(splits))
  BY <1>4
<1>6. InnerVars(splits) = (CHOOSE g : Up(g, Len(splits)))[Len(splits)]
  BY DEF InnerVars
<1> HIDE DEF Up
<1>7. Up(CHOOSE g : Up(g, Len(splits)), Len(splits))
  BY <1>5
<1> QED BY <1>6, <1>7 DEF Up

LEMMA ShiftedChain ==
    ASSUME NEW D, NEW splits \in Seq(D)
    PROVE  \E g : /\ g = [n \in 0 .. Len(splits) |-> IF n = 0 THEN << >> ELSE ShiftedAfter(g[n - 1], splits[n])]
                  /\ ShiftedInwards(splits) = g[Len(splits)]
<1> DEFINE Up(g, k) == g = [n \in 0 .. k |-> IF n = 0 THEN << >> ELSE ShiftedAfter(g[n - 1], splits[n])]
           T == {k \in 0 .. Len(splits) : \E g : Up(g, k)}
<1>1. Len(splits) \in Nat /\ T \in SUBSET (0 .. Len(splits))
  OBVIOUS
<1>2. 0 \in T
  <2>1. Up([n \in 0 .. 0 |-> << >>], 0)
    OBVIOUS
  <2> HIDE DEF Up
  <2> QED BY <2>1, <1>1
<1>3. ASSUME NEW k \in 1 .. Len(splits), k - 1 \in T PROVE k \in T
  <2>1. PICK g : Up(g, k - 1)
    BY <1>3
  <2> DEFINE h == [n \in 0 .. k |-> IF n = k THEN ShiftedAfter(g[k - 1], splits[k]) ELSE g[n]]
  <2>2. h[k] = ShiftedAfter(g[k - 1], splits[k]) /\ \A n \in 0 .. k - 1 : h[n] = g[n]
    OBVIOUS
  <2>3. \A n \in 0 .. k - 1 : g[n] = IF n = 0 THEN << >> ELSE ShiftedAfter(g[n - 1], splits[n])
    BY <2>1
  <2>4. \A n \in 0 .. k : h[n] = IF n = 0 THEN << >> ELSE ShiftedAfter(h[n - 1], splits[n])
    <3> TAKE n \in 0 .. k
    <3>1. (n = 0 \/ (n - 1 \in 0 .. k - 1 /\ (n = k \/ n \in 0 .. k - 1))) /\ k # 0
      OBVIOUS
    <3> HIDE DEF h
    <3> QED BY <2>2, <2>3, <3>1
  <2>5. Up(h, k)
    <3>1. h = [n \in 0 .. k |-> h[n]]
      OBVIOUS
    <3> HIDE DEF h
    <3> QED BY <2>4, <3>1
  <2> HIDE DEF Up
  <2> QED BY <2>5
<1>4. Len(splits) \in T
  <2> HIDE DEF T
  <2>1. T = 0 .. Len(splits)
    BY <1>1, <1>2, <1>3, IndexInduction
  <2> QED BY <1>1, <2>1
<1>5. \E g : Up(g, Len(splits))
  BY <1>4
<1>6. ShiftedInwards(splits) = (CHOOSE g : Up(g, Len(splits)))[Len(splits)]
  BY DEF ShiftedInwards
<1> HIDE DEF Up
<1>7. Up(CHOOSE g : Up(g, Len(splits)), Len(splits))
  BY <1>5
<1> QED BY <1>6, <1>7 DEF Up

LEMMA IterationsChain ==
    ASSUME NEW st, NEW D, st.dims \in Seq(D)
    PROVE  \E g : /\ g = [n \in 0 .. Len(st.dims) |-> IF n = 0 THEN {<< >>} ELSE Longer(g[n - 1], Extents(st)[st.dims[n].var])]
                  /\ Iterations(st) = g[Len(st.dims)]
<1> DEFINE Up(g, k) == g = [n \in 0 .. k |-> IF n = 0 THEN {<< >>} ELSE Longer(g[n - 1], Extents(st)[st.dims[n].var])]
           T == {k \in 0 .. Len(st.dims) : \E g : Up(g, k)}
<1>1. Len(st.dims) \in Nat /\ T \in SUBSET (0 .. Len(st.dims))
  OBVIOUS
<1>2. 0 \in T
  <2>1. Up([n \in 0 .. 0 |-> {<< >>}], 0)
    OBVIOUS
  <2> HIDE DEF Up
  <2> QED BY <2>1, <1>1
<1>3. ASSUME NEW k \in 1 .. Len(st.dims), k - 1 \in T PROVE k \in T
  <2>1. PICK g : Up(g, k - 1)
    BY <1>3
  <2> DEFINE h == [n \in 0 .. k |-> IF n = k THEN Longer(g[k - 1], Extents(st)[st.dims[k].var]) ELSE g[n]]
  <2>2. h[k] = Longer(g[k - 1], Extents(st)[st.dims[k].var]) /\ \A n \in 0 .. k - 1 : h[n] = g[n]
    OBVIOUS
  <2>3. \A n \in 0 .. k - 1 : g[n] = IF n = 0 THEN {<< >>} ELSE Longer(g[n - 1], Extents(st)[st.dims[n].var])
    BY <2>1
  <2>4. \A n \in 0 .. k : h[n] = IF n = 0 THEN {<< >>} ELSE Longer(h[n - 1], Extents(st)[st.dims[n].var])
    <3> TAKE n \in 0 .. k
    <3>1. (n = 0 \/ (n - 1 \in 0 .. k - 1 /\ (n = k \/ n \in 0 .. k - 1))) /\ k # 0
      OBVIOUS
    <3> HIDE DEF h
    <3> QED BY <2>2, <2>3, <3>1
  <2>5. Up(h, k)
    <3>1. h = [n \in 0 .. k |-> h[n]]
      OBVIOUS
    <3> HIDE DEF h
    <3> QED BY <2>4, <3>1
  <2> HIDE DEF Up
  <2> QED BY <2>5
<1>4. Len(st.dims) \in T
  <2> HIDE DEF T
  <2>1. T = 0 .. Len(st.dims)
    BY <1>1, <1>2, <1>3, IndexInduction
  <2> QED BY <1>1, <2>1
<1>5. \E g : Up(g, Len(st.dims))
  BY <1>4
<1>6. Iterations(st) = (CHOOSE g : Up(g, Len(st.dims)))[Len(st.dims)]
  BY DEF Iterations, Longer
<1> HIDE DEF Up
<1>7. Up(CHOOSE g : Up(g, Len(st.dims)), Len(st.dims))
  BY <1>5
<1> QED BY <1>6, <1>7 DEF Up

-----------------------------------------------------------------------------
(* The computed chains solve the equations.                                 *)
LEMMA KnownGrows ==
    ASSUME NEW st, NEW n \in Nat
    PROVE  /\ KnownAt(st, 0) = Base(st)
           /\ n > 0 => KnownAt(st, n) = KnownAt(st, n - 1) \cup Makes(st.splits[n])
           /\ \A m \in 0 .. n : KnownAt(st, m) \subseteq KnownAt(st, n)
<1>1. KnownAt(st, 0) = Base(st)
  <2>1. 1 .. 0 = {}
    OBVIOUS
  <2> QED BY <2>1 DEF KnownAt
<1>2. ASSUME n > 0 PROVE KnownAt(st, n) = KnownAt(st, n - 1) \cup Makes(st.splits[n])
  <2>1. 1 .. n = (1 .. n - 1) \cup {n}
    BY <1>2
  <2> QED BY <2>1 DEF KnownAt
<1>3. \A m \in 0 .. n : KnownAt(st, m) \subseteq KnownAt(st, n)
  <2> TAKE m \in 0 .. n
  <2>1. 1 .. m \subseteq 1 .. n
    OBVIOUS
  <2> QED BY <2>1 DEF KnownAt
<1> QED BY <1>1, <1>2, <1>3

LEMMA SplitTyped ==
    ASSUME NEW st \in StageRec, NEW n \in 1 .. Len(st.splits)
    PROVE  /\ st.splits \in Seq(SplitRec) /\ Len(st.splits) \in Nat /\ st.splits[n] \in SplitRec
           /\ st.origin = << >>
           /\ st.splits[n].kind \in {"split", "fuse", "rename"}
<1>1. st.splits \in Seq(SplitRec) /\ st.origin = << >>
  BY DEF StageRec
<1>2. Len(st.splits) \in Nat /\ st.splits[n] \in SplitRec
  BY <1>1
<1>3. st.splits[n].kind \in {"split", "fuse", "rename"}
  BY <1>2 DEF SplitRec, SplitFields
<1> QED BY <1>1, <1>2, <1>3

LEMMA ExtentsSolve ==
    ASSUME NEW st \in StageRec, Proper(st), NEW e, Sizes(st, e)
    PROVE  \A p \in Known(st) : Extents(st)[p] = e[p]
<1> DEFINE N == Len(st.splits)
<1>1. N \in Nat /\ st.splits \in Seq(SplitRec) /\ st.origin = << >>
  BY DEF StageRec
<1>2. PICK g : /\ g = [n \in 0 .. N |-> IF n = 0 THEN st.ext ELSE ExtentsAfter(g[n - 1], st.splits[n])]
               /\ Extents(st) = g[N]
  BY <1>1, ExtentsChain
<1> DEFINE Right(n) == \A p \in KnownAt(st, n) : p \in DOMAIN g[n] /\ g[n][p] = e[p]
           T == {n \in 0 .. N : Right(n)}
<1>3. \A n \in 0 .. N : g[n] = IF n = 0 THEN st.ext ELSE ExtentsAfter(g[n - 1], st.splits[n])
  BY <1>2
<1>4. 0 \in T
  <2>1. Right(0)
    BY <1>1, <1>3, KnownGrows DEF Sizes
  <2> QED BY <2>1, <1>1
<1>5. \A n \in 1 .. N : n - 1 \in T => n \in T
  <2> TAKE n \in 1 .. N
  <2> HAVE n - 1 \in T
  <2> DEFINE s == st.splits[n]
             f == g[n - 1]
  <2>1. Right(n - 1)
    OBVIOUS
  <2>2. Takes(s) \subseteq KnownAt(st, n - 1) /\ SizeRule(s, e) /\ s.kind \in {"split", "fuse", "rename"}
        /\ (s.kind # "rename" => s.inner # s.outer)
    BY <1>1, SplitTyped DEF Proper, Sizes
  <2>3. g[n] = ExtentsAfter(f, s)
    BY <1>3
  <2>4. KnownAt(st, n) = KnownAt(st, n - 1) \cup Makes(s)
    BY <1>1, KnownGrows
  <2>5. \A p \in Takes(s) : p \in DOMAIN f /\ f[p] = e[p]
    BY <2>1, <2>2
  <2> HIDE DEF s, f
  <2>6. ASSUME NEW p \in KnownAt(st, n) PROVE p \in DOMAIN g[n] /\ g[n][p] = e[p]
    <3>0. p \in KnownAt(st, n - 1) => p \in DOMAIN f /\ f[p] = e[p]
      BY <2>1 DEF f
    <3>1. CASE s.kind = "split"
      BY <2>2, <2>3, <2>4, <2>5, <2>6, <3>0, <3>1 DEF ExtentsAfter, SizeRule, Makes, Takes, Put
    <3>2. CASE s.kind = "fuse"
      BY <2>2, <2>3, <2>4, <2>5, <2>6, <3>0, <3>2 DEF ExtentsAfter, SizeRule, Makes, Takes, Put
    <3>3. CASE s.kind = "rename"
      BY <2>2, <2>3, <2>4, <2>5, <2>6, <3>0, <3>3 DEF ExtentsAfter, SizeRule, Makes, Takes, Put
    <3> QED BY <2>2, <3>1, <3>2, <3>3
  <2> QED BY <2>6
<1>6. N \in T
  <2>1. T \in SUBSET (0 .. N)
    OBVIOUS
  <2> HIDE DEF T, N
  <2> QED BY <1>1, <1>4, <1>5, <2>1, IndexInduction
<1> QED BY <1>2, <1>6 DEF Known

LEMMA InnerSolve ==
    ASSUME NEW st \in StageRec, Proper(st), NEW inner, Inners(st, inner)
    PROVE  \A p \in Known(st) : p \in InnerVars(st.splits) <=> p \in inner
<1> DEFINE N == Len(st.splits)
<1>1. N \in Nat /\ st.splits \in Seq(SplitRec)
  BY DEF StageRec
<1>2. PICK g : /\ g = [n \in 0 .. N |-> IF n = 0 THEN {} ELSE InnerAfter(g[n - 1], st.splits[n])]
               /\ InnerVars(st.splits) = g[N]
  BY <1>1, InnerChain
<1> DEFINE Right(n) == g[n] = inner \cap KnownAt(st, n)
           T == {n \in 0 .. N : Right(n)}
<1>3. \A n \in 0 .. N : g[n] = IF n = 0 THEN {} ELSE InnerAfter(g[n - 1], st.splits[n])
  BY <1>2
<1>4. 0 \in T
  <2>1. Right(0)
    BY <1>1, <1>3, KnownGrows DEF Inners
  <2> QED BY <2>1, <1>1
<1>5. \A n \in 1 .. N : n - 1 \in T => n \in T
  <2> TAKE n \in 1 .. N
  <2> HAVE n - 1 \in T
  <2> DEFINE s == st.splits[n]
             f == g[n - 1]
             K == KnownAt(st, n - 1)
  <2>1. f = inner \cap K
    OBVIOUS
  <2>2. /\ Takes(s) \subseteq K /\ Makes(s) \cap K = {}
        /\ InnerRule(s, inner) /\ s.kind \in {"split", "fuse", "rename"}
    BY <1>1, SplitTyped DEF Proper, Inners
  <2>3. g[n] = InnerAfter(f, s)
    BY <1>3
  <2>4. KnownAt(st, n) = K \cup Makes(s)
    BY <1>1, KnownGrows
  <2> HIDE DEF s, f, K
  <2>5. g[n] = inner \cap (K \cup Makes(s))
    <3>1. CASE s.kind = "split"
      BY <2>1, <2>2, <2>3, <3>1 DEF InnerAfter, InnerRule, Makes, Takes
    <3>2. CASE s.kind = "fuse"
      BY <2>1, <2>2, <2>3, <3>2 DEF InnerAfter, InnerRule, Makes, Takes
    <3>3. CASE s.kind = "rename"
      BY <2>1, <2>2, <2>3, <3>3 DEF InnerAfter, InnerRule, Makes, Takes
    <3> QED BY <2>2, <3>1, <3>2, <3>3
  <2> QED BY <2>4, <2>5
<1>6. N \in T
  <2>1. T \in SUBSET (0 .. N)
    OBVIOUS
  <2> HIDE DEF T, N
  <2> QED BY <1>1, <1>4, <1>5, <2>1, IndexInduction
<1> QED BY <1>2, <1>6 DEF Known

LEMMA ShiftSolve ==
    ASSUME NEW st \in StageRec, Proper(st), NEW shifted, Shifts(st, shifted)
    PROVE  \A p \in Known(st) : p \in DOMAIN ShiftedInwards(st.splits) <=> p \in shifted
<1> DEFINE N == Len(st.splits)
<1>1. N \in Nat /\ st.splits \in Seq(SplitRec)
  BY DEF StageRec
<1>2. PICK g : /\ g = [n \in 0 .. N |-> IF n = 0 THEN << >> ELSE ShiftedAfter(g[n - 1], st.splits[n])]
               /\ ShiftedInwards(st.splits) = g[N]
  BY <1>1, ShiftedChain
<1> DEFINE Right(n) == DOMAIN g[n] = shifted \cap KnownAt(st, n)
           T == {n \in 0 .. N : Right(n)}
<1>3. \A n \in 0 .. N : g[n] = IF n = 0 THEN << >> ELSE ShiftedAfter(g[n - 1], st.splits[n])
  BY <1>2
<1>4. 0 \in T
  <2>1. DOMAIN g[0] = {}
    BY <1>1, <1>3
  <2>2. Right(0)
    BY <1>1, <2>1, KnownGrows DEF Shifts
  <2> QED BY <2>2, <1>1
<1>5. \A n \in 1 .. N : n - 1 \in T => n \in T
  <2> TAKE n \in 1 .. N
  <2> HAVE n - 1 \in T
  <2> DEFINE s == st.splits[n]
             f == g[n - 1]
             K == KnownAt(st, n - 1)
  <2>1. DOMAIN f = shifted \cap K
    OBVIOUS
  <2>2. /\ Takes(s) \subseteq K /\ Makes(s) \cap K = {}
        /\ ShiftRule(s, shifted) /\ s.kind \in {"split", "fuse", "rename"}
    BY <1>1, SplitTyped DEF Proper, Shifts
  <2>3. g[n] = ShiftedAfter(f, s)
    BY <1>3
  <2>4. KnownAt(st, n) = K \cup Makes(s)
    BY <1>1, KnownGrows
  <2> HIDE DEF s, f, K
  <2>5. DOMAIN g[n] = shifted \cap (K \cup Makes(s))
    <3>1. CASE s.kind = "split"
      BY <2>1, <2>2, <2>3, <3>1 DEF ShiftedAfter, ShiftRule, Makes, Takes, Put
    <3>2. CASE s.kind = "fuse"
      BY <2>1, <2>2, <2>3, <3>2 DEF ShiftedAfter, ShiftRule, Makes, Takes, Put
    <3>3. CASE s.kind = "rename"
      BY <2>1, <2>2, <2>3, <3>3 DEF ShiftedAfter, ShiftRule, Makes, Takes, Put
    <3> QED BY <2>2, <3>1, <3>2, <3>3
  <2> QED BY <2>4, <2>5
<1>6. N \in T
  <2>1. T \in SUBSET (0 .. N)
    OBVIOUS
  <2> HIDE DEF T, N
  <2> QED BY <1>1, <1>4, <1>5, <2>1, IndexInduction
<1> QED BY <1>2, <1>6 DEF Known

LEMMA LeavesSolve ==
    ASSUME NEW st \in StageRec, Proper(st)
    PROVE  \A p : p \in Leaves(st) <=> IsLeaf(st, p)
<1> DEFINE N == Len(st.splits)
           Taken(n, p) == \E m \in 1 .. n : p \in Takes(st.splits[m])
<1>1. N \in Nat /\ st.splits \in Seq(SplitRec) /\ st.origin = << >>
  BY DEF StageRec
<1>2. PICK g : /\ g = [n \in 0 .. N |-> IF n = 0 THEN Base(st) ELSE LeavesAfter(g[n - 1], st.splits[n])]
               /\ Leaves(st) = g[N]
  BY <1>1, LeavesChain
<1> DEFINE Right(n) == \A p : p \in g[n] <=> p \in KnownAt(st, n) /\ ~Taken(n, p)
           T == {n \in 0 .. N : Right(n)}
<1>3. \A n \in 0 .. N : g[n] = IF n = 0 THEN Base(st) ELSE LeavesAfter(g[n - 1], st.splits[n])
  BY <1>2
<1>4. 0 \in T
  <2>1. g[0] = Base(st)
    BY <1>1, <1>3
  <2>2. Right(0)
    BY <1>1, <2>1, KnownGrows
  <2> QED BY <2>2, <1>1
<1>5. \A n \in 1 .. N : n - 1 \in T => n \in T
  <2> TAKE n \in 1 .. N
  <2> HAVE n - 1 \in T
  <2> DEFINE s == st.splits[n]
             f == g[n - 1]
             K == KnownAt(st, n - 1)
             Was(p) == Taken(n - 1, p)
  <2>1. \A p : p \in f <=> p \in K /\ ~Was(p)
    OBVIOUS
  <2>2. /\ Takes(s) \subseteq K /\ Makes(s) \cap K = {}
        /\ s.kind \in {"split", "fuse", "rename"}
        /\ \A m \in 1 .. n - 1 : Takes(s) \cap Takes(st.splits[m]) = {}
    BY <1>1, SplitTyped DEF Proper
  <2>3. g[n] = LeavesAfter(f, s)
    BY <1>3
  <2>4. KnownAt(st, n) = K \cup Makes(s)
    BY <1>1, KnownGrows
  <2>5. \A p : Taken(n, p) <=> Was(p) \/ p \in Takes(s)
    <3>1. 1 .. n = (1 .. n - 1) \cup {n}
      OBVIOUS
    <3> QED BY <3>1
  <2>6. \A p : Was(p) => p \in K
    <3> TAKE p
    <3> HAVE Was(p)
    <3>1. PICK m \in 1 .. n - 1 : p \in Takes(st.splits[m])
      OBVIOUS
    <3>2. p \in KnownAt(st, m - 1) /\ m - 1 \in 0 .. n - 1 /\ n - 1 \in Nat
      BY <1>1, <3>1 DEF Proper
    <3> QED BY <3>2, KnownGrows
  <2> HIDE DEF s, f, K, Was, Taken
  <2>7. \A p : p \in g[n] <=> p \in K \cup Makes(s) /\ ~(Was(p) \/ p \in Takes(s))
    <3>1. CASE s.kind = "split"
      BY <2>1, <2>2, <2>3, <2>6, <3>1 DEF LeavesAfter, Makes, Takes
    <3>2. CASE s.kind = "fuse"
      BY <2>1, <2>2, <2>3, <2>6, <3>2 DEF LeavesAfter, Makes, Takes
    <3>3. CASE s.kind = "rename"
      BY <2>1, <2>2, <2>3, <2>6, <3>3 DEF LeavesAfter, Makes, Takes
    <3> QED BY <2>2, <3>1, <3>2, <3>3
  <2> QED BY <2>4, <2>5, <2>7
<1>6. N \in T
  <2>1. T \in SUBSET (0 .. N)
    OBVIOUS
  <2> HIDE DEF T, N
  <2> QED BY <1>1, <1>4, <1>5, <2>1, IndexInduction
<1> QED BY <1>2, <1>6 DEF Known, IsLeaf

-----------------------------------------------------------------------------
(* A variable is made by one split, and taken by one after it.              *)
LEMMA MadeOnce ==
    ASSUME NEW st, Len(st.splits) \in Nat, Proper(st), NEW n \in 1 .. Len(st.splits)
    PROVE  /\ Makes(st.splits[n]) \subseteq Known(st) /\ Takes(st.splits[n]) \subseteq Known(st)
           /\ Makes(st.splits[n]) \cap Base(st) = {}
           /\ \A m \in 1 .. Len(st.splits) :
                 /\ m # n => Makes(st.splits[n]) \cap Makes(st.splits[m]) = {}
                 /\ m # n => Takes(st.splits[n]) \cap Takes(st.splits[m]) = {}
                 /\ m <= n => Makes(st.splits[n]) \cap Takes(st.splits[m]) = {}
<1> DEFINE N == Len(st.splits)
<1>1. \A k \in 1 .. N : /\ Makes(st.splits[k]) \subseteq KnownAt(st, k)
                        /\ Takes(st.splits[k]) \subseteq KnownAt(st, k - 1)
                        /\ Makes(st.splits[k]) \cap KnownAt(st, k - 1) = {}
                        /\ \A m \in 1 .. k - 1 : Takes(st.splits[k]) \cap Takes(st.splits[m]) = {}
  <2> TAKE k \in 1 .. N
  <2>1. k \in Nat /\ k > 0
    OBVIOUS
  <2>2. KnownAt(st, k) = KnownAt(st, k - 1) \cup Makes(st.splits[k])
    BY <2>1, KnownGrows
  <2> QED BY <2>2 DEF Proper
<1>2. \A k, m \in 0 .. N : k <= m => KnownAt(st, k) \subseteq KnownAt(st, m)
  BY KnownGrows
<1>3. /\ Makes(st.splits[n]) \subseteq Known(st) /\ Takes(st.splits[n]) \subseteq Known(st)
      /\ Makes(st.splits[n]) \cap Base(st) = {}
  <2>1. n \in 0 .. N /\ n - 1 \in 0 .. N /\ N \in 0 .. N /\ 0 \in 0 .. N
    OBVIOUS
  <2>2. KnownAt(st, n) \subseteq Known(st) /\ KnownAt(st, n - 1) \subseteq Known(st)
    BY <1>2, <2>1 DEF Known
  <2>3. Base(st) \subseteq KnownAt(st, n - 1)
    BY DEF KnownAt
  <2> QED BY <1>1, <2>2, <2>3
<1>4. ASSUME NEW m \in 1 .. N, m < n
      PROVE  /\ Makes(st.splits[n]) \cap Makes(st.splits[m]) = {}
             /\ Takes(st.splits[n]) \cap Takes(st.splits[m]) = {}
             /\ Makes(st.splits[n]) \cap Takes(st.splits[m]) = {}
  <2>1. m - 1 \in 0 .. N /\ m \in 0 .. N /\ n - 1 \in 0 .. N /\ m <= n - 1 /\ m - 1 <= n - 1 /\ m \in 1 .. n - 1
    BY <1>4
  <2>2. KnownAt(st, m) \subseteq KnownAt(st, n - 1) /\ KnownAt(st, m - 1) \subseteq KnownAt(st, n - 1)
    BY <1>2, <2>1
  <2> QED BY <1>1, <2>1, <2>2
<1>5. ASSUME NEW m \in 1 .. N, m > n
      PROVE  /\ Makes(st.splits[n]) \cap Makes(st.splits[m]) = {}
             /\ Takes(st.splits[n]) \cap Takes(st.splits[m]) = {}
  <2>1. n - 1 \in 0 .. N /\ n \in 0 .. N /\ m - 1 \in 0 .. N /\ n <= m - 1 /\ n \in 1 .. m - 1
    BY <1>5
  <2>2. KnownAt(st, n) \subseteq KnownAt(st, m - 1)
    BY <1>2, <2>1
  <2> QED BY <1>1, <2>1, <2>2
<1>6. Makes(st.splits[n]) \cap Takes(st.splits[n]) = {}
  BY <1>1
<1>7. \A m \in 1 .. N : m < n \/ m = n \/ m > n
  OBVIOUS
<1> QED BY <1>3, <1>4, <1>5, <1>6, <1>7

LEMMA IterationsSolve ==
    ASSUME NEW st, NEW D, st.dims \in Seq(D), NEW e,
           \A n \in 1 .. Len(st.dims) : Extents(st)[st.dims[n].var] = e[st.dims[n].var]
    PROVE  \A it : it \in Iterations(st) <=>
                      /\ it \in Seq(Int) /\ Len(it) = Len(st.dims)
                      /\ \A n \in 1 .. Len(st.dims) : it[n] \in 0 .. e[st.dims[n].var] - 1
<1> DEFINE N == Len(st.dims)
           size(n) == e[st.dims[n].var]
<1>1. N \in Nat
  OBVIOUS
<1>2. PICK g : /\ g = [n \in 0 .. N |-> IF n = 0 THEN {<< >>} ELSE Longer(g[n - 1], Extents(st)[st.dims[n].var])]
               /\ Iterations(st) = g[N]
  BY IterationsChain
<1> DEFINE Right(n) == \A it : it \in g[n] <=> /\ it \in Seq(Int) /\ Len(it) = n
                                               /\ \A k \in 1 .. n : it[k] \in 0 .. size(k) - 1
           T == {n \in 0 .. N : Right(n)}
<1>3. \A n \in 0 .. N : g[n] = IF n = 0 THEN {<< >>} ELSE Longer(g[n - 1], size(n))
  <2> TAKE n \in 0 .. N
  <2>1. n = 0 \/ n \in 1 .. N
    OBVIOUS
  <2> QED BY <1>2, <2>1
<1>4. 0 \in T
  <2>1. g[0] = {<< >>}
    BY <1>1, <1>3
  <2>2. \A it : it = << >> <=> it \in Seq(Int) /\ Len(it) = 0
    BY EmptySeq
  <2>3. \A it : it \in g[0] <=> it \in Seq(Int) /\ Len(it) = 0
    BY <2>1, <2>2
  <2>4. 1 .. 0 = {}
    OBVIOUS
  <2> HIDE DEF size
  <2>5. Right(0)
    BY <2>3, <2>4
  <2> QED BY <2>5, <1>1
<1>5. \A n \in 1 .. N : n - 1 \in T => n \in T
  <2> TAKE n \in 1 .. N
  <2> HAVE n - 1 \in T
  <2>1. Right(n - 1)
    OBVIOUS
  <2>2. g[n] = Longer(g[n - 1], size(n))
    BY <1>3
  <2> HIDE DEF size
  <2>3. Right(n)
    <3>1. ASSUME NEW it \in g[n]
          PROVE  it \in Seq(Int) /\ Len(it) = n /\ \A k \in 1 .. n : it[k] \in 0 .. size(k) - 1
      <4>1. PICK i \in g[n - 1], k \in 0 .. size(n) - 1 : it = Append(i, k)
        BY <2>2 DEF Longer
      <4>2. i \in Seq(Int) /\ Len(i) = n - 1 /\ \A j \in 1 .. n - 1 : i[j] \in 0 .. size(j) - 1
        BY <2>1
      <4> QED BY <4>1, <4>2
    <3>2. ASSUME NEW it \in Seq(Int), Len(it) = n, \A k \in 1 .. n : it[k] \in 0 .. size(k) - 1
          PROVE  it \in g[n]
      <4> DEFINE i == [j \in 1 .. n - 1 |-> it[j]]
      <4>1. i \in Seq(Int) /\ Len(i) = n - 1 /\ \A j \in 1 .. n - 1 : i[j] \in 0 .. size(j) - 1
        BY <3>2
      <4>2. it = Append(i, it[n])
        BY <3>2, <4>1
      <4> HIDE DEF i
      <4>3. i \in g[n - 1]
        BY <2>1, <4>1
      <4> QED BY <2>2, <3>2, <4>2, <4>3 DEF Longer
    <3> QED BY <3>1, <3>2
  <2> QED BY <2>3
<1>6. N \in T
  <2>1. T \in SUBSET (0 .. N)
    OBVIOUS
  <2> HIDE DEF T, N
  <2> QED BY <1>1, <1>4, <1>5, <2>1, IndexInduction
<1> QED BY <1>2, <1>6

\* The variables that have a value when the splits after n are undone.
Live(st, n) == {p \in Known(st) : IsLeaf(st, p) \/ \E m \in n + 1 .. Len(st.splits) : p \in Takes(st.splits[m])}

\* Of the values of the loops.
LoopValues(st, it) ==
    [p \in {st.dims[i].var : i \in DOMAIN st.dims} |-> it[CHOOSE i \in DOMAIN st.dims : st.dims[i].var = p]]

\* g gives the values after the splits from the last to the one after n are undone.
Undoes(st, e, it, g) ==
    g = [n \in 0 .. Len(st.splits) |-> IF n = Len(st.splits) THEN LoopValues(st, it)
                                        ELSE Undone(g[n + 1], st.splits[n + 1], e)]

LEMMA EvaluateChain ==
    ASSUME NEW st, st.origin = << >>, NEW D, st.splits \in Seq(D), NEW e, NEW it
    PROVE  \E g : Undoes(st, e, it, g) /\ Evaluate(st, e, it) = g[0]
<1> DEFINE N == Len(st.splits)
           Down(g, k) == g = [n \in k .. N |-> IF n = N THEN LoopValues(st, it)
                                               ELSE Undone(g[n + 1], st.splits[n + 1], e)]
           T == {k \in 0 .. N : \E g : Down(g, k)}
<1>1. N \in Nat /\ T \in SUBSET (0 .. N)
  OBVIOUS
<1>2. N \in T
  <2> DEFINE h == [n \in N .. N |-> LoopValues(st, it)]
  <2>1. Down(h, N)
    <3>1. h = [n \in N .. N |-> IF n = N THEN LoopValues(st, it) ELSE Undone(h[n + 1], st.splits[n + 1], e)]
      BY <1>1
    <3> HIDE DEF h
    <3> QED BY <3>1
  <2> HIDE DEF Down, h
  <2> QED BY <2>1, <1>1
<1>3. ASSUME NEW k \in 1 .. N, k \in T PROVE k - 1 \in T
  <2>1. PICK g : Down(g, k)
    BY <1>3
  <2> DEFINE h == [n \in k - 1 .. N |-> IF n = k - 1 THEN Undone(g[k], st.splits[k], e) ELSE g[n]]
  <2>2. h[k - 1] = Undone(g[k], st.splits[k], e) /\ \A n \in k .. N : h[n] = g[n]
    OBVIOUS
  <2>3. \A n \in k .. N : g[n] = IF n = N THEN LoopValues(st, it) ELSE Undone(g[n + 1], st.splits[n + 1], e)
    BY <2>1
  <2>4. \A n \in k - 1 .. N : h[n] = IF n = N THEN LoopValues(st, it) ELSE Undone(h[n + 1], st.splits[n + 1], e)
    <3> TAKE n \in k - 1 .. N
    <3>1. (n = k - 1 /\ n + 1 = k /\ n # N /\ k \in k .. N) \/ (n \in k .. N /\ (n = N \/ n + 1 \in k .. N))
      OBVIOUS
    <3> HIDE DEF h
    <3> QED BY <2>2, <2>3, <3>1
  <2>5. Down(h, k - 1)
    <3>1. h = [n \in k - 1 .. N |-> h[n]]
      OBVIOUS
    <3> HIDE DEF h
    <3> QED BY <2>4, <3>1
  <2>6. k - 1 \in 0 .. N
    OBVIOUS
  <2> HIDE DEF Down
  <2> QED BY <2>5, <2>6
<1>4. 0 \in T
  <2> HIDE DEF T
  <2>1. T = 0 .. N
    BY <1>1, <1>2, <1>3, DownInduction
  <2> QED BY <1>1, <2>1
<1>5. \E g : Down(g, 0)
  BY <1>4
<1>6. Evaluate(st, e, it) = (CHOOSE g : Down(g, 0))[0]
  <2>1. Derivation(st) = st.splits
    BY DerivationIs
  <2> QED BY <2>1 DEF Evaluate, LoopValues
<1> HIDE DEF Down
<1>7. Down(CHOOSE g : Down(g, 0), 0)
  BY <1>5
<1> QED BY <1>6, <1>7 DEF Down, Undoes

\* a is a total function with the values of iteration it.
Values(st, e, E, it, a) ==
    /\ a \in [Path -> Int]
    /\ Solves(st, e, a)
    /\ \A p \in Known(st) : Evaluate(st, E, it)[p] = a[p]
    /\ \A i \in 1 .. Len(st.dims) : a[st.dims[i].var] = it[i]

\* The values of an iteration are those that the splits allow.
LEMMA EvaluateSolves ==
    ASSUME NEW st \in StageRec, Shape(st), NEW e, Sizes(st, e), NEW E,
           \A p \in Known(st) : E[p] = e[p],
           NEW it \in Seq(Int), Len(it) = Len(st.dims)
    PROVE  \E a : Values(st, e, E, it, a)
<1> DEFINE N == Len(st.splits)
<1>1. /\ N \in Nat /\ st.splits \in Seq(SplitRec) /\ st.origin = << >> /\ st.dims \in Seq(DimRec)
      /\ Proper(st) /\ Len(st.dims) \in Nat /\ DOMAIN st.dims = 1 .. Len(st.dims)
  BY DEF StageRec, Shape
<1>2. PICK g : Undoes(st, E, it, g) /\ Evaluate(st, E, it) = g[0]
  <2>1. st.origin = << >> /\ st.splits \in Seq(SplitRec)
    BY <1>1
  <2> QED BY <2>1, EvaluateChain
<1>3. \A n \in 0 .. N : g[n] = IF n = N THEN LoopValues(st, it) ELSE Undone(g[n + 1], st.splits[n + 1], E)
  BY <1>2 DEF Undoes
<1> DEFINE Right(n) == /\ DOMAIN g[n] = Live(st, n)
                       /\ \A p \in Live(st, n) : g[n][p] \in Int
                       /\ \A m \in n + 1 .. N : Follows(st.splits[m], E, g[n])
                       /\ \A i \in 1 .. Len(st.dims) : g[n][st.dims[i].var] = it[i]
           T == {n \in 0 .. N : Right(n)}
<1>4. N \in T
  <2> DEFINE V == {st.dims[i].var : i \in DOMAIN st.dims}
             loop(p) == CHOOSE i \in DOMAIN st.dims : st.dims[i].var = p
  <2>1. g[N] = LoopValues(st, it)
    BY <1>1, <1>3
  <2>2. V = Live(st, N)
    <3>1. N + 1 .. N = {}
      BY <1>1
    <3>2. \A p : p \in V <=> IsLeaf(st, p)
      BY <1>1 DEF Shape
    <3> QED BY <3>1, <3>2 DEF Live, IsLeaf
  <2>3. \A i \in 1 .. Len(st.dims) : loop(st.dims[i].var) = i
    <3> TAKE i \in 1 .. Len(st.dims)
    <3>1. \A j \in 1 .. Len(st.dims) : st.dims[j].var = st.dims[i].var => j = i
      BY DEF Shape
    <3> QED BY <1>1, <3>1
  <2>4. DOMAIN g[N] = V /\ \A p \in V : g[N][p] = it[loop(p)]
    BY <2>1 DEF LoopValues
  <2>5. \A i \in 1 .. Len(st.dims) : g[N][st.dims[i].var] = it[i] /\ it[i] \in Int
    <3> TAKE i \in 1 .. Len(st.dims)
    <3>1. st.dims[i].var \in V
      BY <1>1
    <3> HIDE DEF V, loop
    <3> QED BY <2>3, <2>4, <3>1
  <2>6. \A p \in V : g[N][p] \in Int
    BY <1>1, <2>5
  <2>7. N + 1 .. N = {}
    BY <1>1
  <2> HIDE DEF V, loop
  <2> QED BY <1>1, <2>2, <2>4, <2>5, <2>6, <2>7
<1>5. \A n \in 1 .. N : n \in T => n - 1 \in T
  <2> TAKE n \in 1 .. N
  <2> HAVE n \in T
  <2> DEFINE s == st.splits[n]
             f == g[n]
             L == Live(st, n)
  <2>1. Right(n)
    OBVIOUS
  <2>2. g[n - 1] = Undone(f, s, E)
    <3>1. n - 1 \in 0 .. N /\ n - 1 # N /\ (n - 1) + 1 = n
      BY <1>1
    <3> QED BY <1>3, <3>1
  <2>3. \A m \in n .. N : Makes(st.splits[m]) \subseteq L /\ (m > n => Takes(st.splits[m]) \subseteq L)
    <3> TAKE m \in n .. N
    <3>1. m \in 1 .. N /\ (m > n => m \in n + 1 .. N)
      BY <1>1
    <3>2. /\ Makes(st.splits[m]) \subseteq Known(st) /\ Takes(st.splits[m]) \subseteq Known(st)
          /\ \A k \in 1 .. N : k <= m => Makes(st.splits[m]) \cap Takes(st.splits[k]) = {}
      BY <1>1, <3>1, MadeOnce
    <3>3. \A k \in 1 .. N : k <= m \/ k \in n + 1 .. N
      BY <1>1
    <3>4. ASSUME NEW p \in Makes(st.splits[m]) PROVE p \in L
      <4>1. CASE IsLeaf(st, p)
        BY <3>2, <4>1 DEF Live
      <4>2. CASE ~IsLeaf(st, p)
        <5>1. PICK k \in 1 .. N : p \in Takes(st.splits[k])
          BY <3>2, <4>2 DEF IsLeaf
        <5>2. k \in n + 1 .. N
          BY <3>2, <3>3, <5>1
        <5> QED BY <3>2, <5>1, <5>2 DEF Live
      <4> QED BY <4>1, <4>2
    <3> QED BY <3>1, <3>2, <3>4 DEF Live
  <2>4. Takes(s) \cap L = {}
    <3>1. \A m \in n + 1 .. N : m \in 1 .. N /\ m # n
      BY <1>1
    <3>2. \A m \in 1 .. N : m # n => Takes(s) \cap Takes(st.splits[m]) = {}
      BY <1>1, MadeOnce
    <3> QED BY <3>1, <3>2 DEF Live, IsLeaf
  <2>5. Live(st, n - 1) = L \cup Takes(s)
    <3>1. (n - 1) + 1 .. N = (n + 1 .. N) \cup {n}
      BY <1>1
    <3>2. Takes(s) \subseteq Known(st)
      BY <1>1, MadeOnce
    <3> QED BY <3>1, <3>2 DEF Live
  <2>6. s \in SplitRec /\ s.kind \in {"split", "fuse", "rename"} /\ (s.kind # "rename" => s.inner # s.outer)
        /\ (s.kind = "split" => s.factor \in Nat)
        /\ Makes(s) \subseteq L
        /\ \A p \in Makes(s) \cup Takes(s) : E[p] \in Positive
    <3>1. s \in SplitRec /\ s.kind \in {"split", "fuse", "rename"}
      BY <1>1, SplitTyped
    <3>2. s.factor \in Nat
      BY <3>1 DEF SplitRec, SplitFields
    <3>3. n \in n .. N
      BY <1>1
    <3>4. Makes(s) \cup Takes(s) \subseteq Known(st)
      BY <1>1, MadeOnce
    <3>5. Known(st) \subseteq Path
      BY DEF Shape
    <3> QED BY <1>1, <2>3, <3>1, <3>2, <3>3, <3>4, <3>5 DEF Proper, Sizes
  <2>7. \A p \in L : p \in DOMAIN f /\ f[p] \in Int
    BY <2>1
  <2>8. DOMAIN f = L
    BY <2>1
  <2> DEFINE h == g[n - 1]
  <2>9. /\ DOMAIN h = L \cup Takes(s) /\ \A p \in L : h[p] = f[p]
        /\ \A p \in L \cup Takes(s) : h[p] \in Int
        /\ Follows(s, E, h)
    <3> HIDE DEF s, f, L, h
    <3>1. CASE s.kind = "split"
      <4>1. Makes(s) = {s.inner, s.outer} /\ Takes(s) = {s.old} /\ s.old \notin L
        BY <2>4, <3>1 DEF Makes, Takes
      <4>2. s.factor \in Int /\ E[s.old] \in Int /\ f[s.outer] \in Int /\ f[s.inner] \in Int
        BY <2>6, <2>7, <3>1, <4>1 DEF Positive
      <4>3. h = Put(f, s.old, SplitBase(s, E, f) + f[s.inner])
        BY <2>2, <3>1 DEF Undone, h
      <4>4. SplitBase(s, E, f) \in Int
        BY <4>2 DEF SplitBase
      <4>5. DOMAIN h = L \cup Takes(s) /\ (\A p \in L : h[p] = f[p]) /\ h[s.old] = SplitBase(s, E, f) + f[s.inner]
        BY <2>8, <4>1, <4>3 DEF Put
      <4>6. SplitBase(s, E, h) = SplitBase(s, E, f)
        BY <2>6, <4>1, <4>5 DEF SplitBase
      <4>7. Follows(s, E, h)
        BY <2>6, <3>1, <4>1, <4>5, <4>6 DEF Follows
      <4> QED BY <2>7, <4>1, <4>2, <4>4, <4>5, <4>7
    <3>2. CASE s.kind = "fuse"
      <4>1. Makes(s) = {s.old} /\ Takes(s) = {s.inner, s.outer} /\ s.inner \notin L /\ s.outer \notin L
        BY <2>4, <3>2 DEF Makes, Takes
      <4>2. f[s.old] \in Int /\ E[s.inner] \in Int /\ E[s.inner] > 0
        BY <2>6, <2>7, <3>2, <4>1 DEF Positive
      <4>3. h = Put(Put(f, s.outer, f[s.old] \div E[s.inner]), s.inner, f[s.old] % E[s.inner])
        BY <2>2, <3>2 DEF Undone, h
      <4>4. f[s.old] \div E[s.inner] \in Int /\ f[s.old] % E[s.inner] \in Int
        BY <4>2
      <4>5. /\ DOMAIN h = L \cup Takes(s) /\ (\A p \in L : h[p] = f[p])
            /\ h[s.outer] = f[s.old] \div E[s.inner] /\ h[s.inner] = f[s.old] % E[s.inner]
        BY <2>6, <2>8, <3>2, <4>1, <4>3 DEF Put
      <4>6. h[s.old] = f[s.old]
        BY <2>6, <4>1, <4>5
      <4>7. Follows(s, E, h)
        BY <3>2, <4>5, <4>6 DEF Follows
      <4> QED BY <2>7, <4>1, <4>4, <4>5, <4>7
    <3>3. CASE s.kind = "rename"
      <4>1. Makes(s) = {s.outer} /\ Takes(s) = {s.old} /\ s.old \notin L
        BY <2>4, <3>3 DEF Makes, Takes
      <4>2. f[s.outer] \in Int
        BY <2>6, <2>7, <4>1
      <4>3. h = Put(f, s.old, f[s.outer])
        BY <2>2, <3>3 DEF Undone, h
      <4>4. DOMAIN h = L \cup Takes(s) /\ (\A p \in L : h[p] = f[p]) /\ h[s.old] = f[s.outer]
        BY <2>8, <4>1, <4>3 DEF Put
      <4>5. Follows(s, E, h)
        BY <2>6, <3>3, <4>1, <4>4 DEF Follows
      <4> QED BY <2>7, <4>1, <4>2, <4>4, <4>5
    <3> QED BY <2>6, <3>1, <3>2, <3>3
  <2>10. \A m \in n .. N : Follows(st.splits[m], E, h)
    <3> TAKE m \in n .. N
    <3>1. CASE m = n
      BY <2>9, <3>1
    <3>2. CASE m # n
      <4> DEFINE t == st.splits[m]
      <4>1. m \in n + 1 .. N /\ m > n
        BY <3>2
      <4>2. Follows(t, E, f) /\ Makes(t) \subseteq L /\ Takes(t) \subseteq L
        BY <2>1, <2>3, <4>1
      <4> HIDE DEF t, L, f, h
      <4>3. \A p \in Makes(t) \cup Takes(t) : h[p] = f[p]
        BY <2>9, <4>2
      <4> QED BY <4>2, <4>3 DEF Follows, Makes, Takes, SplitBase, t
    <3> QED BY <3>1, <3>2
  <2>11. \A i \in 1 .. Len(st.dims) : st.dims[i].var \in L
    BY DEF Shape, Live, IsLeaf
  <2>12. (n - 1) + 1 = n /\ n - 1 \in 0 .. N
    BY <1>1
  <2>13. Right(n - 1)
    <3> HIDE DEF L, s, f
    <3>1. \A i \in 1 .. Len(st.dims) : h[st.dims[i].var] = it[i]
      BY <2>1, <2>9, <2>11 DEF f
    <3> QED BY <2>5, <2>9, <2>10, <2>12, <3>1
  <2> QED BY <2>12, <2>13
<1>6. 0 \in T
  <2>1. T \in SUBSET (0 .. N)
    OBVIOUS
  <2> HIDE DEF T, N
  <2> QED BY <1>1, <1>4, <1>5, <2>1, DownInduction
<1>7. Live(st, 0) = Known(st)
  <2>1. 0 + 1 .. N = 1 .. N
    OBVIOUS
  <2> QED BY <2>1 DEF Live, IsLeaf
<1> DEFINE a == [p \in Path |-> IF p \in Known(st) THEN g[0][p] ELSE 0]
<1>8. Known(st) \subseteq Path /\ Right(0)
  BY <1>6 DEF Shape
<1>9. a \in [Path -> Int] /\ \A p \in Known(st) : a[p] = g[0][p]
  BY <1>7, <1>8
<1>10. \A i \in 1 .. N : Follows(st.splits[i], e, a)
  <2> TAKE i \in 1 .. N
  <2> DEFINE t == st.splits[i]
  <2>1. Follows(t, E, g[0])
    <3>1. i \in 0 + 1 .. N
      OBVIOUS
    <3> QED BY <1>8, <3>1
  <2>2. Makes(t) \cup Takes(t) \subseteq Known(st)
    BY <1>1, MadeOnce
  <2> HIDE DEF a, t
  <2>3. \A p \in Makes(t) \cup Takes(t) : a[p] = g[0][p] /\ E[p] = e[p]
    BY <1>9, <2>2
  <2> QED BY <2>1, <2>3 DEF Follows, Makes, Takes, SplitBase, t
<1>11. \A i \in 1 .. Len(st.dims) : a[st.dims[i].var] = it[i]
  <2>1. \A i \in 1 .. Len(st.dims) : st.dims[i].var \in Known(st)
    BY DEF Shape, IsLeaf
  <2> HIDE DEF a
  <2> QED BY <1>8, <1>9, <2>1
<1>12. \A p \in Known(st) : Evaluate(st, E, it)[p] = a[p]
  <2> HIDE DEF a
  <2> QED BY <1>2, <1>9
<1> HIDE DEF a
<1> QED BY <1>9, <1>10, <1>11, <1>12 DEF Values, Solves

LEMMA StageTyped ==
    ASSUME NEW st \in StageRec
    PROVE  /\ st.splits \in Seq(SplitRec) /\ Len(st.splits) \in Nat /\ DOMAIN st.splits = 1 .. Len(st.splits)
           /\ st.dims \in Seq(DimRec) /\ Len(st.dims) \in Nat /\ DOMAIN st.dims = 1 .. Len(st.dims)
           /\ st.origin = << >> /\ st.kept = << >>
           /\ \A i \in 1 .. Len(st.splits) : st.splits[i].kind \in {"split", "fuse", "rename"}
<1>1. st.splits \in Seq(SplitRec) /\ st.dims \in Seq(DimRec) /\ st.origin = << >> /\ st.kept = << >>
  BY DEF StageRec
<1> QED BY <1>1, SplitTyped

\* Values that the splits allow are determined by those of the loops.
LEMMA LoopsDetermine ==
    ASSUME NEW st \in StageRec, Shape(st), NEW e, NEW a, NEW b, Solves(st, e, a), Solves(st, e, b),
           \A i \in 1 .. Len(st.dims) : a[st.dims[i].var] = b[st.dims[i].var]
    PROVE  \A p \in Known(st) : a[p] = b[p]
<1> DEFINE N == Len(st.splits)
           Same(n) == \A p \in Live(st, n) : a[p] = b[p]
           T == {n \in 0 .. N : Same(n)}
<1>0. /\ Proper(st) /\ N \in Nat
      /\ \A i \in 1 .. N : Follows(st.splits[i], e, a) /\ Follows(st.splits[i], e, b)
      /\ \A i \in 1 .. N : st.splits[i].kind \in {"split", "fuse", "rename"}
  BY StageTyped DEF Shape, Solves
<1>1. N \in T
  <2>1. \A p : IsLeaf(st, p) => a[p] = b[p]
    BY DEF Shape
  <2>2. N + 1 .. N = {} /\ N \in 0 .. N
    BY <1>0
  <2>3. Same(N)
    BY <2>1, <2>2 DEF Live
  <2> QED BY <2>3
<1>2. \A n \in 1 .. N : n \in T => n - 1 \in T
  <2> TAKE n \in 1 .. N
  <2> HAVE n \in T
  <2> DEFINE s == st.splits[n]
  <2>1. Same(n)
    OBVIOUS
  <2>2. \A p \in Makes(s) : p \in Live(st, n)
    <3>1. Makes(s) \subseteq Known(st) /\ \A k \in 1 .. N : k <= n => Makes(s) \cap Takes(st.splits[k]) = {}
      BY <1>0, MadeOnce
    <3>2. \A k \in 1 .. N : k <= n \/ k \in n + 1 .. N
      BY <1>0
    <3> QED BY <3>1, <3>2 DEF Live, IsLeaf
  <2>3. \A p \in Makes(s) : a[p] = b[p]
    BY <2>1, <2>2
  <2>4. \A p \in Takes(s) : a[p] = b[p]
    <3>1. Follows(s, e, a) /\ Follows(s, e, b) /\ s.kind \in {"split", "fuse", "rename"}
      BY <1>0
    <3> HIDE DEF s
    <3>2. CASE s.kind = "split"
      BY <2>3, <3>1, <3>2 DEF Follows, Makes, Takes, SplitBase
    <3>3. CASE s.kind = "fuse"
      BY <2>3, <3>1, <3>3 DEF Follows, Makes, Takes
    <3>4. CASE s.kind = "rename"
      BY <2>3, <3>1, <3>4 DEF Follows, Makes, Takes
    <3> QED BY <3>1, <3>2, <3>3, <3>4
  <2>5. Same(n - 1)
    <3>1. (n - 1) + 1 .. N = (n + 1 .. N) \cup {n} /\ n - 1 \in 0 .. N
      BY <1>0
    <3>2. \A p \in Live(st, n - 1) : p \in Live(st, n) \/ p \in Takes(s)
      BY <3>1 DEF Live
    <3> QED BY <2>1, <2>4, <3>2
  <2> QED BY <1>0, <2>5
<1>3. 0 \in T
  <2>1. T \in SUBSET (0 .. N) /\ N \in Nat
    BY <1>0
  <2> HIDE DEF T, N
  <2> QED BY <1>1, <1>2, <2>1, DownInduction
<1>4. Known(st) = Live(st, 0)
  <2>1. 0 + 1 .. N = 1 .. N
    OBVIOUS
  <2> QED BY <2>1 DEF Live, IsLeaf
<1> QED BY <1>3, <1>4

\* What an iteration computes, and that nothing else is computed.
RunOf(st, a) ==
    [it |-> [i \in 1 .. Len(st.dims) |-> a[st.dims[i].var]],
     point |-> [r \in Roots(st) |-> a[r]], site |-> [r \in Roots(st) \ st.impure |-> a[r]]]

LEMMA SizesAre ==
    ASSUME NEW st \in StageRec, Shape(st), NEW e, Sizes(st, e)
    PROVE  /\ \A p \in Known(st) : Extents(st)[p] = e[p]
           /\ \A i \in 1 .. Len(st.dims) : st.dims[i].var \in Known(st)
           /\ \A i \in 1 .. Len(st.splits) : Makes(st.splits[i]) \cup Takes(st.splits[i]) \subseteq Known(st)
           /\ Roots(st) \subseteq Known(st) /\ Known(st) \subseteq Path
<1>1. Proper(st)
  BY DEF Shape
<1>2. \A p \in Known(st) : Extents(st)[p] = e[p]
  BY <1>1, ExtentsSolve
<1>3. \A i \in 1 .. Len(st.dims) : st.dims[i].var \in Known(st)
  BY DEF Shape, IsLeaf
<1>4. \A i \in 1 .. Len(st.splits) : Makes(st.splits[i]) \cup Takes(st.splits[i]) \subseteq Known(st)
  BY <1>1, StageTyped, MadeOnce
<1>5. Roots(st) \subseteq Known(st)
  BY DEF Known, KnownAt, Base
<1>6. Known(st) \subseteq Path
  BY DEF Shape
<1> QED BY <1>2, <1>3, <1>4, <1>5, <1>6

LEMMA RunsAre ==
    ASSUME NEW st \in StageRec, Shape(st), NEW e, Sizes(st, e)
    PROVE  /\ \A r \in Runs(st) : \E a : Allowed(st, e, a) /\ InRange(st, e, a) /\ r = RunOf(st, a)
           /\ \A a : Allowed(st, e, a) /\ InRange(st, e, a) => RunOf(st, a) \in Runs(st)
<1> DEFINE E == Extents(st)
           site == (Roots(st) \ st.impure) \cup ToSet(st.kept)
           V == {<<it, Evaluate(st, E, it)>> : it \in Iterations(st)}
           W == {y \in V : Guarded(Derivation(st), E, y[2])}
           R(x) == [it |-> x[1], point |-> [r \in Roots(st) |-> x[2][r]], site |-> [r \in site |-> x[2][r]]]
<1>1. Runs(st) = {R(x) : x \in W}
  BY DEF Runs
<1>2. /\ \A p \in Known(st) : E[p] = e[p]
      /\ \A i \in 1 .. Len(st.dims) : st.dims[i].var \in Known(st)
      /\ \A i \in 1 .. Len(st.splits) : Makes(st.splits[i]) \cup Takes(st.splits[i]) \subseteq Known(st)
      /\ Roots(st) \subseteq Known(st) /\ Known(st) \subseteq Path
  BY SizesAre
<1>3. /\ st.splits \in Seq(SplitRec) /\ Len(st.splits) \in Nat /\ DOMAIN st.splits = 1 .. Len(st.splits)
      /\ st.dims \in Seq(DimRec) /\ Len(st.dims) \in Nat /\ DOMAIN st.dims = 1 .. Len(st.dims)
      /\ st.origin = << >> /\ st.kept = << >>
      /\ \A i \in 1 .. Len(st.splits) : st.splits[i].kind \in {"split", "fuse", "rename"}
  BY StageTyped
<1>4. Derivation(st) = st.splits
  BY <1>3, DerivationIs
<1>5. site = Roots(st) \ st.impure
  BY <1>3 DEF ToSet
<1>6. \A it : it \in Iterations(st) <=>
                 /\ it \in Seq(Int) /\ Len(it) = Len(st.dims)
                 /\ \A n \in 1 .. Len(st.dims) : it[n] \in 0 .. e[st.dims[n].var] - 1
  <2>1. \A n \in 1 .. Len(st.dims) : Extents(st)[st.dims[n].var] = e[st.dims[n].var]
    BY <1>2
  <2> HIDE DEF E
  <2> QED BY <1>3, <2>1, IterationsSolve
<1>7. ASSUME NEW it \in Seq(Int), Len(it) = Len(st.dims)
      PROVE  \E a : Values(st, e, E, it, a)
  <2> HIDE DEF E
  <2> QED BY <1>2, <1>7, EvaluateSolves
<1>8. ASSUME NEW f, NEW a, \A p \in Known(st) : f[p] = a[p]
      PROVE  Guarded(Derivation(st), E, f) <=> Guarded(st.splits, e, a)
  <2>1. ASSUME NEW i \in 1 .. Len(st.splits), st.splits[i].kind = "split"
        PROVE  f[st.splits[i].old] = a[st.splits[i].old] /\ E[st.splits[i].old] = e[st.splits[i].old]
    <3>1. st.splits[i].old \in Known(st)
      BY <1>2, <2>1 DEF Takes
    <3> QED BY <1>2, <1>8, <3>1
  <2> HIDE DEF E
  <2> QED BY <1>3, <1>4, <2>1 DEF Guarded
<1>9. ASSUME NEW it \in Seq(Int), Len(it) = Len(st.dims), NEW a \in [Path -> Int],
             \A p \in Known(st) : Evaluate(st, E, it)[p] = a[p],
             \A i \in 1 .. Len(st.dims) : a[st.dims[i].var] = it[i]
      PROVE  R(<<it, Evaluate(st, E, it)>>) = RunOf(st, a)
  <2> DEFINE f == Evaluate(st, E, it)
  <2>1. it = [i \in 1 .. Len(st.dims) |-> a[st.dims[i].var]]
    BY <1>9
  <2>2. [r \in Roots(st) |-> f[r]] = [r \in Roots(st) |-> a[r]]
    BY <1>2, <1>9
  <2>3. [r \in site |-> f[r]] = [r \in Roots(st) \ st.impure |-> a[r]]
    BY <1>2, <1>5, <1>9
  <2> HIDE DEF f, site
  <2>4. R(<<it, f>>) = [it |-> it, point |-> [r \in Roots(st) |-> f[r]], site |-> [r \in site |-> f[r]]]
    OBVIOUS
  <2> QED BY <2>1, <2>2, <2>3, <2>4 DEF RunOf, f
<1>10. ASSUME NEW r \in Runs(st)
       PROVE  \E a : Allowed(st, e, a) /\ InRange(st, e, a) /\ r = RunOf(st, a)
  <2>1. PICK x \in W : r = R(x)
    BY <1>1
  <2>2. PICK it \in Iterations(st) : x = <<it, Evaluate(st, E, it)>>
    OBVIOUS
  <2>3. it \in Seq(Int) /\ Len(it) = Len(st.dims) /\ \A n \in 1 .. Len(st.dims) : it[n] \in 0 .. e[st.dims[n].var] - 1
    BY <1>6
  <2>4. PICK a : Values(st, e, E, it, a)
    BY <1>7, <2>3
  <2>5. r = RunOf(st, a)
    <3>1. /\ a \in [Path -> Int] /\ \A p \in Known(st) : Evaluate(st, E, it)[p] = a[p]
          /\ \A i \in 1 .. Len(st.dims) : a[st.dims[i].var] = it[i]
      BY <2>4 DEF Values
    <3> HIDE DEF E, R
    <3>2. R(<<it, Evaluate(st, E, it)>>) = RunOf(st, a)
      BY <1>9, <2>3, <3>1
    <3> QED BY <2>1, <2>2, <3>2
  <2>6. Guarded(Derivation(st), E, Evaluate(st, E, it))
    BY <2>1, <2>2
  <2> HIDE DEF E, R
  <2>7. Guarded(st.splits, e, a)
    BY <1>8, <2>4, <2>6 DEF Values
  <2>8. Allowed(st, e, a) /\ InRange(st, e, a)
    BY <2>3, <2>4, <2>7 DEF Allowed, InRange, Values
  <2> QED BY <2>5, <2>8
<1>11. ASSUME NEW a, Allowed(st, e, a), InRange(st, e, a) PROVE RunOf(st, a) \in Runs(st)
  <2> DEFINE it == [i \in 1 .. Len(st.dims) |-> a[st.dims[i].var]]
  <2>1. a \in [Path -> Int] /\ Solves(st, e, a) /\ Guarded(st.splits, e, a)
    BY <1>11 DEF Allowed
  <2>2. \A i \in 1 .. Len(st.dims) : a[st.dims[i].var] \in Int /\ it[i] = a[st.dims[i].var]
    BY <1>2, <2>1
  <2>3. it \in Seq(Int) /\ Len(it) = Len(st.dims)
    <3>1. Len(st.dims) \in Nat
      BY <1>3
    <3>2. it \in [1 .. Len(st.dims) -> Int]
      BY <2>2
    <3> HIDE DEF it
    <3> QED BY <3>1, <3>2
  <2> HIDE DEF it
  <2>4. it \in Iterations(st)
    BY <1>6, <1>11, <2>2, <2>3 DEF InRange
  <2>5. PICK b : Values(st, e, E, it, b)
    BY <1>7, <2>3
  <2>6. \A p \in Known(st) : a[p] = b[p]
    <3>1. \A i \in 1 .. Len(st.dims) : a[st.dims[i].var] = b[st.dims[i].var]
      BY <2>2, <2>5 DEF Values
    <3>2. Solves(st, e, a) /\ Solves(st, e, b)
      BY <2>1, <2>5 DEF Values
    <3> QED BY <3>1, <3>2, LoopsDetermine
  <2>7. \A p \in Known(st) : Evaluate(st, E, it)[p] = a[p]
    BY <2>5, <2>6 DEF Values
  <2>8. R(<<it, Evaluate(st, E, it)>>) = RunOf(st, a)
    <3> HIDE DEF E, R
    <3> QED BY <1>9, <2>1, <2>2, <2>3, <2>7
  <2>9. Guarded(Derivation(st), E, Evaluate(st, E, it))
    BY <1>8, <2>1, <2>7
  <2>10. <<it, Evaluate(st, E, it)>> \in W
    BY <2>4, <2>9
  <2> HIDE DEF E, R, W
  <2> QED BY <1>1, <2>8, <2>10
<1> QED BY <1>10, <1>11

-----------------------------------------------------------------------------
(* What the invariant says of one stage.                                    *)
LEMMA LargestIndex ==
    ASSUME NEW N \in Nat, NEW T \in SUBSET (1 .. N), T # {}
    PROVE  \E n \in T : \A m \in T : m <= n
<1> DEFINE U == {N - n : n \in T}
<1>1. U \in SUBSET Nat /\ U # {}
  <2>1. \A n \in T : N - n \in Nat
    OBVIOUS
  <2>2. PICK n \in T : TRUE
    OBVIOUS
  <2>3. N - n \in U
    BY <2>2
  <2> QED BY <2>1, <2>3
<1>2. PICK u \in U : \A m \in U : u <= m
  <2> HIDE DEF U
  <2> QED BY <1>1, LeastNumber
<1>3. PICK n \in T : u = N - n
  OBVIOUS
<1>4. \A m \in T : N - m \in U
  OBVIOUS
<1>5. \A m \in T : m <= n
  <2> TAKE m \in T
  <2>1. u <= N - m
    BY <1>2, <1>4
  <2> HIDE DEF U
  <2> QED BY <1>3, <2>1
<1> QED BY <1>5

LEMMA InvLoops ==
    ASSUME NEW st, StageInv(st)
    PROVE  /\ {d.var : d \in ToSet(st.dims)} = Leaves(st)
           /\ Cardinality(Leaves(st)) = Len(st.dims)
<1>1. st \in StageRec /\ Shape(st)
  BY DEF StageInv
<1>2. \A p : p \in Leaves(st) <=> \E i \in 1 .. Len(st.dims) : p = st.dims[i].var
  BY <1>1, LeavesSolve DEF Shape
<1>3. Len(st.dims) \in Nat /\ DOMAIN st.dims = 1 .. Len(st.dims)
  BY <1>1, StageTyped
<1>4. {d.var : d \in ToSet(st.dims)} = Leaves(st)
  BY <1>2, <1>3 DEF ToSet
<1> DEFINE f == [i \in 1 .. Len(st.dims) |-> st.dims[i].var]
<1>5. \A i, j \in 1 .. Len(st.dims) : st.dims[i].var = st.dims[j].var => i = j
  BY <1>1 DEF Shape
<1>6. f \in Surjection(1 .. Len(st.dims), Leaves(st)) /\ f \in Injection(1 .. Len(st.dims), Leaves(st))
  BY <1>2, <1>5 DEF Surjection, Injection, IsInjective
<1>7. IsFiniteSet(1 .. Len(st.dims)) /\ Cardinality(1 .. Len(st.dims)) = Len(st.dims)
  BY <1>3, FS_Interval
<1> HIDE DEF f
<1>8. Cardinality(Leaves(st)) = Cardinality(1 .. Len(st.dims))
  BY <1>6, <1>7, FS_Surjection
<1> QED BY <1>4, <1>7, <1>8

TypedStage(st) ==
    /\ \A d \in ToSet(st.dims) : /\ d.type \in {"PureVar", "PureRVar", "ImpureRVar"}
                                 /\ IsRVarDim(d) => IsRVar(Last(d.var))
    /\ ToSet(st.rvars) \subseteq Leaves([st EXCEPT !.splits = << >>])
    /\ \A s \in ToSet(st.splits) : s.kind \in {"split", "fuse", "rename", "purify"}
    /\ Last(st.dims).type = "PureVar"

LEMMA InvTyped ==
    ASSUME NEW st, StageInv(st)
    PROVE  TypedStage(st)
<1>1. st \in StageRec /\ Shape(st)
  BY DEF StageInv
<1>2. /\ st.dims \in Seq(DimRec) /\ Len(st.dims) \in Nat /\ DOMAIN st.dims = 1 .. Len(st.dims)
      /\ st.splits \in Seq(SplitRec) /\ DOMAIN st.splits = 1 .. Len(st.splits) /\ st.origin = << >>
      /\ \A i \in 1 .. Len(st.splits) : st.splits[i].kind \in {"split", "fuse", "rename"}
  BY <1>1, StageTyped
<1>3. \A i \in 1 .. Len(st.dims) : st.dims[i].type \in {"PureVar", "PureRVar", "ImpureRVar"}
  <2> TAKE i \in 1 .. Len(st.dims)
  <2>1. st.dims[i] \in DimRec
    BY <1>2
  <2> QED BY <2>1 DEF DimRec
<1>4. \A d \in ToSet(st.dims) : /\ d.type \in {"PureVar", "PureRVar", "ImpureRVar"}
                                /\ IsRVarDim(d) => IsRVar(Last(d.var))
  BY <1>1, <1>2, <1>3 DEF ToSet, Shape, IsRVarDim, IsRVar
<1>5. ToSet(st.rvars) \subseteq Leaves([st EXCEPT !.splits = << >>])
  <2> DEFINE s0 == [st EXCEPT !.splits = << >>]
  <2>1. s0.splits = << >> /\ s0.origin = << >> /\ s0.rvars = st.rvars /\ s0.args = st.args /\ s0.order = st.order
    BY <1>1, <1>2 DEF StageRec
  <2> HIDE DEF s0
  <2>2. Leaves(s0) = Base(s0)
    <3>1. s0.splits \in Seq({}) /\ Len(s0.splits) = 0
      BY <2>1
    <3>2. PICK g : /\ g = [n \in 0 .. Len(s0.splits) |-> IF n = 0 THEN Base(s0) ELSE LeavesAfter(g[n - 1], s0.splits[n])]
                   /\ Leaves(s0) = g[Len(s0.splits)]
      BY <2>1, <3>1, LeavesChain
    <3> QED BY <3>1, <3>2
  <2>3. Base(s0) = Base(st) /\ Roots(s0) = Roots(st)
    BY <2>1 DEF Base, Roots
  <2>4. DOMAIN st.rvars = 1 .. Len(st.rvars)
    <3>1. st.rvars \in Seq(Path)
      BY <1>1 DEF StageRec
    <3> QED BY <3>1
  <2>5. ToSet(st.rvars) \subseteq Roots(st)
    BY <1>1, <2>4 DEF ToSet, Shape
  <2> QED BY <2>2, <2>3, <2>5 DEF Base, s0
<1>6. \A s \in ToSet(st.splits) : s.kind \in {"split", "fuse", "rename", "purify"}
  BY <1>2 DEF ToSet
<1>7. Last(st.dims).type = "PureVar"
  BY <1>1 DEF Shape, Last
<1> QED BY <1>4, <1>5, <1>6, <1>7 DEF TypedStage

LEMMA InvCovers ==
    ASSUME NEW st, StageInv(st)
    PROVE  Domain(st) \subseteq {r.point : r \in Runs(st)}
<1>1. PICK e, inner, shifted : Meaning(st, e, inner, shifted)
  BY DEF StageInv
<1>2. st \in StageRec /\ Shape(st) /\ Sizes(st, e) /\ Covers(st, e)
  BY <1>1 DEF StageInv, Meaning
<1> SUFFICES ASSUME NEW p \in Domain(st) PROVE \E r \in Runs(st) : r.point = p
  OBVIOUS
<1>3. p \in [Roots(st) -> UNION {0 .. st.ext[r] - 1 : r \in Roots(st)}] /\ \A r \in Roots(st) : p[r] < st.ext[r]
  BY DEF Domain
<1>4. \A r \in Roots(st) : e[r] = st.ext[r] /\ e[r] \in Int
  BY <1>2, SizesAre DEF Sizes, Base, Positive
<1>5. \A r \in Roots(st) : p[r] \in Nat
  <2> TAKE r \in Roots(st)
  <2>1. PICK q \in Roots(st) : p[r] \in 0 .. st.ext[q] - 1
    BY <1>3
  <2> QED BY <1>4, <2>1
<1>6. p \in [Roots(st) -> Int] /\ \A r \in Roots(st) : p[r] \in 0 .. e[r] - 1
  BY <1>3, <1>4, <1>5
<1>7. PICK a : Allowed(st, e, a) /\ InRange(st, e, a) /\ \A r \in Roots(st) : a[r] = p[r]
  BY <1>2, <1>6 DEF Covers
<1>8. RunOf(st, a) \in Runs(st)
  BY <1>2, <1>7, RunsAre
<1>9. RunOf(st, a).point = p
  BY <1>6, <1>7 DEF RunOf
<1> QED BY <1>8, <1>9

LEMMA RunsFine ==
    ASSUME NEW st \in StageRec, Shape(st), NEW e, Sizes(st, e), NEW a, Allowed(st, e, a), InRange(st, e, a)
    PROVE  /\ \A inner : Fine(st, e, inner, a)
           /\ \A shifted : Calm(st, e, shifted, a)
<1>1. \A i \in 1 .. Len(st.dims) : a[st.dims[i].var] \in Int /\ e[st.dims[i].var] \in Int
  BY SizesAre DEF Sizes, Positive, Allowed
<1> QED BY <1>1 DEF Fine, Calm, InRange

LEMMA InvOnce ==
    ASSUME NEW st, StageInv(st), ~st.init, NEW r \in Runs(st), NEW q \in Runs(st), r.point = q.point
    PROVE  r = q
<1>1. PICK e, inner, shifted : Meaning(st, e, inner, shifted)
  BY DEF StageInv
<1>2. st \in StageRec /\ Shape(st) /\ Sizes(st, e) /\ Determines(st, e, inner, {}, {})
  BY <1>1 DEF StageInv, Meaning
<1>3. PICK a : Allowed(st, e, a) /\ InRange(st, e, a) /\ r = RunOf(st, a)
  BY <1>2, RunsAre
<1>4. PICK b : Allowed(st, e, b) /\ InRange(st, e, b) /\ q = RunOf(st, b)
  BY <1>2, RunsAre
<1>5. \A x \in Roots(st) : a[x] = b[x]
  <2>1. r.point = [x \in Roots(st) |-> a[x]] /\ q.point = [x \in Roots(st) |-> b[x]]
    BY <1>3, <1>4 DEF RunOf
  <2>2. \A x \in Roots(st) : r.point[x] = a[x] /\ q.point[x] = b[x]
    BY <2>1
  <2> QED BY <2>2
<1>6. Fine(st, e, inner, a) /\ Fine(st, e, inner, b)
  BY <1>2, <1>3, <1>4, RunsFine
<1>7. \A i \in 1 .. Len(st.dims) : a[st.dims[i].var] = b[st.dims[i].var]
  BY <1>2, <1>5, <1>6 DEF Determines
<1> QED BY <1>3, <1>4, <1>5, <1>7 DEF RunOf

LEMMA InvBounds ==
    ASSUME NEW st, StageInv(st), NEW r \in Runs(st)
    PROVE  /\ \A v \in ToSet(st.order) : r.point[v] < st.ext[v]
           /\ (/\ st.init /\ st.inwards
               /\ \A i \in DOMAIN st.splits : st.splits[i].tail = "ShiftInwards" =>
                     Extents(st)[st.splits[i].old] >= st.splits[i].factor)
              => r.point \in Domain(st)
<1>1. PICK e, inner, shifted : Meaning(st, e, inner, shifted)
  BY DEF StageInv
<1>2. st \in StageRec /\ Shape(st) /\ Sizes(st, e)
  BY <1>1 DEF StageInv, Meaning
<1>3. PICK a : Allowed(st, e, a) /\ InRange(st, e, a) /\ r = RunOf(st, a)
  BY <1>2, RunsAre
<1>4. Fine(st, e, inner, a) /\ Calm(st, e, shifted, a)
  BY <1>2, <1>3, RunsFine
<1>5. r.point = [x \in Roots(st) |-> a[x]]
  BY <1>3 DEF RunOf
<1>6. \A x \in Roots(st) : e[x] = st.ext[x] /\ e[x] \in Int /\ a[x] \in Int
  BY <1>2, <1>3, SizesAre DEF Sizes, Base, Positive, Allowed
<1>7. DOMAIN st.order = 1 .. Len(st.order) /\ ToSet(st.order) \subseteq Roots(st)
  <2>1. st.order \in Seq(Path)
    BY <1>2 DEF StageRec
  <2> QED BY <2>1 DEF Roots
<1>8. \A v \in ToSet(st.order) : r.point[v] < st.ext[v]
  <2>1. CASE st.init
    <3>1. st.order = << >>
      BY <1>2, <2>1 DEF Shape
    <3> QED BY <3>1 DEF ToSet
  <2>2. CASE ~st.init
    <3>1. Bounds(st, e, inner)
      BY <1>1, <2>2 DEF Meaning
    <3>2. \A i \in 1 .. Len(st.order) : a[st.order[i]] < e[st.order[i]]
      BY <1>4, <3>1 DEF Bounds
    <3>3. \A v \in ToSet(st.order) : a[v] < e[v]
      BY <1>7, <3>2 DEF ToSet
    <3> QED BY <1>5, <1>6, <1>7, <3>3
  <2>3. st.init \in BOOLEAN
    BY <1>2 DEF StageRec
  <2> QED BY <2>1, <2>2, <2>3
<1>9. ASSUME st.init, st.inwards,
             \A i \in DOMAIN st.splits : st.splits[i].tail = "ShiftInwards" =>
                 Extents(st)[st.splits[i].old] >= st.splits[i].factor
      PROVE  r.point \in Domain(st)
  <2>1. Fits(st, e)
    <3> SUFFICES ASSUME NEW i \in 1 .. Len(st.splits), st.splits[i].kind = "split", st.splits[i].tail = "ShiftInwards"
                 PROVE  e[st.splits[i].old] >= st.splits[i].factor
      BY DEF Fits
    <3>1. st.splits[i].old \in Known(st)
      BY <1>2, SizesAre DEF Takes
    <3>2. e[st.splits[i].old] = Extents(st)[st.splits[i].old]
      BY <1>2, <3>1, SizesAre
    <3>3. i \in DOMAIN st.splits
      BY <1>2, StageTyped
    <3> QED BY <1>9, <3>2, <3>3
  <2>2. \A x \in Roots(st) : a[x] \in 0 .. e[x] - 1
    BY <1>1, <1>4, <1>9, <2>1 DEF Meaning, PureBounds
  <2>3. \A x \in Roots(st) : r.point[x] \in 0 .. st.ext[x] - 1 /\ r.point[x] < st.ext[x]
    BY <1>5, <1>6, <2>2
  <2>4. r.point \in [Roots(st) -> UNION {0 .. st.ext[x] - 1 : x \in Roots(st)}]
    BY <1>5, <2>3
  <2> QED BY <2>3, <2>4 DEF Domain
<1> QED BY <1>8, <1>9

LEMMA InvOrder ==
    ASSUME NEW st, StageInv(st), ~st.init, ~st.race, ~st.atomic,
           NEW r \in Runs(st), NEW q \in Runs(st), r.site = q.site, Precedes(st, r.point, q.point)
    PROVE  Before(st, r.it, q.it) \/ (st.assoc /\ st.comm /\ Before(st, q.it, r.it))
<1>1. PICK e, inner, shifted : Meaning(st, e, inner, shifted)
  BY DEF StageInv
<1>2. /\ st \in StageRec /\ Shape(st) /\ Sizes(st, e) /\ Serial(st)
      /\ Determines(st, e, inner, st.impure, Impure(st)) /\ Orders(st, e, inner)
  BY <1>1 DEF StageInv, Meaning
<1>3. PICK a : Allowed(st, e, a) /\ InRange(st, e, a) /\ r = RunOf(st, a)
  BY <1>2, RunsAre
<1>4. PICK b : Allowed(st, e, b) /\ InRange(st, e, b) /\ q = RunOf(st, b)
  BY <1>2, RunsAre
<1>5. Fine(st, e, inner, a) /\ Fine(st, e, inner, b)
  BY <1>2, <1>3, <1>4, RunsFine
<1> DEFINE N == Len(st.dims)
<1>6. N \in Nat /\ Impure(st) \subseteq 1 .. N
  BY <1>2, StageTyped DEF Impure
<1>7. /\ r.it = [i \in 1 .. N |-> a[st.dims[i].var]] /\ r.point = [x \in Roots(st) |-> a[x]]
      /\ r.site = [x \in Roots(st) \ st.impure |-> a[x]]
      /\ q.it = [i \in 1 .. N |-> b[st.dims[i].var]] /\ q.point = [x \in Roots(st) |-> b[x]]
      /\ q.site = [x \in Roots(st) \ st.impure |-> b[x]]
  BY <1>3, <1>4 DEF RunOf
<1>8. \A x \in Roots(st) \ st.impure : a[x] = b[x]
  <2>1. \A x \in Roots(st) \ st.impure : r.site[x] = a[x] /\ q.site[x] = b[x]
    BY <1>7
  <2> QED BY <2>1
<1>9. Precedes(st, a, b)
  <2>1. st.order \in Seq(Path) /\ DOMAIN st.order = 1 .. Len(st.order)
    BY <1>2 DEF StageRec
  <2>2. \A i \in DOMAIN st.order : r.point[st.order[i]] = a[st.order[i]] /\ q.point[st.order[i]] = b[st.order[i]]
    BY <1>7 DEF Roots, ToSet
  <2> QED BY <2>1, <2>2 DEF Precedes
<1>10. \A i \in 1 .. N : i \notin Impure(st) => r.it[i] = q.it[i]
  BY <1>2, <1>5, <1>7, <1>8 DEF Determines
<1>11. \A i \in 1 .. N : /\ r.it[i] = a[st.dims[i].var] /\ q.it[i] = b[st.dims[i].var]
                         /\ r.it[i] \in Int /\ q.it[i] \in Int
  <2>1. \A i \in 1 .. N : a[st.dims[i].var] \in Int /\ b[st.dims[i].var] \in Int
    BY <1>2, <1>3, <1>4, SizesAre DEF Allowed
  <2> QED BY <1>7, <2>1
<1>12. \A i \in Impure(st) : ~IsParallel(st.dims[i].for)
  BY <1>2 DEF Serial
<1>13. DOMAIN r.it = 1 .. N /\ DOMAIN q.it = 1 .. N /\ Len(r.it) = N /\ Len(q.it) = N
  BY <1>6, <1>7
<1>14. Sooner(st, a, b) \/ (st.assoc /\ st.comm /\ Differ(st, a, b))
  BY <1>2, <1>5, <1>8, <1>9 DEF Orders
<1> HIDE DEF N
<1>15. CASE Sooner(st, a, b)
  <2>1. PICK i \in Impure(st) :
              /\ a[st.dims[i].var] < b[st.dims[i].var]
              /\ \A j \in Impure(st) : j > i => a[st.dims[j].var] = b[st.dims[j].var]
    BY <1>15 DEF Sooner
  <2>2. i \in 1 .. N /\ r.it[i] < q.it[i]
    BY <1>6, <1>11, <2>1
  <2>3. \A j \in i + 1 .. N : r.it[j] = q.it[j]
    <3> TAKE j \in i + 1 .. N
    <3>1. j \in 1 .. N /\ j > i
      BY <1>6, <2>2
    <3> QED BY <1>10, <1>11, <2>1, <3>1
  <2> QED BY <1>12, <1>13, <2>1, <2>2, <2>3 DEF Before
<1>16. CASE st.assoc /\ st.comm /\ Differ(st, a, b)
  <2> DEFINE T == {i \in Impure(st) : a[st.dims[i].var] # b[st.dims[i].var]}
  <2>1. T \in SUBSET (1 .. N) /\ T # {}
    BY <1>6, <1>16 DEF Differ
  <2>2. PICK i \in T : \A j \in T : j <= i
    <3> HIDE DEF T
    <3> QED BY <1>6, <2>1, LargestIndex DEF N
  <2>3. i \in 1 .. N /\ i \in Impure(st) /\ r.it[i] # q.it[i]
    BY <1>11, <2>1
  <2>4. \A j \in i + 1 .. N : r.it[j] = q.it[j]
    <3> TAKE j \in i + 1 .. N
    <3>1. j \in 1 .. N /\ ~(j <= i)
      BY <1>6, <2>3
    <3>2. j \notin T
      BY <2>2, <3>1
    <3> QED BY <1>10, <1>11, <3>1, <3>2
  <2>5. r.it[i] < q.it[i] \/ q.it[i] < r.it[i]
    BY <1>11, <2>3
  <2>6. \A j \in i + 1 .. N : q.it[j] = r.it[j]
    BY <2>4
  <2> HIDE DEF T
  <2>7. ~IsParallel(st.dims[i].for)
    BY <1>12, <2>3
  <2>8. CASE r.it[i] < q.it[i]
    BY <1>13, <2>3, <2>4, <2>7, <2>8 DEF Before
  <2>9. CASE q.it[i] < r.it[i]
    BY <1>13, <1>16, <2>3, <2>6, <2>7, <2>9 DEF Before
  <2> QED BY <2>5, <2>8, <2>9
<1> QED BY <1>14, <1>15, <1>16

-----------------------------------------------------------------------------
(* Where a name is among the loops.                                         *)
LastNamed(D, name) == SelectLastInSeq(D, LAMBDA d : Matches(d.var, name))

LEMMA FindName ==
    ASSUME NEW dims, Len(dims) \in Nat, NEW name,
           \A i, j \in 1 .. Len(dims) : Last(dims[i].var) = Last(dims[j].var) => i = j
    PROVE  /\ \A i \in 1 .. Len(dims) : Last(dims[i].var) = name =>
                 /\ Find(dims, name) = i
                 /\ LastNamed(dims, name) = i
           /\ (\A i \in 1 .. Len(dims) : Last(dims[i].var) # name) =>
                 /\ Find(dims, name) = 0
                 /\ LastNamed(dims, name) = 0
<1> DEFINE I == {i \in 1 .. Len(dims) : Matches(dims[i].var, name)}
<1>1. Find(dims, name) = IF I # {} THEN Min(I) ELSE 0
  BY DEF Find, SelectInSeq
<1>2. LastNamed(dims, name) = IF I # {} THEN Max(I) ELSE 0
  BY DEF LastNamed, SelectLastInSeq
<1>3. ASSUME NEW i \in 1 .. Len(dims), Last(dims[i].var) = name
      PROVE  Min(I) = i /\ Max(I) = i /\ I # {}
  <2>1. I = {i}
    BY <1>3 DEF Matches
  <2>2. Min({i}) = i /\ Max({i}) = i
    BY DEF Min, Max
  <2> QED BY <2>1, <2>2
<1>4. (\A i \in 1 .. Len(dims) : Last(dims[i].var) # name) => I = {}
  BY DEF Matches
<1> HIDE DEF I
<1> QED BY <1>1, <1>2, <1>3, <1>4

LEMMA NameFound ==
    ASSUME NEW st \in StageRec, Shape(st), NEW name
    PROVE  /\ name \in DimNames(st) <=> \E i \in 1 .. Len(st.dims) : Last(st.dims[i].var) = name
           /\ name \notin DimNames(st) <=> Find(st.dims, name) = 0
           /\ name \in DimNames(st) => /\ Find(st.dims, name) \in 1 .. Len(st.dims)
                                       /\ Last(st.dims[Find(st.dims, name)].var) = name
<1>1. Len(st.dims) \in Nat /\ DOMAIN st.dims = 1 .. Len(st.dims)
  BY StageTyped
<1>2. \A i, j \in 1 .. Len(st.dims) : Last(st.dims[i].var) = Last(st.dims[j].var) => i = j
  BY DEF Shape
<1>3. name \in DimNames(st) <=> \E i \in 1 .. Len(st.dims) : Last(st.dims[i].var) = name
  BY <1>1 DEF DimNames
<1>4. /\ \A i \in 1 .. Len(st.dims) : Last(st.dims[i].var) = name => Find(st.dims, name) = i
      /\ (\A i \in 1 .. Len(st.dims) : Last(st.dims[i].var) # name) => Find(st.dims, name) = 0
  BY <1>1, <1>2, FindName
<1> QED BY <1>3, <1>4

-----------------------------------------------------------------------------
(* The stage as Function::define leaves it.                                 *)
AsDefined(def, st) ==
    /\ Len(def.rvars) \in Nat /\ Len(def.args) \in Nat
    /\ Len(st.dims) = Len(def.rvars) + Len(def.args) + 1
    /\ \A i \in 1 .. Len(def.rvars) :
          /\ st.dims[i].var = <<def.rvars[i]>> /\ st.dims[i].for = "serial"
          /\ st.dims[i].type = IF def.rvars[i] \in def.impure THEN "ImpureRVar" ELSE "PureRVar"
          /\ def.rvars[i] \in DOMAIN def.ext \cap RVarNames
    /\ \A i \in 1 .. Len(def.args) :
          /\ st.dims[Len(def.rvars) + i].var = <<def.args[i]>>
          /\ st.dims[Len(def.rvars) + i].type = "PureVar" /\ st.dims[Len(def.rvars) + i].for = def.for
          /\ def.args[i] \in DOMAIN def.ext \ RVarNames
    /\ st.dims[Len(def.rvars) + Len(def.args) + 1] = Outermost
    /\ st.dims \in Seq(DimRec) /\ def.for \in {"serial", "extern"}
    /\ st.order = [i \in 1 .. Len(def.rvars) |-> <<def.rvars[i]>>] /\ st.rvars = st.order
    /\ DOMAIN def.args = 1 .. Len(def.args) /\ DOMAIN def.rvars = 1 .. Len(def.rvars)
    /\ st.splits = << >>
    /\ st.args = def.args /\ st.init = def.init /\ (st.init => Len(def.rvars) = 0)
    /\ st.impure = {<<r>> : r \in def.impure} /\ def.impure \subseteq ToSet(def.rvars)
    /\ \A n \in DOMAIN def.ext : n # OutermostName /\ n \in Name
    /\ OutermostName \in Name /\ OutermostName \notin RVarNames
    /\ IsInjective(def.args) /\ IsInjective(def.rvars)

LEMMA NewStageIs ==
    ASSUME NEW def \in Definitions
    PROVE  AsDefined(def, NewStage(def))
<1> DEFINE st == NewStage(def)
<1> DEFINE R == Len(def.rvars)
           A == Len(def.args)
           pure == [i \in DOMAIN def.args |-> [Dim(<<def.args[i]>>, "PureVar") EXCEPT !.for = def.for]]
           red == [i \in DOMAIN def.rvars |->
                     Dim(<<def.rvars[i]>>, IF def.rvars[i] \in def.impure THEN "ImpureRVar" ELSE "PureRVar")]
           names == DOMAIN def.ext
<1>1. /\ OutermostName \notin names
      /\ def.args \in Seq(names \ RVarNames) /\ IsInjective(def.args)
      /\ def.rvars \in Seq(names \cap RVarNames) /\ IsInjective(def.rvars)
      /\ def.impure \subseteq ToSet(def.rvars)
      /\ def.init => def.rvars = << >>
      /\ def.for \in {"serial", "extern"}
  BY DefinitionsAssumption
<1>2. /\ R \in Nat /\ A \in Nat /\ DOMAIN def.args = 1 .. A /\ DOMAIN def.rvars = 1 .. R
      /\ \A i \in 1 .. R : def.rvars[i] \in names \cap RVarNames
      /\ \A i \in 1 .. A : def.args[i] \in names \ RVarNames
  BY <1>1
<1>3. /\ \A n \in names : n # OutermostName /\ n \in Name
      /\ OutermostName \in Name /\ OutermostName \notin RVarNames
  BY <1>1, OutermostAssumption DEF Name
<1>4. \A n \in Name : <<n>> \in Path
  BY DEF Path
<1>5. \A i \in 1 .. R : red[i] \in DimRec
  <2> TAKE i \in 1 .. R
  <2>1. <<def.rvars[i]>> \in Path
    BY <1>2, <1>3, <1>4
  <2> HIDE DEF R
  <2> QED BY <1>2, <2>1 DEF Dim, DimRec, Forms
<1>6. \A i \in 1 .. A : pure[i] \in DimRec
  <2> TAKE i \in 1 .. A
  <2>1. <<def.args[i]>> \in Path
    BY <1>2, <1>3, <1>4
  <2> HIDE DEF A
  <2> QED BY <1>1, <1>2, <2>1 DEF Dim, DimRec, Forms
<1>7. Outermost \in DimRec
  BY <1>3, <1>4 DEF Dim, DimRec, Forms, Outermost
<1>8. st.dims = (red \o pure) \o <<Outermost>>
  BY DEF NewStage
<1>9. red \in Seq(DimRec) /\ pure \in Seq(DimRec) /\ Len(red) = R /\ Len(pure) = A
  <2>1. red \in [1 .. R -> DimRec] /\ pure \in [1 .. A -> DimRec]
    BY <1>2, <1>5, <1>6
  <2> HIDE DEF red, pure, R, A
  <2> QED BY <1>2, <2>1
<1>10. /\ st.dims \in Seq(DimRec) /\ Len(st.dims) = R + A + 1
       /\ \A i \in 1 .. R : st.dims[i] = red[i]
       /\ \A i \in 1 .. A : st.dims[R + i] = pure[i]
       /\ st.dims[R + A + 1] = Outermost
  <2>1. <<Outermost>> \in Seq(DimRec) /\ Len(<<Outermost>>) = 1 /\ <<Outermost>>[1] = Outermost
    BY <1>7
  <2> HIDE DEF red, pure, R, A
  <2>2. /\ red \o pure \in Seq(DimRec) /\ Len(red \o pure) = R + A
        /\ \A i \in 1 .. R : (red \o pure)[i] = red[i]
        /\ \A i \in 1 .. A : (red \o pure)[R + i] = pure[i]
    BY <1>2, <1>9
  <2>3. /\ (red \o pure) \o <<Outermost>> \in Seq(DimRec)
        /\ Len((red \o pure) \o <<Outermost>>) = R + A + 1
        /\ \A i \in 1 .. R + A : ((red \o pure) \o <<Outermost>>)[i] = (red \o pure)[i]
        /\ ((red \o pure) \o <<Outermost>>)[R + A + 1] = <<Outermost>>[1]
    <3> DEFINE two == red \o pure
    <3>1. two \in Seq(DimRec) /\ Len(two) = R + A /\ Outermost \in DimRec
      BY <1>7, <2>1, <2>2
    <3> HIDE DEF two
    <3>2. two \o <<Outermost>> = Append(two, Outermost)
      BY <3>1, AppendIsConcat
    <3>3. /\ Append(two, Outermost) \in Seq(DimRec) /\ Len(Append(two, Outermost)) = Len(two) + 1
          /\ \A i \in 1 .. Len(two) : Append(two, Outermost)[i] = two[i]
          /\ Append(two, Outermost)[Len(two) + 1] = Outermost
      BY <3>1, AppendProperties
    <3> QED BY <2>1, <3>1, <3>2, <3>3 DEF two
  <2> QED BY <1>2, <1>8, <2>1, <2>2, <2>3
<1>11. /\ st.order = [i \in 1 .. R |-> <<def.rvars[i]>>] /\ st.rvars = st.order
       /\ st.splits = << >> /\ st.args = def.args /\ st.init = def.init
       /\ st.impure = {<<r>> : r \in def.impure}
  BY <1>2 DEF NewStage
<1>12. st.init => R = 0
  BY <1>1, <1>11
<1>13. \A i \in 1 .. R : /\ red[i].var = <<def.rvars[i]>> /\ red[i].for = "serial"
                          /\ red[i].type = IF def.rvars[i] \in def.impure THEN "ImpureRVar" ELSE "PureRVar"
  BY <1>2 DEF Dim
<1>14. \A i \in 1 .. A : pure[i].var = <<def.args[i]>> /\ pure[i].type = "PureVar" /\ pure[i].for = def.for
  BY <1>2 DEF Dim
<1>15. \A i \in 1 .. R : /\ st.dims[i].var = <<def.rvars[i]>> /\ st.dims[i].for = "serial"
                          /\ st.dims[i].type = IF def.rvars[i] \in def.impure THEN "ImpureRVar" ELSE "PureRVar"
  <2> HIDE DEF red, pure, R, A
  <2> QED BY <1>10, <1>13
<1>16. \A i \in 1 .. A : /\ st.dims[R + i].var = <<def.args[i]>> 
                          /\ st.dims[R + i].type = "PureVar" /\ st.dims[R + i].for = def.for
  <2> HIDE DEF red, pure, R, A
  <2> QED BY <1>10, <1>14
<1>17. /\ \A i \in 1 .. R : def.rvars[i] \in DOMAIN def.ext \cap RVarNames
       /\ \A i \in 1 .. A : def.args[i] \in DOMAIN def.ext \ RVarNames
       /\ R \in Nat /\ A \in Nat /\ DOMAIN def.args = 1 .. A /\ DOMAIN def.rvars = 1 .. R
  BY <1>2
<1>18. Len(st.dims) = R + A + 1 /\ st.dims[R + A + 1] = Outermost /\ st.dims \in Seq(DimRec)
  BY <1>10
<1> HIDE DEF red, pure
<1>19. /\ def.for \in {"serial", "extern"} /\ IsInjective(def.args) /\ IsInjective(def.rvars)
       /\ def.impure \subseteq ToSet(def.rvars)
  BY <1>1
<1> HIDE DEF st
<1>20. AsDefined(def, st)
  BY <1>3, <1>11, <1>12, <1>15, <1>16, <1>17, <1>18, <1>19 DEF AsDefined
<1> QED BY <1>20 DEF st

LEMMA NewStageBase ==
    ASSUME NEW def, NEW st, AsDefined(def, st)
    PROVE  /\ Roots(st) = {<<def.args[i]>> : i \in 1 .. Len(def.args)} \cup {<<def.rvars[i]>> : i \in 1 .. Len(def.rvars)}
           /\ Known(st) = Base(st)
           /\ Base(st) = {st.dims[i].var : i \in 1 .. Len(st.dims)}
           /\ \A i \in 1 .. Len(st.dims) : /\ st.dims[i].var = <<Last(st.dims[i].var)>>
                                           /\ Last(st.dims[i].var) \in Name
           /\ \A p \in Base(st) : p \in Path /\ p # << >> /\ Len(p) = 1
<1> DEFINE R == Len(def.rvars)
           A == Len(def.args)
<1>1. /\ R \in Nat /\ A \in Nat /\ Len(st.dims) = R + A + 1
      /\ \A i \in 1 .. R : st.dims[i].var = <<def.rvars[i]>> /\ def.rvars[i] \in Name
      /\ \A i \in 1 .. A : st.dims[R + i].var = <<def.args[i]>> /\ def.args[i] \in Name
      /\ st.dims[R + A + 1].var = <<OutermostName>>
      /\ st.order = [i \in 1 .. R |-> <<def.rvars[i]>>]
      /\ DOMAIN def.args = 1 .. A
      /\ st.splits = << >> /\ st.args = def.args
      /\ OutermostName \in Name
  <2>1. \A i \in 1 .. R : st.dims[i].var = <<def.rvars[i]>> /\ def.rvars[i] \in DOMAIN def.ext
    BY DEF AsDefined
  <2>2. \A i \in 1 .. A : st.dims[R + i].var = <<def.args[i]>> /\ def.args[i] \in DOMAIN def.ext
    BY DEF AsDefined
  <2>3. st.dims[R + A + 1].var = <<OutermostName>>
    <3>1. st.dims[R + A + 1] = Outermost
      BY DEF AsDefined
    <3> QED BY <3>1 DEF Dim, Outermost
  <2> QED BY <2>1, <2>2, <2>3 DEF AsDefined
<1> HIDE DEF R, A
<1>2. ToPaths(st.args) = {<<def.args[i]>> : i \in 1 .. A}
  BY <1>1 DEF ToPaths
<1>3. ToSet(st.order) = {<<def.rvars[i]>> : i \in 1 .. R}
  <2>1. DOMAIN st.order = 1 .. R /\ \A i \in 1 .. R : st.order[i] = <<def.rvars[i]>>
    BY <1>1
  <2> QED BY <2>1 DEF ToSet
<1>4. Roots(st) = {<<def.args[i]>> : i \in 1 .. A} \cup {<<def.rvars[i]>> : i \in 1 .. R}
  BY <1>2, <1>3 DEF Roots
<1>5. Known(st) = Base(st)
  <2>1. Len(st.splits) = 0
    BY <1>1
  <2> QED BY <2>1, KnownGrows DEF Known
<1>6. \A k \in 1 .. Len(st.dims) : k \in 1 .. R \/ (\E i \in 1 .. A : k = R + i) \/ k = R + A + 1
  <2> SUFFICES ASSUME NEW k \in 1 .. Len(st.dims), k \notin 1 .. R, k # R + A + 1
               PROVE  \E i \in 1 .. A : k = R + i
    OBVIOUS
  <2>1. k - R \in 1 .. A /\ k = R + (k - R)
    BY <1>1
  <2> QED BY <2>1
<1>7. Base(st) = {st.dims[i].var : i \in 1 .. Len(st.dims)}
  <2>1. ASSUME NEW p \in Base(st) PROVE \E i \in 1 .. Len(st.dims) : p = st.dims[i].var
    <3>1. CASE \E i \in 1 .. A : p = <<def.args[i]>>
      <4>1. PICK i \in 1 .. A : p = <<def.args[i]>>
        BY <3>1
      <4>2. R + i \in 1 .. Len(st.dims)
        BY <1>1
      <4> QED BY <1>1, <4>1, <4>2
    <3>2. CASE \E i \in 1 .. R : p = <<def.rvars[i]>>
      <4>1. PICK i \in 1 .. R : p = <<def.rvars[i]>>
        BY <3>2
      <4>2. i \in 1 .. Len(st.dims)
        BY <1>1
      <4> QED BY <1>1, <4>1, <4>2
    <3>3. CASE p = <<OutermostName>>
      <4>1. R + A + 1 \in 1 .. Len(st.dims)
        BY <1>1
      <4> QED BY <1>1, <3>3, <4>1
    <3> QED BY <1>4, <2>1, <3>1, <3>2, <3>3 DEF Base
  <2>2. ASSUME NEW k \in 1 .. Len(st.dims) PROVE st.dims[k].var \in Base(st)
    <3>1. CASE k \in 1 .. R
      BY <1>1, <1>4, <3>1 DEF Base
    <3>2. CASE \E i \in 1 .. A : k = R + i
      <4>1. PICK i \in 1 .. A : k = R + i
        BY <3>2
      <4>2. st.dims[k].var = <<def.args[i]>>
        BY <1>1, <4>1
      <4> QED BY <1>4, <4>2 DEF Base
    <3>3. CASE k = R + A + 1
      BY <1>1, <3>3 DEF Base
    <3> QED BY <1>6, <3>1, <3>2, <3>3
  <2> QED BY <2>1, <2>2
<1>8. \A i \in 1 .. Len(st.dims) : \E n \in Name : st.dims[i].var = <<n>>
  <2> TAKE i \in 1 .. Len(st.dims)
  <2>1. CASE i \in 1 .. R
    BY <1>1, <2>1
  <2>2. CASE \E k \in 1 .. A : i = R + k
    <3>1. PICK k \in 1 .. A : i = R + k
      BY <2>2
    <3>2. st.dims[i].var = <<def.args[k]>>
      BY <1>1, <3>1
    <3> QED BY <1>1, <3>1, <3>2
  <2>3. CASE i = R + A + 1
    BY <1>1, <2>3
  <2> QED BY <1>6, <2>1, <2>2, <2>3
<1>9. \A n \in Name : <<n>> \in Path /\ <<n>> # << >> /\ Len(<<n>>) = 1 /\ Last(<<n>>) = n
  BY DEF Path, Last
<1>10. \A i \in 1 .. Len(st.dims) : st.dims[i].var = <<Last(st.dims[i].var)>> /\ Last(st.dims[i].var) \in Name
  BY <1>8, <1>9
<1>11. \A p \in Base(st) : p \in Path /\ p # << >> /\ Len(p) = 1
  <2> TAKE p \in Base(st)
  <2>1. PICK i \in 1 .. Len(st.dims) : p = st.dims[i].var
    BY <1>7
  <2> QED BY <1>8, <1>9, <2>1
<1> QED BY <1>4, <1>5, <1>7, <1>10, <1>11 DEF R, A

LEMMA NewStageTyped ==
    ASSUME NEW def \in Definitions
    PROVE  NewStage(def) \in StageRec /\ NewStage(def).race = FALSE /\ NewStage(def).kept = << >>
<1> DEFINE st == NewStage(def)
<1>1. AsDefined(def, st)
  BY NewStageIs
<1>2. /\ def.init \in BOOLEAN /\ def.vars \in Seq(DOMAIN def.ext) /\ def.ext \in [DOMAIN def.ext -> Nat \ {0}]
      /\ def.args \in Seq(DOMAIN def.ext \ RVarNames)
  BY DefinitionsAssumption
<1>3. /\ st.dims \in Seq(DimRec) /\ st.splits = << >> /\ st.args = def.args /\ st.init = def.init
      /\ st.rvars = st.order /\ st.impure = {<<r>> : r \in def.impure} /\ def.impure \subseteq ToSet(def.rvars)
  BY <1>1 DEF AsDefined
<1>4. /\ \A n \in DOMAIN def.ext : n \in Name /\ n # OutermostName
      /\ \A i \in 1 .. Len(def.rvars) : def.rvars[i] \in Name
      /\ st.order = [i \in 1 .. Len(def.rvars) |-> <<def.rvars[i]>>]
      /\ DOMAIN def.rvars = 1 .. Len(def.rvars) /\ Len(def.rvars) \in Nat /\ OutermostName \in Name
  <2>1. /\ \A n \in DOMAIN def.ext : n # OutermostName /\ n \in Name
        /\ OutermostName \in Name /\ DOMAIN def.rvars = 1 .. Len(def.rvars) /\ Len(def.rvars) \in Nat
        /\ st.order = [i \in 1 .. Len(def.rvars) |-> <<def.rvars[i]>>]
    BY <1>1 DEF AsDefined
  <2>2. \A i \in 1 .. Len(def.rvars) : def.rvars[i] \in DOMAIN def.ext
    BY <1>1 DEF AsDefined
  <2> QED BY <2>1, <2>2
<1>5. \A n \in Name : <<n>> \in Path
  BY DEF Path
<1>6. st.order \in Seq(Path)
  BY <1>4, <1>5
<1>7. st.impure \in SUBSET Path
  BY <1>3, <1>4, <1>5 DEF ToSet
<1>8. def.vars \in Seq(Name) /\ def.args \in Seq(Name)
  BY <1>2, <1>4
<1>9. << >> \in Seq(SplitRec)
  OBVIOUS
<1>10. st.ext = [q \in {<<n>> : n \in DOMAIN def.ext} \cup {<<OutermostName>>} |->
                   IF q = <<OutermostName>> THEN 1 ELSE def.ext[q[1]]]
  <2>1. st.ext = Put([p \in {<<n>> : n \in DOMAIN def.ext} |-> def.ext[p[1]]], <<OutermostName>>, 1)
    BY DEF NewStage
  <2> QED BY <2>1 DEF Put
<1>11. st.ext \in UNION {[D -> Positive] : D \in SUBSET Path}
  <2> DEFINE D == {<<n>> : n \in DOMAIN def.ext} \cup {<<OutermostName>>}
  <2>1. D \in SUBSET Path
    BY <1>4, <1>5
  <2>2. st.ext \in [D -> Positive]
    <3>1. \A n \in DOMAIN def.ext : def.ext[n] \in Positive
      BY <1>2 DEF Positive
    <3>2. 1 \in Positive
      BY DEF Positive
    <3>3. \A q \in D : q # <<OutermostName>> => q[1] \in DOMAIN def.ext
      OBVIOUS
    <3> QED BY <1>10, <3>1, <3>2, <3>3
  <2> QED BY <2>1, <2>2
<1>12. /\ st.vars = def.vars /\ st.assoc = (def.algebra # "none") /\ st.comm = (def.algebra = "commutative")
       /\ st.race = FALSE /\ st.atomic = FALSE /\ st.override = FALSE
       /\ st.origin = << >> /\ st.kept = << >> /\ st.inwards = TRUE
  BY DEF NewStage
<1>13. st \in StageRec
  <2>1. /\ st = [init |-> st.init, vars |-> st.vars, args |-> st.args, rvars |-> st.rvars,
                 assoc |-> st.assoc, comm |-> st.comm, race |-> st.race, atomic |-> st.atomic, override |-> st.override,
                 dims |-> st.dims, splits |-> st.splits, ext |-> st.ext, order |-> st.order, impure |-> st.impure,
                 origin |-> st.origin, kept |-> st.kept, inwards |-> st.inwards]
    BY DEF NewStage
  <2>2. /\ st.init \in BOOLEAN /\ st.vars \in Seq(Name) /\ st.args \in Seq(Name) /\ st.rvars \in Seq(Path)
        /\ st.assoc \in BOOLEAN /\ st.comm \in BOOLEAN /\ st.race \in BOOLEAN /\ st.atomic \in BOOLEAN
        /\ st.override \in BOOLEAN /\ st.dims \in Seq(DimRec) /\ st.splits \in Seq(SplitRec)
        /\ st.ext \in UNION {[D -> Positive] : D \in SUBSET Path}
        /\ st.order \in Seq(Path) /\ st.impure \in SUBSET Path
        /\ st.origin \in {<< >>} /\ st.kept \in {<< >>} /\ st.inwards \in BOOLEAN
    <3> HIDE DEF st
    <3> QED BY <1>2, <1>3, <1>6, <1>7, <1>8, <1>9, <1>11, <1>12
  <2> HIDE DEF st
  <2> QED BY <2>1, <2>2 DEF StageRec
<1> HIDE DEF st
<1>14. st.race = FALSE /\ st.kept = << >>
  BY <1>12
<1> QED BY <1>13, <1>14 DEF st

LEMMA NewStageShape ==
    ASSUME NEW def \in Definitions, NEW st, st = NewStage(def)
    PROVE  Shape(st) /\ Serial(st)
<1> DEFINE R == Len(def.rvars)
           A == Len(def.args)
           N == R + A + 1
<1>1. AsDefined(def, st)
  BY NewStageIs
<1>2. /\ R \in Nat /\ A \in Nat /\ Len(st.dims) = N /\ N \in Nat
      /\ \A i \in 1 .. R : /\ st.dims[i].var = <<def.rvars[i]>> /\ def.rvars[i] \in RVarNames /\ st.dims[i].for = "serial"
      /\ \A i \in 1 .. A : /\ st.dims[R + i].var = <<def.args[i]>> /\ def.args[i] \notin RVarNames
                           /\ st.dims[R + i].type = "PureVar"
      /\ \A i \in 1 .. R : def.rvars[i] # OutermostName
      /\ \A i \in 1 .. A : def.args[i] # OutermostName
      /\ DOMAIN def.args = 1 .. A /\ DOMAIN def.rvars = 1 .. R
      /\ st.dims[N].var = <<OutermostName>> /\ st.dims[N].type = "PureVar"
      /\ OutermostName \notin RVarNames
  <2>1. /\ R \in Nat /\ A \in Nat /\ Len(st.dims) = N /\ N \in Nat
        /\ DOMAIN def.args = 1 .. A /\ DOMAIN def.rvars = 1 .. R
        /\ \A n \in DOMAIN def.ext : n # OutermostName
        /\ OutermostName \notin RVarNames
    <3>1. /\ R \in Nat /\ A \in Nat /\ Len(st.dims) = N
          /\ DOMAIN def.args = 1 .. A /\ DOMAIN def.rvars = 1 .. R
      BY <1>1 DEF AsDefined
    <3>2. /\ \A n \in DOMAIN def.ext : n # OutermostName
          /\ OutermostName \notin RVarNames
      BY <1>1 DEF AsDefined
    <3>3. N \in Nat
      <4>1. R \in Nat /\ A \in Nat
        BY <3>1
      <4> HIDE DEF R, A
      <4> QED BY <4>1
    <3> QED BY <3>1, <3>2, <3>3
  <2>2. \A i \in 1 .. R : /\ st.dims[i].var = <<def.rvars[i]>> /\ def.rvars[i] \in RVarNames
                          /\ def.rvars[i] \in DOMAIN def.ext /\ st.dims[i].for = "serial"
    BY <1>1 DEF AsDefined
  <2>3. \A i \in 1 .. A : /\ st.dims[R + i].var = <<def.args[i]>> /\ def.args[i] \notin RVarNames
                          /\ st.dims[R + i].type = "PureVar" /\ def.args[i] \in DOMAIN def.ext
    BY <1>1 DEF AsDefined
  <2>4. st.dims[N].var = <<OutermostName>> /\ st.dims[N].type = "PureVar"
    <3>1. st.dims[N] = Outermost
      BY <1>1 DEF AsDefined
    <3> QED BY <3>1 DEF Outermost, Dim
  <2> HIDE DEF R, A, N
  <2> QED BY <2>1, <2>2, <2>3, <2>4
<1>3. /\ \A i, j \in 1 .. R : def.rvars[i] = def.rvars[j] => i = j
      /\ \A i, j \in 1 .. A : def.args[i] = def.args[j] => i = j
  <2>1. IsInjective(def.args) /\ IsInjective(def.rvars)
    BY <1>1 DEF AsDefined
  <2> QED BY <1>2, <2>1 DEF IsInjective
<1>4. /\ Known(st) = Base(st) /\ Base(st) = {st.dims[i].var : i \in 1 .. N}
      /\ \A i \in 1 .. N : st.dims[i].var = <<Last(st.dims[i].var)>>
      /\ \A p \in Base(st) : p \in Path /\ p # << >> /\ Len(p) = 1
  <2>1. Known(st) = Base(st) /\ Base(st) = {st.dims[i].var : i \in 1 .. Len(st.dims)}
    BY <1>1, NewStageBase
  <2>2. \A i \in 1 .. Len(st.dims) : st.dims[i].var = <<Last(st.dims[i].var)>>
    BY <1>1, NewStageBase
  <2>3. \A p \in Base(st) : p \in Path /\ p # << >> /\ Len(p) = 1
    BY <1>1, NewStageBase
  <2> QED BY <1>2, <2>1, <2>2, <2>3
<1>5. st.splits = << >> /\ 1 .. Len(st.splits) = {}
  BY <1>1 DEF AsDefined
<1>6. Proper(st)
  BY <1>5 DEF Proper
<1>7. \A p : (\E i \in 1 .. N : p = st.dims[i].var) <=> IsLeaf(st, p)
  BY <1>4, <1>5 DEF IsLeaf
<1>8. \A k \in 1 .. N : k \in 1 .. R \/ (\E i \in 1 .. A : k = R + i) \/ k = N
  <2> SUFFICES ASSUME NEW k \in 1 .. N, k \notin 1 .. R, k # N
               PROVE  \E i \in 1 .. A : k = R + i
    OBVIOUS
  <2>1. k - R \in 1 .. A /\ k = R + (k - R)
    <3>1. R \in Nat /\ A \in Nat
      BY <1>2
    <3> HIDE DEF R, A
    <3> QED BY <3>1
  <2> QED BY <2>1
<1>9. \A n : Last(<<n>>) = n
  BY DEF Last
<1> HIDE DEF R, A
<1>10. \A i, j \in 1 .. N : Last(st.dims[i].var) = Last(st.dims[j].var) => i = j
  <2> SUFFICES ASSUME NEW i \in 1 .. N, NEW j \in 1 .. N, Last(st.dims[i].var) = Last(st.dims[j].var)
               PROVE  i = j
    OBVIOUS
  <2> DEFINE Kind(k, n) == \/ k \in 1 .. R /\ n = def.rvars[k]
                           \/ \E m \in 1 .. A : k = R + m /\ n = def.args[m]
                           \/ k = N /\ n = OutermostName
  <2>1. ASSUME NEW k \in 1 .. N PROVE Kind(k, Last(st.dims[k].var))
    <3>1. CASE k \in 1 .. R
      BY <1>2, <1>9, <3>1
    <3>2. CASE \E m \in 1 .. A : k = R + m
      <4>1. PICK m \in 1 .. A : k = R + m
        BY <3>2
      <4>2. st.dims[k].var = <<def.args[m]>>
        BY <1>2, <4>1
      <4> QED BY <1>9, <4>1, <4>2
    <3>3. CASE k = N
      BY <1>2, <1>9, <3>3
    <3> QED BY <1>8, <3>1, <3>2, <3>3
  <2>2. Kind(i, Last(st.dims[i].var)) /\ Kind(j, Last(st.dims[i].var))
    BY <2>1
  <2> HIDE DEF N
  <2> QED BY <1>2, <1>3, <2>2
<1>11. \A i \in 1 .. N, p \in Known(st) : ~Under(p, st.dims[i].var)
  <2> TAKE i \in 1 .. N, p \in Known(st)
  <2>1. st.dims[i].var \in Base(st)
    BY <1>4
  <2>2. Len(p) = 1 /\ Len(st.dims[i].var) = 1
    BY <1>4, <2>1
  <2> QED BY <2>2 DEF Under
<1>12. \A p \in Known(st) : p \in Path /\ p # << >>
  BY <1>4
<1>13. \A i \in 1 .. N : st.dims[i].type # "PureVar" => i \in 1 .. R
  <2>1. st.dims[N].type = "PureVar" /\ \A i \in 1 .. A : st.dims[R + i].type = "PureVar"
    BY <1>2
  <2> HIDE DEF N
  <2> QED BY <1>8, <2>1
<1>14. \A i \in 1 .. N : st.dims[i].type # "PureVar" => Last(st.dims[i].var) \in RVarNames
  <2>1. \A i \in 1 .. R : st.dims[i].var = <<def.rvars[i]>> /\ def.rvars[i] \in RVarNames
    BY <1>2
  <2> HIDE DEF N
  <2> QED BY <1>9, <1>13, <2>1
<1>15. Last(st.dims[N].var) = OutermostName
  BY <1>2, <1>9
<1>16. \A i \in 1 .. Len(st.rvars) : st.rvars[i] \in Roots(st)
  <2>1. st.rvars = st.order /\ st.order = [i \in 1 .. R |-> <<def.rvars[i]>>]
    BY <1>1 DEF AsDefined, R
  <2>2. R \in Nat
    BY <1>2
  <2>3. Len(st.order) = R /\ DOMAIN st.order = 1 .. R
    BY <2>1, <2>2
  <2> QED BY <2>1, <2>3 DEF Roots, ToSet
<1>17. st.init => st.order = << >>
  <2>1. (st.init => R = 0) /\ st.order = [i \in 1 .. R |-> <<def.rvars[i]>>]
    BY <1>1 DEF AsDefined, R
  <2> QED BY <2>1
<1>18. st.impure \subseteq ToSet(st.order)
  <2>1. st.impure = {<<r>> : r \in def.impure} /\ def.impure \subseteq ToSet(def.rvars)
        /\ st.order = [i \in 1 .. R |-> <<def.rvars[i]>>]
    BY <1>1 DEF AsDefined, R
  <2> QED BY <1>2, <2>1 DEF ToSet
<1>19. Len(st.dims) = N /\ N > 0
  BY <1>2 DEF N
<1>20. Shape(st)
  <2> HIDE DEF N
  <2> QED BY <1>2, <1>6, <1>7, <1>10, <1>11, <1>12, <1>14, <1>15, <1>16, <1>17, <1>18, <1>19 DEF Shape
<1>21. Serial(st)
  <2>1. \A i \in Impure(st) : i \in 1 .. R
    BY <1>2, <1>13 DEF Impure, IsPure
  <2> QED BY <1>2, <2>1 DEF Serial, IsParallel
<1> QED BY <1>20, <1>21

\* The new stage has its extents; nothing is inside of a split yet.
FirstSizes(st) == [p \in Path |-> IF p \in DOMAIN st.ext THEN st.ext[p] ELSE 1]

LEMMA NewStageSizes ==
    ASSUME NEW def \in Definitions, NEW st, st = NewStage(def)
    PROVE  /\ Sizes(st, FirstSizes(st)) /\ Inners(st, {}) /\ Shifts(st, {})
           /\ FirstSizes(st)[<<OutermostName>>] = 1
<1>1. AsDefined(def, st) /\ st \in StageRec /\ Shape(st)
  BY NewStageIs, NewStageTyped, NewStageShape
<1> DEFINE e == FirstSizes(st)
<1>2. Known(st) = Base(st) /\ \A p \in Base(st) : p \in Path
  BY <1>1, NewStageBase
<1>3. e \in [Path -> Positive]
  <2>1. PICK D \in SUBSET Path : st.ext \in [D -> Positive]
    BY <1>1 DEF StageRec
  <2> QED BY <2>1 DEF FirstSizes, Positive
<1>4. st.ext = Put([p \in {<<n>> : n \in DOMAIN def.ext} |-> def.ext[p[1]]], <<OutermostName>>, 1)
  BY DEF NewStage
<1>5. DOMAIN st.ext = {<<n>> : n \in DOMAIN def.ext} \cup {<<OutermostName>>} /\ st.ext[<<OutermostName>>] = 1
  BY <1>4 DEF Put
<1>6. \A p \in Base(st) : p \in DOMAIN st.ext
  <2>1. Roots(st) = {<<def.args[i]>> : i \in 1 .. Len(def.args)} \cup {<<def.rvars[i]>> : i \in 1 .. Len(def.rvars)}
    BY <1>1, NewStageBase
  <2>2. /\ \A i \in 1 .. Len(def.rvars) : def.rvars[i] \in DOMAIN def.ext
        /\ \A i \in 1 .. Len(def.args) : def.args[i] \in DOMAIN def.ext
    BY <1>1 DEF AsDefined
  <2> QED BY <1>5, <2>1, <2>2 DEF Base
<1>7. \A p \in Base(st) : e[p] = st.ext[p]
  BY <1>2, <1>6 DEF FirstSizes
<1>8. 1 .. Len(st.splits) = {}
  BY <1>1 DEF AsDefined
<1>9. \A i \in 1 .. Len(st.dims) : Last(st.dims[i].var) = OutermostName => e[st.dims[i].var] = 1
  <2> TAKE i \in 1 .. Len(st.dims)
  <2> HAVE Last(st.dims[i].var) = OutermostName
  <2>1. st.dims[i].var = <<Last(st.dims[i].var)>>
    BY <1>1, NewStageBase
  <2>2. <<OutermostName>> \in Base(st)
    BY DEF Base
  <2> QED BY <1>5, <1>7, <2>1, <2>2
<1>10. Sizes(st, e)
  <2> HIDE DEF e
  <2> QED BY <1>3, <1>6, <1>7, <1>8, <1>9 DEF Sizes
<1>11. e[<<OutermostName>>] = 1
  BY <1>2, <1>5, <1>7 DEF Base
<1> QED BY <1>8, <1>10, <1>11 DEF Inners, Shifts

LEMMA NewStageMeans ==
    ASSUME NEW def \in Definitions, NEW st, st = NewStage(def)
    PROVE  Meaning(st, FirstSizes(st), {}, {})
<1> DEFINE R == Len(def.rvars)
           N == Len(st.dims)
           e == FirstSizes(st)
<1>1. AsDefined(def, st) /\ st \in StageRec /\ Shape(st)
  BY NewStageIs, NewStageTyped, NewStageShape
<1>2. Sizes(st, e) /\ Inners(st, {}) /\ Shifts(st, {}) /\ e[<<OutermostName>>] = 1
  BY NewStageSizes
<1>3. /\ Known(st) = Base(st) /\ Base(st) = {st.dims[i].var : i \in 1 .. N}
      /\ \A p \in Base(st) : p \in Path
  BY <1>1, NewStageBase
<1>4. \A i \in 1 .. N : st.dims[i].var = <<Last(st.dims[i].var)>>
  BY <1>1, NewStageBase
<1>5. 1 .. Len(st.splits) = {}
  BY <1>1 DEF AsDefined
<1>6. \A i \in 1 .. N : st.dims[i].var \in Roots(st) \/ st.dims[i].var = <<OutermostName>>
  BY <1>3 DEF Base
<1>7. \A p \in Base(st) : e[p] \in Positive
  BY <1>2, <1>3 DEF Sizes
<1>8. <<OutermostName>> \in Base(st) /\ Last(<<OutermostName>>) = OutermostName /\ Roots(st) \subseteq Base(st)
  BY DEF Base, Last
<1>9. /\ R \in Nat /\ N \in Nat /\ R <= N
      /\ st.order = [i \in 1 .. R |-> <<def.rvars[i]>>]
      /\ \A i \in 1 .. R : st.dims[i].var = <<def.rvars[i]>> /\ def.rvars[i] \in RVarNames
  <2>1. \A i \in 1 .. R : st.dims[i].var = <<def.rvars[i]>> /\ def.rvars[i] \in RVarNames
    BY <1>1 DEF AsDefined
  <2>2. R \in Nat /\ Len(def.args) \in Nat /\ N = R + Len(def.args) + 1 /\ st.order = [i \in 1 .. R |-> <<def.rvars[i]>>]
    BY <1>1 DEF AsDefined
  <2> HIDE DEF N, R
  <2> QED BY <2>1, <2>2
<1>10. \A a : Solves(st, e, a) /\ Guarded(st.splits, e, a)
  <2>1. st.splits = << >>
    BY <1>1 DEF AsDefined
  <2> QED BY <2>1 DEF Solves, Guarded
<1> HIDE DEF e, N, R
<1>11. Covers(st, e)
  <2> SUFFICES ASSUME NEW p \in [Roots(st) -> Int], \A r \in Roots(st) : p[r] \in 0 .. e[r] - 1
               PROVE  \E a : Allowed(st, e, a) /\ InRange(st, e, a) /\ \A r \in Roots(st) : a[r] = p[r]
    BY DEF Covers
  <2> DEFINE a == [q \in Path |-> IF q \in Roots(st) THEN p[q] ELSE 0]
  <2>1. a \in [Path -> Int]
    OBVIOUS
  <2>2. \A r \in Roots(st) : a[r] = p[r]
    BY <1>3, <1>8
  <2>3. a[<<OutermostName>>] \in 0 .. e[<<OutermostName>>] - 1
    <3>1. CASE <<OutermostName>> \in Roots(st)
      BY <2>2, <3>1
    <3>2. CASE <<OutermostName>> \notin Roots(st)
      BY <1>2, <1>3, <1>8, <3>2
    <3> QED BY <3>1, <3>2
  <2> HIDE DEF a
  <2>4. InRange(st, e, a)
    BY <1>6, <2>2, <2>3 DEF InRange, N
  <2>5. Allowed(st, e, a)
    BY <1>10, <2>1 DEF Allowed
  <2> QED BY <2>2, <2>4, <2>5
<1>12. Bounds(st, e, {})
  <2> SUFFICES ASSUME NEW a, Fine(st, e, {}, a), NEW i \in 1 .. Len(st.order)
               PROVE  a[st.order[i]] < e[st.order[i]]
    BY DEF Bounds
  <2>1. i \in 1 .. R /\ st.order[i] = st.dims[i].var /\ i \in 1 .. N
    BY <1>9
  <2>2. Last(st.dims[i].var) \in RVarNames
    <3>1. \A n : Last(<<n>>) = n
      BY DEF Last
    <3>2. st.dims[i].var = <<def.rvars[i]>> /\ def.rvars[i] \in RVarNames
      BY <1>9, <2>1
    <3> QED BY <3>1, <3>2
  <2> QED BY <2>1, <2>2 DEF Fine, Bounded, N
<1>13. ASSUME NEW a, NEW b, Fine(st, e, {}, a), Fine(st, e, {}, b), NEW i \in 1 .. N, st.dims[i].var = <<OutermostName>>
       PROVE  a[st.dims[i].var] = b[st.dims[i].var]
  <2>1. Bounded(st.dims[i].var, {})
    BY <1>8, <1>13 DEF Bounded
  <2>2. /\ a[st.dims[i].var] >= 0 /\ b[st.dims[i].var] >= 0 /\ a[st.dims[i].var] < 1 /\ b[st.dims[i].var] < 1
    BY <1>2, <1>13, <2>1 DEF Fine, N
  <2>3. a[st.dims[i].var] \in Int /\ b[st.dims[i].var] \in Int
    BY <1>3, <1>13 DEF Fine, Allowed
  <2> QED BY <2>2, <2>3
<1>14. Determines(st, e, {}, {}, {})
  BY <1>6, <1>13 DEF Determines, N
<1>15. \A i \in 1 .. N : st.dims[i].var \in st.impure => i \in Impure(st)
  <2> TAKE i \in 1 .. N
  <2> HAVE st.dims[i].var \in st.impure
  <2>1. st.impure = {<<r>> : r \in def.impure} /\ def.impure \subseteq ToSet(def.rvars) /\ DOMAIN def.rvars = 1 .. R
    BY <1>1 DEF AsDefined, R
  <2>2. PICK k \in 1 .. R : def.rvars[k] \in def.impure /\ st.dims[i].var = <<def.rvars[k]>>
    BY <2>1 DEF ToSet
  <2>3. k \in 1 .. N /\ st.dims[k].var = st.dims[i].var
    BY <1>9, <2>2
  <2>4. k = i
    BY <1>1, <2>3 DEF Shape, N
  <2>5. st.dims[k].type = "ImpureRVar"
    <3>1. \A m \in 1 .. R : st.dims[m].type = IF def.rvars[m] \in def.impure THEN "ImpureRVar" ELSE "PureRVar"
      BY <1>1 DEF AsDefined, R
    <3> QED BY <2>2, <3>1
  <2> QED BY <2>4, <2>5 DEF Impure, IsPure, N
<1>16. Determines(st, e, {}, st.impure, Impure(st))
  <2> SUFFICES ASSUME NEW a, NEW b, Fine(st, e, {}, a), Fine(st, e, {}, b), \A r \in Roots(st) \ st.impure : a[r] = b[r],
                      NEW i \in 1 .. N, i \notin Impure(st)
               PROVE  a[st.dims[i].var] = b[st.dims[i].var]
    BY DEF Determines, N
  <2> QED BY <1>6, <1>13, <1>15
<1>17. Orders(st, e, {})
  <2> SUFFICES ASSUME NEW a, NEW b, Fine(st, e, {}, a), Fine(st, e, {}, b), \A r \in Roots(st) \ st.impure : a[r] = b[r],
                      Precedes(st, a, b)
               PROVE  Sooner(st, a, b)
    BY DEF Orders
  <2>1. DOMAIN st.order = 1 .. R /\ Len(st.order) = R /\ \A k \in 1 .. R : st.order[k] = st.dims[k].var /\ k \in 1 .. N
    BY <1>9
  <2>2. PICK k \in 1 .. R : /\ a[st.order[k]] < b[st.order[k]]
                            /\ \A j \in k + 1 .. R : a[st.order[j]] = b[st.order[j]]
    BY <2>1 DEF Precedes
  <2>3. a[st.dims[k].var] < b[st.dims[k].var] /\ a[st.dims[k].var] # b[st.dims[k].var]
    <3>1. a[st.dims[k].var] \in Int /\ b[st.dims[k].var] \in Int
      BY <1>3, <2>1 DEF Fine, Allowed
    <3> QED BY <2>1, <2>2, <3>1
  <2>4. st.dims[k].var \in Roots(st)
    BY <2>1 DEF Roots, ToSet
  <2>5. k \in Impure(st)
    BY <1>15, <2>1, <2>3, <2>4
  <2>6. \A j \in Impure(st) : j > k => a[st.dims[j].var] = b[st.dims[j].var]
    <3> TAKE j \in Impure(st)
    <3> HAVE j > k
    <3>1. j \in 1 .. N /\ st.dims[j].type = "ImpureRVar"
      BY DEF Impure, IsPure, N
    <3>2. j <= R
      <4>1. Len(def.args) \in Nat /\ N = R + Len(def.args) + 1
        BY <1>1 DEF AsDefined, R, N
      <4>2. \A m \in 1 .. Len(def.args) : st.dims[R + m].type = "PureVar"
        BY <1>1 DEF AsDefined, R
      <4>3. st.dims[N].type = "PureVar"
        BY <1>1 DEF Shape, N
      <4> SUFFICES ASSUME j > R, j # N PROVE FALSE
        BY <1>9, <3>1, <4>3
      <4>4. j - R \in 1 .. Len(def.args) /\ R + (j - R) = j
        BY <1>9, <3>1, <4>1
      <4> QED BY <3>1, <4>2, <4>4
    <3>3. j \in k + 1 .. R
      BY <1>9, <3>1, <3>2
    <3> QED BY <2>1, <2>2, <3>3
  <2> QED BY <2>3, <2>5, <2>6 DEF Sooner
<1>18. ASSUME NEW a, Calm(st, e, {}, a), NEW r \in Roots(st) PROVE a[r] \in 0 .. e[r] - 1
  <2>1. PICK i \in 1 .. N : r = st.dims[i].var
    BY <1>3, <1>8
  <2>2. a[r] >= 0 /\ a[r] < e[r]
    BY <1>18, <2>1 DEF Calm, N
  <2>3. a[r] \in Int /\ e[r] \in Positive
    BY <1>3, <1>7, <1>8, <1>18 DEF Calm, Allowed
  <2> QED BY <2>2, <2>3 DEF Positive
<1>19. PureBounds(st, e, {})
  BY <1>18 DEF PureBounds
<1> QED BY <1>2, <1>11, <1>12, <1>14, <1>16, <1>17, <1>19 DEF Meaning, e

LEMMA NewStageInv ==
    ASSUME NEW def \in Definitions
    PROVE  StageInv(NewStage(def))
BY NewStageTyped, NewStageShape, NewStageMeans DEF StageInv

-----------------------------------------------------------------------------
(* The equations of a split concern only what it makes and takes: they may  *)
(* be solved differently elsewhere.                                         *)
Involves(s) == Makes(s) \cup Takes(s)
GuardOf(s, e, a) == s.kind = "split" /\ s.tail = "GuardWithIf" => a[s.old] < e[s.old]

LEMMA SizeLocal ==
    ASSUME NEW s, s.kind \in {"split", "fuse", "rename"},
           NEW e, NEW f, \A p \in Involves(s) : e[p] = f[p]
    PROVE  SizeRule(s, e) <=> SizeRule(s, f)
<1>1. CASE s.kind = "split"
  <2>1. Involves(s) = {s.old, s.inner, s.outer}
    BY <1>1 DEF Involves, Makes, Takes
  <2> QED BY <1>1, <2>1 DEF SizeRule
<1>2. CASE s.kind = "fuse"
  <2>1. Involves(s) = {s.old, s.inner, s.outer}
    BY <1>2 DEF Involves, Makes, Takes
  <2> QED BY <1>2, <2>1 DEF SizeRule
<1>3. CASE s.kind = "rename"
  <2>1. Involves(s) = {s.old, s.outer}
    BY <1>3 DEF Involves, Makes, Takes
  <2> QED BY <1>3, <2>1 DEF SizeRule
<1> QED BY <1>1, <1>2, <1>3

LEMMA InnerLocal ==
    ASSUME NEW s, s.kind \in {"split", "fuse", "rename"},
           NEW u, NEW v, \A p \in Involves(s) : p \in u <=> p \in v
    PROVE  InnerRule(s, u) <=> InnerRule(s, v)
<1>1. CASE s.kind = "split"
  <2>1. Involves(s) = {s.old, s.inner, s.outer}
    BY <1>1 DEF Involves, Makes, Takes
  <2> QED BY <1>1, <2>1 DEF InnerRule
<1>2. CASE s.kind = "fuse"
  <2>1. Involves(s) = {s.old, s.inner, s.outer}
    BY <1>2 DEF Involves, Makes, Takes
  <2> QED BY <1>2, <2>1 DEF InnerRule
<1>3. CASE s.kind = "rename"
  <2>1. Involves(s) = {s.old, s.outer}
    BY <1>3 DEF Involves, Makes, Takes
  <2> QED BY <1>3, <2>1 DEF InnerRule
<1> QED BY <1>1, <1>2, <1>3

LEMMA ShiftLocal ==
    ASSUME NEW s, s.kind \in {"split", "fuse", "rename"},
           NEW u, NEW v, \A p \in Involves(s) : p \in u <=> p \in v
    PROVE  ShiftRule(s, u) <=> ShiftRule(s, v)
<1>1. CASE s.kind = "split"
  <2>1. Involves(s) = {s.old, s.inner, s.outer}
    BY <1>1 DEF Involves, Makes, Takes
  <2> QED BY <1>1, <2>1 DEF ShiftRule
<1>2. CASE s.kind = "fuse"
  <2>1. Involves(s) = {s.old, s.inner, s.outer}
    BY <1>2 DEF Involves, Makes, Takes
  <2> QED BY <1>2, <2>1 DEF ShiftRule
<1>3. CASE s.kind = "rename"
  <2>1. Involves(s) = {s.old, s.outer}
    BY <1>3 DEF Involves, Makes, Takes
  <2> QED BY <1>3, <2>1 DEF ShiftRule
<1> QED BY <1>1, <1>2, <1>3

LEMMA FollowsLocal ==
    ASSUME NEW s, s.kind \in {"split", "fuse", "rename"},
           NEW e, NEW f, \A p \in Involves(s) : e[p] = f[p],
           NEW a, NEW b, \A p \in Involves(s) : a[p] = b[p]
    PROVE  (Follows(s, e, a) <=> Follows(s, f, b)) /\ (GuardOf(s, e, a) <=> GuardOf(s, f, b))
<1>1. CASE s.kind = "split"
  <2>1. Involves(s) = {s.old, s.inner, s.outer}
    BY <1>1 DEF Involves, Makes, Takes
  <2> QED BY <1>1, <2>1 DEF Follows, GuardOf, SplitBase
<1>2. CASE s.kind = "fuse"
  <2>1. Involves(s) = {s.old, s.inner, s.outer}
    BY <1>2 DEF Involves, Makes, Takes
  <2> QED BY <1>2, <2>1 DEF Follows, GuardOf
<1>3. CASE s.kind = "rename"
  <2>1. Involves(s) = {s.old, s.outer}
    BY <1>3 DEF Involves, Makes, Takes
  <2> QED BY <1>3, <2>1 DEF Follows, GuardOf
<1> QED BY <1>1, <1>2, <1>3

LEMMA GuardsAre ==
    ASSUME NEW st \in StageRec, NEW e, NEW a
    PROVE  Guarded(st.splits, e, a) <=> \A i \in 1 .. Len(st.splits) : GuardOf(st.splits[i], e, a)
BY StageTyped DEF Guarded, GuardOf

LEMMA AllowedLocal ==
    ASSUME NEW st \in StageRec, Shape(st), NEW e, NEW f, \A p \in Known(st) : e[p] = f[p],
           NEW a \in [Path -> Int], NEW b \in [Path -> Int], \A p \in Known(st) : a[p] = b[p]
    PROVE  Allowed(st, e, a) <=> Allowed(st, f, b)
<1>1. \A i \in 1 .. Len(st.splits) : Involves(st.splits[i]) \subseteq Known(st)
  BY StageTyped, MadeOnce DEF Shape, Involves
<1>2. \A i \in 1 .. Len(st.splits) : st.splits[i].kind \in {"split", "fuse", "rename"}
  BY StageTyped
<1>3. \A i \in 1 .. Len(st.splits) : /\ Follows(st.splits[i], e, a) <=> Follows(st.splits[i], f, b)
                                     /\ GuardOf(st.splits[i], e, a) <=> GuardOf(st.splits[i], f, b)
  <2> TAKE i \in 1 .. Len(st.splits)
  <2> DEFINE s == st.splits[i]
  <2>1. s.kind \in {"split", "fuse", "rename"}
    BY <1>2
  <2>2. \A p \in Involves(s) : e[p] = f[p]
    BY <1>1
  <2>3. \A p \in Involves(s) : a[p] = b[p]
    BY <1>1
  <2> HIDE DEF s
  <2>4. (Follows(s, e, a) <=> Follows(s, f, b)) /\ (GuardOf(s, e, a) <=> GuardOf(s, f, b))
    BY ONLY <2>1, <2>2, <2>3, FollowsLocal
  <2> QED BY <2>4 DEF s
<1>4. Solves(st, e, a) <=> Solves(st, f, b)
  BY <1>3 DEF Solves
<1>5. Guarded(st.splits, e, a) <=> Guarded(st.splits, f, b)
  BY <1>3, GuardsAre
<1> QED BY <1>4, <1>5 DEF Allowed

LEMMA FineLocal ==
    ASSUME NEW st \in StageRec, Shape(st), NEW e, NEW f, \A p \in Known(st) : e[p] = f[p],
           NEW u, NEW v, \A p \in Known(st) : p \in u <=> p \in v
    PROVE  /\ \A a : Fine(st, e, u, a) <=> Fine(st, f, v, a)
           /\ \A a : Calm(st, e, u, a) <=> Calm(st, f, v, a)
           /\ \A a : InRange(st, e, a) <=> InRange(st, f, a)
<1>1. \A i \in 1 .. Len(st.dims) : st.dims[i].var \in Known(st)
  BY DEF Shape, IsLeaf
<1>2. \A a : Allowed(st, e, a) <=> Allowed(st, f, a)
  <2> TAKE a
  <2>1. CASE a \in [Path -> Int]
    BY <2>1, AllowedLocal
  <2>2. CASE a \notin [Path -> Int]
    BY <2>2 DEF Allowed
  <2> QED BY <2>1, <2>2
<1>3. \A i \in 1 .. Len(st.dims) : /\ Bounded(st.dims[i].var, u) <=> Bounded(st.dims[i].var, v)
                                   /\ st.dims[i].var \in u <=> st.dims[i].var \in v
                                   /\ e[st.dims[i].var] = f[st.dims[i].var]
  BY <1>1 DEF Bounded
<1>4. \A a : Fine(st, e, u, a) <=> Fine(st, f, v, a)
  BY <1>2, <1>3 DEF Fine
<1>5. \A a : Calm(st, e, u, a) <=> Calm(st, f, v, a)
  BY <1>2, <1>3 DEF Calm
<1>6. \A a : InRange(st, e, a) <=> InRange(st, f, a)
  BY <1>3 DEF InRange
<1> QED BY <1>4, <1>5, <1>6

LEMMA Rebase ==
    ASSUME NEW st \in StageRec, Shape(st), NEW e, NEW inner, NEW shifted, Meaning(st, e, inner, shifted),
           NEW f \in [Path -> Positive], NEW u \in SUBSET Path, NEW v \in SUBSET Path,
           \A p \in Known(st) : e[p] = f[p] /\ (p \in inner <=> p \in u) /\ (p \in shifted <=> p \in v)
    PROVE  Meaning(st, f, u, v)
<1>1. /\ \A i \in 1 .. Len(st.splits) : Involves(st.splits[i]) \subseteq Known(st)
      /\ Base(st) \subseteq Known(st) /\ Roots(st) \subseteq Known(st)
      /\ \A i \in 1 .. Len(st.dims) : st.dims[i].var \in Known(st)
  <2>1. Proper(st) /\ Len(st.splits) \in Nat
    BY StageTyped DEF Shape
  <2>2. \A i \in 1 .. Len(st.splits) : Involves(st.splits[i]) \subseteq Known(st)
    BY <2>1, MadeOnce DEF Involves
  <2>3. Base(st) \subseteq Known(st) /\ Roots(st) \subseteq Known(st)
    BY DEF Known, KnownAt, Base
  <2>4. \A i \in 1 .. Len(st.dims) : st.dims[i].var \in Known(st)
    BY DEF Shape, IsLeaf
  <2> QED BY <2>2, <2>3, <2>4
<1>2. \A i \in 1 .. Len(st.splits) : st.splits[i].kind \in {"split", "fuse", "rename"}
  BY StageTyped
<1>3. \A i \in 1 .. Len(st.splits) : /\ SizeRule(st.splits[i], e) <=> SizeRule(st.splits[i], f)
                                     /\ InnerRule(st.splits[i], inner) <=> InnerRule(st.splits[i], u)
                                     /\ ShiftRule(st.splits[i], shifted) <=> ShiftRule(st.splits[i], v)
  <2> TAKE i \in 1 .. Len(st.splits)
  <2> DEFINE s == st.splits[i]
  <2>1. s.kind \in {"split", "fuse", "rename"}
    BY <1>2
  <2>2. \A p \in Involves(s) : e[p] = f[p]
    BY <1>1
  <2>3. \A p \in Involves(s) : p \in inner <=> p \in u
    BY <1>1
  <2>4. \A p \in Involves(s) : p \in shifted <=> p \in v
    BY <1>1
  <2> HIDE DEF s
  <2>5. SizeRule(s, e) <=> SizeRule(s, f)
    BY ONLY <2>1, <2>2, SizeLocal
  <2>6. InnerRule(s, inner) <=> InnerRule(s, u)
    BY ONLY <2>1, <2>3, InnerLocal
  <2>7. ShiftRule(s, shifted) <=> ShiftRule(s, v)
    BY ONLY <2>1, <2>4, ShiftLocal
  <2> QED BY <2>5, <2>6, <2>7 DEF s
<1>4. Sizes(st, f)
  BY <1>1, <1>3 DEF Meaning, Sizes
<1>5. Inners(st, u) /\ Shifts(st, v)
  <2>1. Inners(st, inner) /\ Shifts(st, shifted)
    BY DEF Meaning
  <2> QED BY <1>1, <1>3, <2>1 DEF Inners, Shifts
<1>6. \A a : /\ Fine(st, e, inner, a) <=> Fine(st, f, u, a)
             /\ InRange(st, e, a) <=> InRange(st, f, a)
  BY FineLocal
<1>7. \A a : Calm(st, e, shifted, a) <=> Calm(st, f, v, a)
  BY FineLocal
<1>8. \A a : Allowed(st, e, a) <=> Allowed(st, f, a)
  <2> TAKE a
  <2>1. CASE a \in [Path -> Int]
    BY <2>1, AllowedLocal
  <2>2. CASE a \notin [Path -> Int]
    BY <2>2 DEF Allowed
  <2> QED BY <2>1, <2>2
<1>9. \A r \in Roots(st) : e[r] = f[r]
  BY <1>1
<1>10. Covers(st, f)
  BY <1>6, <1>8, <1>9 DEF Meaning, Covers
<1>11. \A i \in 1 .. Len(st.order) : e[st.order[i]] = f[st.order[i]]
  <2>1. st.order \in Seq(Path)
    BY DEF StageRec
  <2>2. \A i \in 1 .. Len(st.order) : st.order[i] \in Roots(st)
    BY <2>1 DEF Roots, ToSet
  <2> QED BY <1>9, <2>2
<1>12. ASSUME ~st.init
       PROVE  /\ Bounds(st, f, u) /\ Determines(st, f, u, {}, {})
              /\ Determines(st, f, u, st.impure, Impure(st)) /\ Orders(st, f, u)
  <2>1. /\ Bounds(st, e, inner) /\ Determines(st, e, inner, {}, {})
        /\ Determines(st, e, inner, st.impure, Impure(st)) /\ Orders(st, e, inner)
    BY <1>12 DEF Meaning
  <2>2. Bounds(st, f, u)
    BY <1>6, <1>11, <2>1 DEF Bounds
  <2>3. Determines(st, f, u, {}, {}) /\ Determines(st, f, u, st.impure, Impure(st))
    BY <1>6, <2>1 DEF Determines
  <2>4. Orders(st, f, u)
    BY <1>6, <2>1 DEF Orders
  <2> QED BY <2>2, <2>3, <2>4
<1>13. ASSUME st.init PROVE PureBounds(st, f, v)
  <2>1. PureBounds(st, e, shifted)
    BY <1>13 DEF Meaning
  <2>2. Fits(st, f) <=> Fits(st, e)
    <3>1. \A i \in 1 .. Len(st.splits) : st.splits[i].old \in Known(st) \/ st.splits[i].kind # "split"
      BY <1>1 DEF Involves, Takes
    <3> QED BY <3>1 DEF Fits
  <2> QED BY <1>7, <1>9, <2>1, <2>2 DEF PureBounds
<1> QED BY <1>4, <1>5, <1>10, <1>12, <1>13 DEF Meaning

-----------------------------------------------------------------------------
(* When a directive keeps the meaning of a stage: back takes the values of  *)
(* the new loops to those of the old ones.                                  *)
Valuation == [Path -> Int]
Same(st, new) ==
    /\ new.init = st.init /\ new.args = st.args /\ new.order = st.order /\ new.impure = st.impure
    /\ new.ext = st.ext /\ new.rvars = st.rvars /\ new.assoc = st.assoc /\ new.comm = st.comm

LoopsAgree(st, a, b, drop) == \A i \in 1 .. Len(st.dims) : i \notin drop => a[st.dims[i].var] = b[st.dims[i].var]

CarriesPoints(st, new, e) ==
    \A a : Allowed(st, e, a) /\ InRange(st, e, a) =>
        \E b : Allowed(new, e, b) /\ InRange(new, e, b) /\ \A r \in Roots(st) : b[r] = a[r]
CarriesFine(st, new, e, inner, back) ==
    \A a : Fine(new, e, inner, a) => Fine(st, e, inner, back[a])
CarriesLoops(st, new, e, inner, back) ==
    \A a, b : Fine(new, e, inner, a) /\ Fine(new, e, inner, b) =>
        /\ LoopsAgree(st, back[a], back[b], {}) => LoopsAgree(new, a, b, {})
        /\ LoopsAgree(st, back[a], back[b], Impure(st)) => LoopsAgree(new, a, b, Impure(new))
CarriesOrder(st, new, e, inner, back) ==
    \A a, b : Fine(new, e, inner, a) /\ Fine(new, e, inner, b) =>
        /\ Sooner(st, back[a], back[b]) => Sooner(new, a, b) \/ (st.assoc /\ st.comm /\ Differ(new, a, b))
        /\ Differ(st, back[a], back[b]) => Differ(new, a, b)
CarriesCalm(st, new, e, shifted, back) ==
    new.inwards /\ Fits(new, e) =>
        /\ st.inwards /\ Fits(st, e)
        /\ \A a : Calm(new, e, shifted, a) => Calm(st, e, shifted, back[a])

Carries(st, new, e, inner, shifted, back) ==
    /\ back \in [Valuation -> Valuation]
    /\ \A a \in Valuation, r \in Roots(st) : back[a][r] = a[r]
    /\ CarriesPoints(st, new, e)
    /\ ~st.init => /\ CarriesFine(st, new, e, inner, back)
                   /\ CarriesLoops(st, new, e, inner, back)
                   /\ CarriesOrder(st, new, e, inner, back)
    /\ st.init => CarriesCalm(st, new, e, shifted, back)

LEMMA SameRoots ==
    ASSUME NEW st, NEW new, Same(st, new)
    PROVE  Roots(new) = Roots(st) /\ Base(new) = Base(st)
BY DEF Same, Roots, Base

LEMMA Carried ==
    ASSUME NEW st \in StageRec, NEW new, Same(st, new),
           NEW e, NEW inner, NEW shifted, NEW back,
           Meaning(st, e, inner, shifted), Carries(st, new, e, inner, shifted, back),
           Sizes(new, e), Inners(new, inner), Shifts(new, shifted)
    PROVE  Meaning(new, e, inner, shifted)
<1>1. Roots(new) = Roots(st) /\ Base(new) = Base(st)
  BY SameRoots
<1>2. new.init = st.init /\ new.order = st.order /\ new.impure = st.impure /\ new.assoc = st.assoc /\ new.comm = st.comm
  BY DEF Same
<1>3. st.order \in Seq(Path) /\ \A i \in 1 .. Len(st.order) : st.order[i] \in Roots(st)
  <2>1. st.order \in Seq(Path)
    BY DEF StageRec
  <2> QED BY <2>1 DEF Roots, ToSet
<1>4. \A a \in Valuation, r \in Roots(st) : back[a][r] = a[r]
  BY DEF Carries
<1>5. \A a : Fine(new, e, inner, a) => a \in Valuation
  BY DEF Fine, Allowed, Valuation
<1>6. \A a : Calm(new, e, shifted, a) => a \in Valuation
  BY DEF Calm, Allowed, Valuation
<1>7. Covers(new, e)
  <2> SUFFICES ASSUME NEW p \in [Roots(st) -> Int], \A r \in Roots(st) : p[r] \in 0 .. e[r] - 1
               PROVE  \E a : Allowed(new, e, a) /\ InRange(new, e, a) /\ \A r \in Roots(st) : a[r] = p[r]
    BY <1>1 DEF Covers
  <2>1. PICK a : Allowed(st, e, a) /\ InRange(st, e, a) /\ \A r \in Roots(st) : a[r] = p[r]
    BY DEF Meaning, Covers
  <2>2. PICK b : Allowed(new, e, b) /\ InRange(new, e, b) /\ \A r \in Roots(st) : b[r] = a[r]
    BY <2>1 DEF Carries, CarriesPoints
  <2> QED BY <2>1, <2>2
<1>8. ASSUME ~st.init
      PROVE  /\ Bounds(new, e, inner) /\ Determines(new, e, inner, {}, {})
             /\ Determines(new, e, inner, new.impure, Impure(new)) /\ Orders(new, e, inner)
  <2>1. /\ Bounds(st, e, inner) /\ Determines(st, e, inner, {}, {})
        /\ Determines(st, e, inner, st.impure, Impure(st)) /\ Orders(st, e, inner)
    BY <1>8 DEF Meaning
  <2>2. /\ CarriesFine(st, new, e, inner, back)
        /\ CarriesLoops(st, new, e, inner, back)
        /\ CarriesOrder(st, new, e, inner, back)
    BY <1>8 DEF Carries
  <2>3. \A a : Fine(new, e, inner, a) => Fine(st, e, inner, back[a])
    BY <2>2 DEF CarriesFine
  <2>4. Bounds(new, e, inner)
    <3> SUFFICES ASSUME NEW a, Fine(new, e, inner, a), NEW i \in 1 .. Len(st.order)
                 PROVE  a[st.order[i]] < e[st.order[i]]
      BY <1>2 DEF Bounds
    <3>1. back[a][st.order[i]] < e[st.order[i]]
      BY <2>1, <2>3 DEF Bounds
    <3> QED BY <1>3, <1>4, <1>5, <3>1
  <2>5. Determines(new, e, inner, {}, {})
    <3> SUFFICES ASSUME NEW a, NEW b, Fine(new, e, inner, a), Fine(new, e, inner, b), \A r \in Roots(st) : a[r] = b[r]
                 PROVE  LoopsAgree(new, a, b, {})
      BY <1>1 DEF Determines, LoopsAgree
    <3>1. \A r \in Roots(st) : back[a][r] = back[b][r]
      BY <1>4, <1>5
    <3>2. LoopsAgree(st, back[a], back[b], {})
      BY <2>1, <2>3, <3>1 DEF Determines, LoopsAgree
    <3> QED BY <2>2, <3>2 DEF CarriesLoops
  <2>6. Determines(new, e, inner, new.impure, Impure(new))
    <3> SUFFICES ASSUME NEW a, NEW b, Fine(new, e, inner, a), Fine(new, e, inner, b),
                        \A r \in Roots(st) \ st.impure : a[r] = b[r]
                 PROVE  LoopsAgree(new, a, b, Impure(new))
      BY <1>1, <1>2 DEF Determines, LoopsAgree
    <3>1. \A r \in Roots(st) \ st.impure : back[a][r] = back[b][r]
      BY <1>4, <1>5
    <3>2. LoopsAgree(st, back[a], back[b], Impure(st))
      BY <2>1, <2>3, <3>1 DEF Determines, LoopsAgree
    <3> QED BY <2>2, <3>2 DEF CarriesLoops
  <2>7. Orders(new, e, inner)
    <3> SUFFICES ASSUME NEW a, NEW b, Fine(new, e, inner, a), Fine(new, e, inner, b),
                        \A r \in Roots(st) \ st.impure : a[r] = b[r], Precedes(new, a, b)
                 PROVE  Sooner(new, a, b) \/ (st.assoc /\ st.comm /\ Differ(new, a, b))
      BY <1>1, <1>2 DEF Orders
    <3>1. \A r \in Roots(st) : back[a][r] = a[r] /\ back[b][r] = b[r]
      BY <1>4, <1>5
    <3>2. \A r \in Roots(st) \ st.impure : back[a][r] = back[b][r]
      BY <3>1
    <3>3. Precedes(st, back[a], back[b])
      <4>1. DOMAIN st.order = 1 .. Len(st.order)
        BY <1>3
      <4>2. PICK i \in DOMAIN st.order : /\ a[st.order[i]] < b[st.order[i]]
                                         /\ \A j \in i + 1 .. Len(st.order) : a[st.order[j]] = b[st.order[j]]
        BY <1>2 DEF Precedes
      <4>3. \A j \in i + 1 .. Len(st.order) : j \in 1 .. Len(st.order)
        BY <1>3, <4>1
      <4>4. back[a][st.order[i]] < back[b][st.order[i]]
        BY <1>3, <3>1, <4>1, <4>2
      <4>5. \A j \in i + 1 .. Len(st.order) : back[a][st.order[j]] = back[b][st.order[j]]
        BY <1>3, <3>1, <4>2, <4>3
      <4> QED BY <4>4, <4>5 DEF Precedes
    <3>4. Fine(st, e, inner, back[a]) /\ Fine(st, e, inner, back[b])
      BY <2>3
    <3>5. Sooner(st, back[a], back[b]) \/ (st.assoc /\ st.comm /\ Differ(st, back[a], back[b]))
      BY <2>1, <3>2, <3>3, <3>4 DEF Orders
    <3> QED BY <2>2, <3>5 DEF CarriesOrder
  <2> QED BY <2>4, <2>5, <2>6, <2>7
<1>9. ASSUME st.init PROVE PureBounds(new, e, shifted)
  <2> SUFFICES ASSUME new.inwards, Fits(new, e), NEW a, Calm(new, e, shifted, a), NEW r \in Roots(st)
               PROVE  a[r] \in 0 .. e[r] - 1
    BY <1>1 DEF PureBounds
  <2>1. st.inwards /\ Fits(st, e) /\ Calm(st, e, shifted, back[a])
    BY <1>9 DEF Carries, CarriesCalm
  <2>2. back[a][r] \in 0 .. e[r] - 1
    BY <1>9, <2>1 DEF Meaning, PureBounds
  <2> QED BY <1>4, <1>6, <2>2
<1> QED BY <1>2, <1>7, <1>8, <1>9 DEF Meaning

-----------------------------------------------------------------------------
(* Of quotients and remainders.                                             *)
LEMMA MulMonotone ==
    ASSUME NEW x \in Int, NEW y \in Int, NEW f \in Positive, x <= y
    PROVE  x * f <= y * f /\ x * f \in Int /\ y * f \in Int
BY DEF Positive

LEMMA QuotientIs ==
    ASSUME NEW x \in Int, NEW f \in Positive
    PROVE  /\ x \div f \in Int /\ x % f \in 0 .. f - 1
           /\ x = (x \div f) * f + (x % f)
BY DEF Positive

\* The first of two places in blocks of f: the earlier block, or the earlier place in it.
LEMMA BlocksOrder ==
    ASSUME NEW f \in Positive, NEW q \in Int, NEW r \in 0 .. f - 1, NEW u \in Int, NEW v \in 0 .. f - 1
    PROVE  /\ q * f + r = u * f + v => q = u /\ r = v
           /\ q * f + r < u * f + v => q < u \/ (q = u /\ r < v)
<1>1. q < u => q * f + f <= u * f
  <2> HAVE q < u
  <2>1. q + 1 \in Int /\ q + 1 <= u
    OBVIOUS
  <2>2. (q + 1) * f <= u * f
    BY <2>1, MulMonotone
  <2>3. (q + 1) * f = q * f + f
    BY DEF Positive
  <2> QED BY <2>2, <2>3
<1>2. u < q => u * f + f <= q * f
  <2> HAVE u < q
  <2>1. u + 1 \in Int /\ u + 1 <= q
    OBVIOUS
  <2>2. (u + 1) * f <= q * f
    BY <2>1, MulMonotone
  <2>3. (u + 1) * f = u * f + f
    BY DEF Positive
  <2> QED BY <2>2, <2>3
<1>3. q * f \in Int /\ u * f \in Int /\ f \in Int
  BY DEF Positive
<1> QED BY <1>1, <1>2, <1>3

LEMMA QuotientOf ==
    ASSUME NEW f \in Positive, NEW q \in Int, NEW r \in 0 .. f - 1
    PROVE  (q * f + r) \div f = q /\ (q * f + r) % f = r
<1>1. q * f + r \in Int
  BY DEF Positive
<1>2. /\ (q * f + r) \div f \in Int /\ (q * f + r) % f \in 0 .. f - 1
      /\ q * f + r = ((q * f + r) \div f) * f + ((q * f + r) % f)
  BY <1>1, QuotientIs
<1> DEFINE u == (q * f + r) \div f
           v == (q * f + r) % f
<1> HIDE DEF u, v
<1>3. u \in Int /\ v \in 0 .. f - 1 /\ q * f + r = u * f + v
  BY <1>2 DEF u, v
<1>4. q = u /\ r = v
  BY <1>3, BlocksOrder
<1> QED BY <1>4 DEF u, v

\* How many blocks of f cover x.
LEMMA BlocksCover ==
    ASSUME NEW x \in Positive, NEW f \in Positive
    PROVE  /\ (x + f - 1) \div f \in Positive
           /\ \A y \in 0 .. x - 1 : y \div f \in 0 .. (x + f - 1) \div f - 1
           /\ ((x + f - 1) \div f) * f >= x
<1> DEFINE n == (x + f - 1) \div f
           m == (x + f - 1) % f
<1>1. x + f - 1 \in Int /\ x \in Int /\ f \in Int /\ x > 0 /\ f > 0
  BY DEF Positive
<1>2. n \in Int /\ m \in 0 .. f - 1 /\ x + f - 1 = n * f + m
  BY <1>1, QuotientIs
<1> HIDE DEF n, m
<1>3. n * f \in Int /\ n * f >= x
  BY <1>1, <1>2
<1>4. n > 0
  <2> SUFFICES ASSUME n <= 0 PROVE FALSE
    BY <1>2
  <2>1. n * f <= 0 * f
    BY <1>2, MulMonotone
  <2> QED BY <1>1, <1>3, <2>1
<1>5. ASSUME NEW y \in 0 .. x - 1 PROVE y \div f \in 0 .. n - 1
  <2> DEFINE q == y \div f
             r == y % f
  <2>1. q \in Int /\ r \in 0 .. f - 1 /\ y = q * f + r
    <3>1. y \in Int
      BY <1>1
    <3> QED BY <3>1, QuotientIs
  <2> HIDE DEF q, r
  <2>2. q >= 0
    <3> SUFFICES ASSUME q <= -1 PROVE FALSE
      BY <2>1
    <3>1. q * f <= (-1) * f
      BY <2>1, MulMonotone
    <3> QED BY <1>1, <2>1, <3>1
  <2>3. q < n
    <3> SUFFICES ASSUME n <= q PROVE FALSE
      BY <1>2, <2>1
    <3>1. n * f <= q * f
      BY <1>2, <2>1, MulMonotone
    <3>2. q * f \in Int
      BY <1>1, <2>1
    <3> QED BY <1>1, <1>3, <2>1, <3>1, <3>2
  <2> QED BY <1>2, <2>1, <2>2, <2>3 DEF q
<1> QED BY <1>2, <1>3, <1>4, <1>5 DEF Positive, n

-----------------------------------------------------------------------------
(* A directive that appends a split to the list.                            *)
Appends(st, new, s) ==
    /\ new \in StageRec /\ Same(st, new)
    /\ s \in SplitRec /\ new.splits = Append(st.splits, s)
    /\ \A p \in Takes(s) : IsLeaf(st, p)
    /\ Makes(s) \cap Known(st) = {}
    /\ s.kind # "rename" => s.inner # s.outer
    /\ s.kind = "split" => s.factor # 0

LEMMA SplitRecKinds ==
    ASSUME NEW s \in SplitRec
    PROVE  /\ s.kind \in {"split", "fuse", "rename"} /\ s.old \in Path /\ s.inner \in Path /\ s.outer \in Path
           /\ Makes(s) \subseteq Path /\ Takes(s) \subseteq Path /\ s.factor \in Nat
<1>1. s.kind \in {"split", "fuse", "rename"} /\ s.old \in Path /\ s.inner \in Path /\ s.outer \in Path /\ s.factor \in Nat
  BY DEF SplitRec, SplitFields
<1> QED BY <1>1 DEF Makes, Takes

LEMMA AppendedSplits ==
    ASSUME NEW st \in StageRec, NEW new, NEW s, Appends(st, new, s)
    PROVE  /\ Len(st.splits) \in Nat /\ Len(new.splits) = Len(st.splits) + 1
           /\ \A i \in 1 .. Len(st.splits) : new.splits[i] = st.splits[i]
           /\ new.splits[Len(st.splits) + 1] = s
<1>1. st.splits \in Seq(SplitRec) /\ s \in SplitRec /\ new.splits = Append(st.splits, s)
  BY DEF Appends, StageRec
<1> QED BY <1>1, AppendProperties

LEMMA AppendedKnown ==
    ASSUME NEW st \in StageRec, Shape(st), NEW new, NEW s, Appends(st, new, s)
    PROVE  /\ Proper(new)
           /\ Known(new) = Known(st) \cup Makes(s)
           /\ \A p : IsLeaf(new, p) <=> (IsLeaf(st, p) /\ p \notin Takes(s)) \/ p \in Makes(s)
<1> DEFINE N == Len(st.splits)
<1>1. /\ N \in Nat /\ Len(new.splits) = N + 1
      /\ \A i \in 1 .. N : new.splits[i] = st.splits[i]
      /\ new.splits[N + 1] = s
  BY AppendedSplits
<1>2. /\ Same(st, new) /\ Makes(s) \cap Known(st) = {}
      /\ s.kind # "rename" => s.inner # s.outer
      /\ s.kind = "split" => s.factor # 0
  BY DEF Appends
<1>3. \A p \in Takes(s) : IsLeaf(st, p)
  BY DEF Appends
<1>4. Base(new) = Base(st)
  BY <1>2, SameRoots
<1> HIDE DEF N
<1>5. \A n \in 0 .. N : KnownAt(new, n) = KnownAt(st, n)
  <2> TAKE n \in 0 .. N
  <2>1. \A m \in 1 .. n : new.splits[m] = st.splits[m]
    BY <1>1
  <2>2. {Makes(new.splits[m]) : m \in 1 .. n} = {Makes(st.splits[m]) : m \in 1 .. n}
    BY <2>1
  <2> QED BY <1>4, <2>2 DEF KnownAt
<1>6. KnownAt(new, N) = Known(st)
  BY <1>1, <1>5 DEF Known, N
<1>7. Known(new) = Known(st) \cup Makes(s)
  <2>1. N + 1 \in Nat /\ N + 1 > 0 /\ (N + 1) - 1 = N
    BY <1>1
  <2>2. KnownAt(new, N + 1) = KnownAt(new, (N + 1) - 1) \cup Makes(new.splits[N + 1])
    BY <2>1, KnownGrows
  <2> QED BY <1>1, <1>6, <2>1, <2>2 DEF Known
<1>8. Proper(new)
  <2>1. Proper(st)
    BY DEF Shape
  <2> SUFFICES ASSUME NEW n \in 1 .. N + 1
               PROVE  /\ Makes(new.splits[n]) \cap KnownAt(new, n - 1) = {}
                      /\ Takes(new.splits[n]) \subseteq KnownAt(new, n - 1)
                      /\ \A m \in 1 .. n - 1 : Takes(new.splits[n]) \cap Takes(new.splits[m]) = {}
                      /\ new.splits[n].kind # "rename" => new.splits[n].inner # new.splits[n].outer
                      /\ new.splits[n].kind = "split" => new.splits[n].factor # 0
    BY <1>1 DEF Proper
  <2>2. CASE n \in 1 .. N
    <3>1. /\ Makes(st.splits[n]) \cap KnownAt(st, n - 1) = {}
          /\ Takes(st.splits[n]) \subseteq KnownAt(st, n - 1)
          /\ \A m \in 1 .. n - 1 : Takes(st.splits[n]) \cap Takes(st.splits[m]) = {}
          /\ st.splits[n].kind # "rename" => st.splits[n].inner # st.splits[n].outer
          /\ st.splits[n].kind = "split" => st.splits[n].factor # 0
      BY <2>1, <2>2 DEF Proper, N
    <3>2. new.splits[n] = st.splits[n] /\ \A m \in 1 .. n - 1 : new.splits[m] = st.splits[m]
      BY <1>1, <2>2
    <3>3. KnownAt(new, n - 1) = KnownAt(st, n - 1)
      BY <1>1, <1>5, <2>2
    <3> QED BY <3>1, <3>2, <3>3
  <2>3. CASE n = N + 1
    <3>1. new.splits[n] = s /\ n - 1 = N /\ KnownAt(new, n - 1) = Known(st)
      BY <1>1, <1>6, <2>3
    <3>2. Takes(s) \subseteq Known(st) /\ \A m \in 1 .. N : Takes(s) \cap Takes(new.splits[m]) = {}
      BY <1>1, <1>3 DEF IsLeaf, N
    <3> QED BY <1>2, <3>1, <3>2
  <2> QED BY <1>1, <2>2, <2>3
<1>9. \A p : IsLeaf(new, p) <=> (IsLeaf(st, p) /\ p \notin Takes(s)) \/ p \in Makes(s)
  <2> TAKE p
  <2>1. IsLeaf(new, p) <=> p \in Known(new) /\ (\A m \in 1 .. N : p \notin Takes(st.splits[m])) /\ p \notin Takes(s)
    <3>1. 1 .. Len(new.splits) = (1 .. N) \cup {N + 1}
      BY <1>1
    <3> QED BY <1>1, <3>1 DEF IsLeaf
  <2>2. p \in Makes(s) => (\A m \in 1 .. N : p \notin Takes(st.splits[m])) /\ p \notin Takes(s)
    <3> HAVE p \in Makes(s)
    <3>1. p \notin Known(st)
      BY <1>2
    <3>2. \A m \in 1 .. N : Takes(st.splits[m]) \subseteq Known(st)
      BY <1>1, MadeOnce DEF Shape, N
    <3> QED BY <1>3, <3>1, <3>2 DEF IsLeaf
  <2>3. IsLeaf(st, p) <=> p \in Known(st) /\ \A m \in 1 .. N : p \notin Takes(st.splits[m])
    BY DEF IsLeaf, N
  <2> QED BY <1>7, <2>1, <2>2, <2>3
<1> QED BY <1>7, <1>8, <1>9

LEMMA AppendedAllowed ==
    ASSUME NEW st \in StageRec, NEW new, NEW s, Appends(st, new, s), NEW e, NEW a
    PROVE  Allowed(new, e, a) <=> Allowed(st, e, a) /\ Follows(s, e, a) /\ GuardOf(s, e, a)
<1> DEFINE N == Len(st.splits)
<1>1. /\ N \in Nat /\ Len(new.splits) = N + 1
      /\ \A i \in 1 .. N : new.splits[i] = st.splits[i]
      /\ new.splits[N + 1] = s
  BY AppendedSplits
<1>2. new \in StageRec
  BY DEF Appends
<1>3. 1 .. N + 1 = (1 .. N) \cup {N + 1}
  BY <1>1
<1> HIDE DEF N
<1>4. Solves(new, e, a) <=> Solves(st, e, a) /\ Follows(s, e, a)
  BY <1>1, <1>3 DEF Solves, N
<1>5. Guarded(new.splits, e, a) <=> Guarded(st.splits, e, a) /\ GuardOf(s, e, a)
  BY <1>1, <1>2, <1>3, GuardsAre DEF N
<1> QED BY <1>4, <1>5 DEF Allowed

LEMMA AppendedSolutions ==
    ASSUME NEW st \in StageRec, NEW new, NEW s, Appends(st, new, s),
           NEW e, Sizes(st, e), SizeRule(s, e),
           NEW inner, Inners(st, inner), InnerRule(s, inner),
           NEW shifted, Shifts(st, shifted), ShiftRule(s, shifted),
           \A i \in 1 .. Len(new.dims) : Last(new.dims[i].var) = OutermostName => e[new.dims[i].var] = 1
    PROVE  Sizes(new, e) /\ Inners(new, inner) /\ Shifts(new, shifted)
<1> DEFINE N == Len(st.splits)
<1>1. /\ N \in Nat /\ Len(new.splits) = N + 1
      /\ \A i \in 1 .. N : new.splits[i] = st.splits[i]
      /\ new.splits[N + 1] = s
  BY AppendedSplits
<1>2. 1 .. N + 1 = (1 .. N) \cup {N + 1}
  BY <1>1
<1>3. Same(st, new) /\ Base(new) = Base(st)
  BY SameRoots DEF Appends
<1> HIDE DEF N
<1>4. \A i \in 1 .. N : SizeRule(st.splits[i], e) /\ InnerRule(st.splits[i], inner) /\ ShiftRule(st.splits[i], shifted)
  BY DEF Sizes, Inners, Shifts, N
<1>5. \A i \in 1 .. N + 1 : SizeRule(new.splits[i], e) /\ InnerRule(new.splits[i], inner) /\ ShiftRule(new.splits[i], shifted)
  BY <1>1, <1>2, <1>4
<1>6. Sizes(new, e)
  BY <1>1, <1>3, <1>5 DEF Sizes, Same
<1>7. Inners(new, inner)
  BY <1>1, <1>3, <1>5 DEF Inners
<1>8. Shifts(new, shifted)
  BY <1>1, <1>3, <1>5 DEF Shifts
<1> QED BY <1>6, <1>7, <1>8

Extended(st, s, e, inner, shifted) ==
    /\ Meaning(st, e, inner, shifted)
    /\ SizeRule(s, e) /\ InnerRule(s, inner) /\ ShiftRule(s, shifted)

LEMMA Extendable ==
    ASSUME NEW st \in StageRec, Shape(st), NEW new, NEW s, Appends(st, new, s),
           NEW e, NEW inner, NEW shifted, Meaning(st, e, inner, shifted)
    PROVE  \E f, u, v : Extended(st, s, f, u, v)
<1>1. /\ s.kind \in {"split", "fuse", "rename"} /\ s.old \in Path /\ s.inner \in Path /\ s.outer \in Path
      /\ s \in SplitRec /\ s.factor \in Nat
      /\ s.kind # "rename" => s.inner # s.outer
      /\ s.kind = "split" => s.factor \in Positive
  BY SplitRecKinds DEF Appends, Positive
<1>2. /\ Takes(s) \subseteq Known(st) /\ Makes(s) \cap Known(st) = {}
  BY DEF Appends, IsLeaf
<1>3. /\ e \in [Path -> Positive] /\ inner \in SUBSET Path /\ shifted \in SUBSET Path
  BY DEF Meaning, Sizes, Inners, Shifts
<1> DEFINE f == [p \in Path |->
                   IF p \in Makes(s)
                   THEN IF s.kind = "split"
                        THEN IF p = s.inner THEN s.factor ELSE (e[s.old] + s.factor - 1) \div s.factor
                        ELSE IF s.kind = "fuse" THEN e[s.inner] * e[s.outer] ELSE e[s.old]
                   ELSE e[p]]
           u == {p \in Path :
                   IF p \in Makes(s)
                   THEN IF s.kind = "split" THEN p = s.inner \/ s.old \in inner
                        ELSE IF s.kind = "fuse" THEN s.inner \in inner \/ s.outer \in inner ELSE s.old \in inner
                   ELSE p \in inner}
           v == {p \in Path :
                   IF p \in Makes(s)
                   THEN IF s.kind = "split"
                        THEN IF s.tail = "ShiftInwards" THEN p = s.outer ELSE s.old \in shifted
                        ELSE IF s.kind = "fuse" THEN FALSE ELSE s.old \in shifted
                   ELSE p \in shifted}
<1>4. f \in [Path -> Positive]
  <2> SUFFICES ASSUME NEW p \in Path PROVE f[p] \in Positive
    OBVIOUS
  <2>1. e[s.old] \in Positive /\ e[s.inner] \in Positive /\ e[s.outer] \in Positive /\ e[p] \in Positive
    BY <1>1, <1>3
  <2>2. s.kind = "split" => (e[s.old] + s.factor - 1) \div s.factor \in Positive
    BY <1>1, <2>1, BlocksCover
  <2>3. e[s.inner] * e[s.outer] \in Positive
    BY <2>1 DEF Positive
  <2> QED BY <1>1, <2>1, <2>2, <2>3
<1>5. u \in SUBSET Path /\ v \in SUBSET Path
  OBVIOUS
<1>6. \A p \in Known(st) : p \in Path /\ p \notin Makes(s)
  BY <1>2 DEF Shape
<1>7. \A p \in Known(st) : e[p] = f[p] /\ (p \in inner <=> p \in u) /\ (p \in shifted <=> p \in v)
  BY <1>6
<1>8. /\ \A p \in Takes(s) : f[p] = e[p] /\ (p \in inner <=> p \in u) /\ (p \in shifted <=> p \in v)
      /\ Takes(s) \cap Makes(s) = {}
  BY <1>2, <1>7
<1>9. SizeRule(s, f) /\ InnerRule(s, u) /\ ShiftRule(s, v)
  <2>1. CASE s.kind = "split"
    <3>1. Makes(s) = {s.inner, s.outer} /\ Takes(s) = {s.old} /\ s.inner # s.outer
      BY <1>1, <2>1 DEF Makes, Takes
    <3>2. f[s.inner] = s.factor /\ f[s.outer] = (e[s.old] + s.factor - 1) \div s.factor /\ f[s.old] = e[s.old]
      BY <1>1, <1>8, <2>1, <3>1
    <3>3. s.inner \in u /\ (s.outer \in u <=> s.old \in inner) /\ (s.old \in u <=> s.old \in inner)
      BY <1>1, <1>8, <2>1, <3>1
    <3>4. /\ s.old \in v <=> s.old \in shifted
          /\ s.tail = "ShiftInwards" => s.outer \in v /\ s.inner \notin v
          /\ s.tail # "ShiftInwards" => (s.outer \in v <=> s.old \in shifted) /\ (s.inner \in v <=> s.old \in shifted)
      BY <1>1, <1>8, <2>1, <3>1
    <3> HIDE DEF f, u, v
    <3> QED BY <2>1, <3>2, <3>3, <3>4 DEF SizeRule, InnerRule, ShiftRule
  <2>2. CASE s.kind = "fuse"
    <3>1. Makes(s) = {s.old} /\ Takes(s) = {s.inner, s.outer}
      BY <2>2 DEF Makes, Takes
    <3>2. f[s.old] = e[s.inner] * e[s.outer] /\ f[s.inner] = e[s.inner] /\ f[s.outer] = e[s.outer]
      BY <1>1, <1>8, <2>2, <3>1
    <3>3. /\ s.old \in u <=> (s.inner \in inner \/ s.outer \in inner)
          /\ s.inner \in u <=> s.inner \in inner
          /\ s.outer \in u <=> s.outer \in inner
          /\ s.old \notin v
      BY <1>1, <1>8, <2>2, <3>1
    <3> HIDE DEF f, u, v
    <3> QED BY <2>2, <3>2, <3>3 DEF SizeRule, InnerRule, ShiftRule
  <2>3. CASE s.kind = "rename"
    <3>1. Makes(s) = {s.outer} /\ Takes(s) = {s.old}
      BY <2>3 DEF Makes, Takes
    <3>2. f[s.outer] = e[s.old] /\ f[s.old] = e[s.old]
      BY <1>1, <1>8, <2>3, <3>1
    <3>3. /\ s.outer \in u <=> s.old \in inner
          /\ s.old \in u <=> s.old \in inner
          /\ s.outer \in v <=> s.old \in shifted
          /\ s.old \in v <=> s.old \in shifted
      BY <1>1, <1>8, <2>3, <3>1
    <3> HIDE DEF f, u, v
    <3> QED BY <2>3, <3>2, <3>3 DEF SizeRule, InnerRule, ShiftRule
  <2> QED BY <1>1, <2>1, <2>2, <2>3
<1> HIDE DEF f, u, v
<1>10. Meaning(st, f, u, v)
  BY <1>4, <1>5, <1>7, Rebase
<1> QED BY <1>9, <1>10 DEF Extended

\* m was made of the loop l.
MadeOf(st, l, m, n) ==
    /\ l \in Path /\ l \in Known(st) /\ m \in Path /\ m # << >> /\ Last(m) = n
    /\ Len(m) = Len(l) + 1 /\ Len(l) \in Nat /\ \A k \in 1 .. Len(l) : m[k] = l[k]
    /\ m \notin Known(st)

LEMMA FreshPath ==
    ASSUME NEW st \in StageRec, Shape(st), NEW i \in 1 .. Len(st.dims), NEW n \in Name
    PROVE  MadeOf(st, st.dims[i].var, Append(st.dims[i].var, n), n)
<1> DEFINE l == st.dims[i].var
           m == Append(l, n)
<1>1. l \in Known(st) /\ l \in Path
  BY DEF Shape, IsLeaf
<1>2. l \in Seq(Name)
  BY <1>1 DEF Path
<1>3. /\ m \in Seq(Name) /\ m # << >> /\ Len(m) = Len(l) + 1 /\ Len(l) \in Nat
      /\ \A k \in 1 .. Len(l) : m[k] = l[k]
      /\ m[Len(l) + 1] = n
  BY <1>2, AppendProperties
<1>4. Under(m, l)
  BY <1>3 DEF Under
<1>5. m \notin Known(st)
  BY <1>4 DEF Shape
<1> QED BY <1>1, <1>3, <1>5 DEF Last, Path, MadeOf

\* The loops after a directive that appends the split s: it was made of the loop l.
Grows(st, new, s, l) ==
    /\ l \in Takes(s)
    /\ \A m \in Makes(s) : \E n \in Name : MadeOf(st, l, m, n)
    /\ \A p : (\E i \in 1 .. Len(new.dims) : p = new.dims[i].var) <=>
                ((\E i \in 1 .. Len(st.dims) : p = st.dims[i].var) /\ p \notin Takes(s)) \/ p \in Makes(s)
    /\ \A i, j \in 1 .. Len(new.dims) : Last(new.dims[i].var) = Last(new.dims[j].var) => i = j
    /\ Len(new.dims) > 0 /\ new.dims[Len(new.dims)].type = "PureVar"
    /\ Last(new.dims[Len(new.dims)].var) = OutermostName
    /\ \A i \in 1 .. Len(new.dims) : new.dims[i].type # "PureVar" => Last(new.dims[i].var) \in RVarNames

LEMMA AppendedShape ==
    ASSUME NEW st \in StageRec, Shape(st), NEW new, NEW s, Appends(st, new, s), NEW l, Grows(st, new, s, l)
    PROVE  Shape(new)
<1>1. /\ Proper(new)
      /\ Known(new) = Known(st) \cup Makes(s)
      /\ \A p : IsLeaf(new, p) <=> (IsLeaf(st, p) /\ p \notin Takes(s)) \/ p \in Makes(s)
  BY AppendedKnown
<1>2. \A p : (\E i \in 1 .. Len(st.dims) : p = st.dims[i].var) <=> IsLeaf(st, p)
  BY DEF Shape
<1>3. \A p : (\E i \in 1 .. Len(new.dims) : p = new.dims[i].var) <=>
                ((\E i \in 1 .. Len(st.dims) : p = st.dims[i].var) /\ p \notin Takes(s)) \/ p \in Makes(s)
  BY DEF Grows
<1>4. \A p : (\E i \in 1 .. Len(new.dims) : p = new.dims[i].var) <=> IsLeaf(new, p)
  BY <1>1, <1>2, <1>3
<1>5. l \in Takes(s) /\ l \in Known(st) /\ \E i \in 1 .. Len(st.dims) : l = st.dims[i].var
  <2>1. l \in Takes(s)
    BY DEF Grows
  <2>2. IsLeaf(st, l)
    BY <2>1 DEF Appends
  <2> QED BY <1>2, <2>1, <2>2 DEF IsLeaf
<1>6. \A m \in Makes(s) : \E n \in Name : MadeOf(st, l, m, n)
  BY DEF Grows
<1>7. \A m \in Makes(s) : /\ m \in Path /\ m # << >> /\ l \in Path /\ Len(m) = Len(l) + 1 /\ Len(l) \in Nat
                           /\ \A k \in 1 .. Len(l) : m[k] = l[k]
  BY <1>6 DEF MadeOf
<1>8. \A p \in Known(st) : \A q : (\E i \in 1 .. Len(st.dims) : q = st.dims[i].var) => ~Under(p, q)
  BY DEF Shape
<1>9. \A p \in Known(st) : p \in Path /\ p # << >>
  BY DEF Shape
<1>10. ASSUME NEW i \in 1 .. Len(new.dims), NEW p \in Known(new), Under(p, new.dims[i].var) PROVE FALSE
  <2> DEFINE d == new.dims[i].var
  <2>1. ((\E k \in 1 .. Len(st.dims) : d = st.dims[k].var) /\ d \notin Takes(s)) \/ d \in Makes(s)
    BY <1>3
  <2>2. Len(p) > Len(d) /\ \A k \in 1 .. Len(d) : p[k] = d[k]
    BY <1>10 DEF Under
  <2> HIDE DEF d
  <2>3. CASE d \in Makes(s)
    <3>1. CASE p \in Makes(s)
      BY <1>7, <2>2, <2>3, <3>1
    <3>2. CASE p \in Known(st)
      <4>1. Len(d) = Len(l) + 1 /\ Len(l) \in Nat /\ \A k \in 1 .. Len(l) : d[k] = l[k]
        BY <1>7, <2>3
      <4>2. Len(p) \in Nat
        BY <1>9, <3>2 DEF Path
      <4>3. Under(p, l)
        BY <2>2, <4>1, <4>2 DEF Under
      <4> QED BY <1>5, <1>8, <3>2, <4>3
    <3> QED BY <1>1, <3>1, <3>2
  <2>4. CASE (\E k \in 1 .. Len(st.dims) : d = st.dims[k].var) /\ d \notin Takes(s)
    <3>1. CASE p \in Known(st)
      <4>1. ~Under(p, d)
        BY <1>8, <2>4, <3>1
      <4> QED BY <1>10, <4>1 DEF d
    <3>2. CASE p \in Makes(s)
      <4>1. /\ Len(p) = Len(l) + 1 /\ Len(l) \in Nat /\ \A k \in 1 .. Len(l) : p[k] = l[k]
            /\ l \in Path
        BY <1>7, <3>2
      <4>2. d \in Path /\ Len(d) \in Nat
        <5>1. d \in Path
          BY <1>2, <1>9, <2>4 DEF IsLeaf
        <5> QED BY <5>1 DEF Path
      <4>3. Len(d) <= Len(l) /\ \A k \in 1 .. Len(d) : l[k] = d[k]
        BY <2>2, <4>1, <4>2
      <4>4. CASE Len(d) < Len(l)
        <5>1. Under(l, d)
          BY <4>1, <4>2, <4>3, <4>4 DEF Under
        <5> QED BY <1>5, <1>8, <2>4, <5>1
      <4>5. CASE Len(d) = Len(l)
        <5>1. d = l
          BY <4>1, <4>2, <4>3, <4>5, SeqEqual DEF Path
        <5> QED BY <1>5, <2>4, <5>1
      <4> QED BY <4>1, <4>2, <4>3, <4>4, <4>5
    <3> QED BY <1>1, <3>1, <3>2
  <2> QED BY <2>1, <2>3, <2>4
<1>11. \A p \in Known(new) : p \in Path /\ p # << >>
  BY <1>1, <1>7, <1>9
<1>12. \A i, j \in 1 .. Len(new.dims) : Last(new.dims[i].var) = Last(new.dims[j].var) => i = j
  BY DEF Grows
<1>13. /\ Len(new.dims) > 0 /\ new.dims[Len(new.dims)].type = "PureVar"
       /\ Last(new.dims[Len(new.dims)].var) = OutermostName
       /\ \A i \in 1 .. Len(new.dims) : new.dims[i].type # "PureVar" => Last(new.dims[i].var) \in RVarNames
  BY DEF Grows
<1>14. /\ \A i \in 1 .. Len(new.rvars) : new.rvars[i] \in Roots(new)
       /\ new.init => new.order = << >>
       /\ new.impure \subseteq ToSet(new.order)
  <2>1. Same(st, new) /\ Roots(new) = Roots(st)
    BY SameRoots DEF Appends
  <2> QED BY <2>1 DEF Shape, Same
<1> QED BY <1>1, <1>4, <1>10, <1>11, <1>12, <1>13, <1>14 DEF Shape

LEMMA AppendedInv ==
    ASSUME NEW st, StageInv(st), NEW new, NEW s, Appends(st, new, s), NEW l, Grows(st, new, s, l),
           Serial(new),
           \A e, inner, shifted : Extended(st, s, e, inner, shifted) =>
               /\ \A i \in 1 .. Len(new.dims) : Last(new.dims[i].var) = OutermostName => e[new.dims[i].var] = 1
               /\ \E back : Carries(st, new, e, inner, shifted, back)
    PROVE  StageInv(new)
<1>1. st \in StageRec /\ Shape(st)
  BY DEF StageInv
<1>2. PICK e0, inner0, shifted0 : Meaning(st, e0, inner0, shifted0)
  BY DEF StageInv
<1>3. PICK e, inner, shifted : Extended(st, s, e, inner, shifted)
  BY <1>1, <1>2, Extendable
<1>4. /\ Meaning(st, e, inner, shifted) /\ SizeRule(s, e) /\ InnerRule(s, inner) /\ ShiftRule(s, shifted)
      /\ Sizes(st, e) /\ Inners(st, inner) /\ Shifts(st, shifted)
  BY <1>3 DEF Extended, Meaning
<1>5. Sizes(new, e) /\ Inners(new, inner) /\ Shifts(new, shifted)
  BY <1>1, <1>3, <1>4, AppendedSolutions
<1>6. PICK back : Carries(st, new, e, inner, shifted, back)
  BY <1>3
<1>7. new \in StageRec /\ Same(st, new)
  BY DEF Appends
<1>8. Meaning(new, e, inner, shifted)
  BY <1>1, <1>4, <1>5, <1>6, <1>7, Carried
<1>9. Shape(new)
  BY <1>1, AppendedShape
<1> QED BY <1>7, <1>8, <1>9 DEF StageInv

\* What tells valuations a and b of the old loops apart tells c and d of the new ones apart.
TellsApart(st, new, a, b, c, d) ==
    /\ LoopsAgree(st, a, b, {}) => LoopsAgree(new, c, d, {})
    /\ LoopsAgree(st, a, b, Impure(st)) => LoopsAgree(new, c, d, Impure(new))
    /\ Sooner(st, a, b) => Sooner(new, c, d) \/ (st.assoc /\ st.comm /\ Differ(new, c, d))
    /\ Differ(st, a, b) => Differ(new, c, d)

LEMMA CarriesDirectly ==
    ASSUME NEW st, NEW new, NEW e, NEW inner, NEW shifted, CarriesPoints(st, new, e),
           ~st.init => \A a : Fine(new, e, inner, a) => Fine(st, e, inner, a),
           ~st.init => \A a, b : Fine(new, e, inner, a) /\ Fine(new, e, inner, b) => TellsApart(st, new, a, b, a, b),
           st.init /\ new.inwards /\ Fits(new, e) =>
               st.inwards /\ Fits(st, e) /\ \A a : Calm(new, e, shifted, a) => Calm(st, e, shifted, a)
    PROVE  \E back : Carries(st, new, e, inner, shifted, back)
<1> DEFINE back == [a \in Valuation |-> a]
<1>1. back \in [Valuation -> Valuation] /\ \A a \in Valuation : back[a] = a
  OBVIOUS
<1>2. \A a : (Fine(new, e, inner, a) \/ Calm(new, e, shifted, a)) => a \in Valuation
  BY DEF Fine, Calm, Allowed, Valuation
<1> HIDE DEF back
<1>3. ~st.init => /\ CarriesFine(st, new, e, inner, back)
                  /\ CarriesLoops(st, new, e, inner, back)
                  /\ CarriesOrder(st, new, e, inner, back)
  <2> HAVE ~st.init
  <2>1. CarriesFine(st, new, e, inner, back)
    BY <1>1, <1>2 DEF CarriesFine
  <2>2. CarriesLoops(st, new, e, inner, back)
    BY <1>1, <1>2 DEF CarriesLoops, TellsApart
  <2>3. CarriesOrder(st, new, e, inner, back)
    BY <1>1, <1>2 DEF CarriesOrder, TellsApart
  <2> QED BY <2>1, <2>2, <2>3
<1>4. st.init => CarriesCalm(st, new, e, shifted, back)
  BY <1>1, <1>2 DEF CarriesCalm
<1>5. Carries(st, new, e, inner, shifted, back)
  BY <1>1, <1>3, <1>4 DEF Carries
<1> QED BY <1>5

LEMMA ImpureLoops ==
    ASSUME NEW st
    PROVE  /\ \A i \in Impure(st) : i \in 1 .. Len(st.dims)
           /\ \A i \in 1 .. Len(st.dims) : i \in Impure(st) <=> st.dims[i].type = "ImpureRVar"
BY DEF Impure, IsPure

LEMMA PlaceByPlace ==
    ASSUME NEW st, NEW new, Len(new.dims) = Len(st.dims), Impure(new) = Impure(st),
           NEW a, NEW b, NEW c, NEW d,
           \A i \in 1 .. Len(st.dims) : c[new.dims[i].var] = a[st.dims[i].var],
           \A i \in 1 .. Len(st.dims) : d[new.dims[i].var] = b[st.dims[i].var]
    PROVE  TellsApart(st, new, a, b, c, d)
<1>1. \A i \in Impure(st) : i \in 1 .. Len(st.dims)
  BY ImpureLoops
<1>2. LoopsAgree(st, a, b, {}) => LoopsAgree(new, c, d, {})
  BY DEF LoopsAgree
<1>3. LoopsAgree(st, a, b, Impure(st)) => LoopsAgree(new, c, d, Impure(new))
  BY DEF LoopsAgree
<1>4. Sooner(st, a, b) => Sooner(new, c, d)
  BY <1>1 DEF Sooner
<1>5. Differ(st, a, b) => Differ(new, c, d)
  BY <1>1 DEF Differ
<1> QED BY <1>2, <1>3, <1>4, <1>5 DEF TellsApart

LEMMA AppendedFits ==
    ASSUME NEW st \in StageRec, NEW new, NEW s, Appends(st, new, s), NEW e, Fits(new, e)
    PROVE  /\ Fits(st, e)
           /\ s.kind = "split" /\ s.tail = "ShiftInwards" => e[s.old] >= s.factor
<1> DEFINE N == Len(st.splits)
<1>1. /\ N \in Nat /\ Len(new.splits) = N + 1
      /\ \A i \in 1 .. N : new.splits[i] = st.splits[i]
      /\ new.splits[N + 1] = s
  BY AppendedSplits
<1>2. 1 .. N + 1 = (1 .. N) \cup {N + 1}
  BY <1>1
<1> HIDE DEF N
<1>3. \A i \in 1 .. N + 1 : new.splits[i].kind = "split" /\ new.splits[i].tail = "ShiftInwards"
                              => e[new.splits[i].old] >= new.splits[i].factor
  BY <1>1 DEF Fits
<1>4. Fits(st, e)
  BY <1>1, <1>2, <1>3 DEF Fits, N
<1> QED BY <1>1, <1>2, <1>3, <1>4

\* A valuation of the old stage and values for what s makes.
LEMMA AllowedFurther ==
    ASSUME NEW st \in StageRec, Shape(st), NEW new, NEW s, Appends(st, new, s), NEW e,
           NEW a, Allowed(st, e, a), NEW b \in Valuation, \A p \in Known(st) : b[p] = a[p],
           Follows(s, e, b), GuardOf(s, e, b)
    PROVE  Allowed(new, e, b)
<1>1. a \in [Path -> Int] /\ b \in [Path -> Int]
  BY DEF Allowed, Valuation
<1>2. Allowed(st, e, b)
  BY <1>1, AllowedLocal
<1> QED BY <1>2, AppendedAllowed
=============================================================================
