------------------------- MODULE StageScheduleProofs ------------------------
(***************************************************************************)
(* Each directive keeps the invariant of StagePoints, whatever the names,  *)
(* factors and tails, as long as the author keeps to what the code leaves  *)
(* to him (Overlooked is empty).  Hence the loops of a stage compute,      *)
(* until it is divided by rfactor, what its definition asks for.           *)
(***************************************************************************)
EXTENDS StagePoints

-----------------------------------------------------------------------------
(* Stage::rename                                                            *)
Renamed(st, at, to) == [st.dims EXCEPT ![at] = [@ EXCEPT !.var = to]]

OnlyRenamed(st, at, to, dims) ==
    /\ dims \in Seq(DimRec) /\ Len(dims) = Len(st.dims) /\ dims[at].var = to
    /\ \A i \in 1 .. Len(st.dims) : /\ i # at => dims[i].var = st.dims[i].var
                                    /\ dims[i].type = st.dims[i].type
                                    /\ dims[i].for = st.dims[i].for

LEMMA RenamedDims ==
    ASSUME NEW st \in StageRec, NEW at \in 1 .. Len(st.dims), NEW to \in Path
    PROVE  OnlyRenamed(st, at, to, Renamed(st, at, to))
<1> DEFINE dims == Renamed(st, at, to)
<1>1. st.dims \in Seq(DimRec) /\ Len(st.dims) \in Nat /\ DOMAIN st.dims = 1 .. Len(st.dims)
  BY StageTyped
<1>2. \A i \in 1 .. Len(st.dims) : st.dims[i] \in DimRec
  BY <1>1
<1>3. [st.dims[at] EXCEPT !.var = to] \in DimRec
  BY <1>2 DEF DimRec
<1>4. dims = [i \in 1 .. Len(st.dims) |-> IF i = at THEN [st.dims[at] EXCEPT !.var = to] ELSE st.dims[i]]
  BY <1>1 DEF Renamed
<1>5. dims \in Seq(DimRec) /\ Len(dims) = Len(st.dims)
  BY <1>1, <1>2, <1>3, <1>4
<1>6. /\ [st.dims[at] EXCEPT !.var = to].var = to
      /\ [st.dims[at] EXCEPT !.var = to].type = st.dims[at].type
      /\ [st.dims[at] EXCEPT !.var = to].for = st.dims[at].for
  BY <1>2 DEF DimRec
<1> HIDE DEF dims
<1>7. OnlyRenamed(st, at, to, dims)
  BY <1>4, <1>5, <1>6 DEF OnlyRenamed
<1> QED BY <1>7 DEF dims

Renaming(path, to) ==
    [kind |-> "rename", old |-> path, outer |-> to, inner |-> << >>, factor |-> 1, tail |-> "RoundUp"]

RenamedLater(st, at, to, s, new) == new = [st EXCEPT !.dims = Renamed(st, at, to), !.splits = Append(@, s)]

LEMMA RenameAppends ==
    ASSUME NEW st, StageInv(st), NEW at \in 1 .. Len(st.dims), NEW n \in Name,
           n # OutermostName, Last(st.dims[at].var) # OutermostName,
           n \in RVarNames <=> Last(st.dims[at].var) \in RVarNames,
           \A i \in 1 .. Len(st.dims) : Last(st.dims[i].var) # n,
           NEW to, to = Append(st.dims[at].var, n), NEW s, s = Renaming(st.dims[at].var, to),
           NEW new, RenamedLater(st, at, to, s, new)
    PROVE  StageInv(new)
<1> DEFINE path == st.dims[at].var
           N == Len(st.dims)
<1>1. st \in StageRec /\ Shape(st) /\ Serial(st)
  BY DEF StageInv
<1>2. MadeOf(st, path, to, n)
  BY <1>1, FreshPath
<1>3. /\ path \in Path /\ path \in Known(st) /\ to \in Path /\ to # << >> /\ Last(to) = n /\ to \notin Known(st)
      /\ Last(path) # OutermostName /\ IsLeaf(st, path)
  BY <1>1, <1>2 DEF MadeOf, Shape
<1>4. /\ Len(st.dims) \in Nat /\ st.splits \in Seq(SplitRec) /\ Len(st.splits) \in Nat
  BY <1>1, StageTyped
<1>5. /\ s.kind = "rename" /\ s.old = path /\ s.outer = to /\ Makes(s) = {to} /\ Takes(s) = {path}
      /\ s \in SplitRec
  <2>1. s.kind = "rename" /\ s.old = path /\ s.outer = to
    BY DEF Renaming
  <2>2. << >> \in Path
    BY DEF Path
  <2> QED BY <1>3, <2>1, <2>2 DEF Renaming, Makes, Takes, SplitRec, SplitFields
<1>6. /\ new.dims = Renamed(st, at, to) /\ new.splits = Append(st.splits, s) /\ Same(st, new)
      /\ new.race = st.race /\ new.atomic = st.atomic /\ new.inwards = st.inwards
  BY <1>1 DEF StageRec, Same, RenamedLater
<1>7. /\ new.dims \in Seq(DimRec) /\ Len(new.dims) = N /\ new.dims[at].var = to
      /\ \A i \in 1 .. N : /\ i # at => new.dims[i].var = st.dims[i].var
                           /\ new.dims[i].type = st.dims[i].type
                           /\ new.dims[i].for = st.dims[i].for
  <2>1. OnlyRenamed(st, at, to, new.dims)
    BY <1>1, <1>3, <1>6, RenamedDims
  <2> QED BY <2>1 DEF OnlyRenamed
<1>8. new \in StageRec
  <2>1. new.splits \in Seq(SplitRec)
    <3>1. Append(st.splits, s) \in Seq(SplitRec)
      BY <1>4, <1>5, AppendProperties
    <3> QED BY <1>6, <3>1
  <2>2. new = [st EXCEPT !.dims = new.dims, !.splits = new.splits]
    BY <1>1, <1>6 DEF StageRec, RenamedLater
  <2>3. new.dims \in Seq(DimRec)
    BY <1>7
  <2> QED BY <1>1, <2>1, <2>2, <2>3 DEF StageRec
<1>9. Appends(st, new, s)
  BY <1>3, <1>5, <1>6, <1>8 DEF Appends
<1>17. at \in 1 .. N
  OBVIOUS
<1> HIDE DEF path, N
<1>10. \A i \in 1 .. N : st.dims[i].var = path <=> i = at
  BY <1>1 DEF Shape, N, path
<1>11. \A i \in 1 .. N : i # at => Last(st.dims[i].var) # n
  BY DEF N
<1>12. Grows(st, new, s, path)
  <2>1. \A p : (\E i \in 1 .. N : p = new.dims[i].var) <=>
                ((\E i \in 1 .. N : p = st.dims[i].var) /\ p # path) \/ p = to
    BY <1>7, <1>10, <1>17
  <2>2. \A i, j \in 1 .. N : Last(new.dims[i].var) = Last(new.dims[j].var) => i = j
    <3>1. \A i, j \in 1 .. N : Last(st.dims[i].var) = Last(st.dims[j].var) => i = j
      BY <1>1 DEF Shape, N
    <3>2. /\ Last(new.dims[at].var) = n
          /\ \A i \in 1 .. N : i # at => Last(new.dims[i].var) = Last(st.dims[i].var)
      BY <1>3, <1>7
    <3> QED BY <1>11, <1>17, <3>1, <3>2
  <2>3. /\ N > 0 /\ new.dims[N].type = "PureVar" /\ Last(new.dims[N].var) = OutermostName
    <3>1. N > 0 /\ st.dims[N].type = "PureVar" /\ Last(st.dims[N].var) = OutermostName
      BY <1>1 DEF Shape, N
    <3>2. N # at /\ N \in 1 .. N
      BY <1>3, <1>4, <3>1 DEF path, N
    <3> QED BY <1>7, <3>1, <3>2
  <2>4. \A i \in 1 .. N : new.dims[i].type # "PureVar" => Last(new.dims[i].var) \in RVarNames
    <3>1. \A i \in 1 .. N : st.dims[i].type # "PureVar" => Last(st.dims[i].var) \in RVarNames
      BY <1>1 DEF Shape, N
    <3>2. n \in RVarNames <=> Last(path) \in RVarNames
      BY DEF path
    <3>3. Last(new.dims[at].var) = n /\ new.dims[at].type = st.dims[at].type
      BY <1>3, <1>7, <1>17
    <3>4. st.dims[at].type # "PureVar" => n \in RVarNames
      BY <1>17, <3>1, <3>2 DEF path
    <3>5. \A i \in 1 .. N : i # at => /\ Last(new.dims[i].var) = Last(st.dims[i].var)
                                      /\ new.dims[i].type = st.dims[i].type
      BY <1>7
    <3> QED BY <3>1, <3>3, <3>4, <3>5
  <2>5. /\ path \in Takes(s) /\ \A m \in Makes(s) : \E k \in Name : MadeOf(st, path, m, k)
    BY <1>2, <1>5 DEF path
  <2>6. \A p : (\E i \in 1 .. Len(new.dims) : p = new.dims[i].var) <=>
                ((\E i \in 1 .. Len(st.dims) : p = st.dims[i].var) /\ p \notin Takes(s)) \/ p \in Makes(s)
    <3> TAKE p
    <3>1. (p \in Makes(s) <=> p = to) /\ (p \in Takes(s) <=> p = path)
      BY <1>5
    <3>2. Len(new.dims) = N /\ Len(st.dims) = N
      BY <1>7 DEF N
    <3> QED BY <2>1, <3>1, <3>2
  <2>7. Len(new.dims) = N
    BY <1>7
  <2> QED BY <2>2, <2>3, <2>4, <2>5, <2>6, <2>7 DEF Grows
<1>13. Impure(new) = Impure(st)
  BY <1>7 DEF Impure, IsPure, N
<1>14. Serial(new)
  <2>1. \A i \in Impure(st) : i \in 1 .. N
    BY ImpureLoops DEF N
  <2> QED BY <1>1, <1>6, <1>7, <1>13, <2>1 DEF Serial
<1>15. ASSUME NEW e, NEW inner, NEW shifted, Extended(st, s, e, inner, shifted)
       PROVE  /\ \A i \in 1 .. N : Last(new.dims[i].var) = OutermostName => e[new.dims[i].var] = 1
              /\ \E back : Carries(st, new, e, inner, shifted, back)
  <2>1. /\ Meaning(st, e, inner, shifted) /\ Sizes(st, e)
        /\ e[to] = e[path] /\ (to \in inner <=> path \in inner) /\ (to \in shifted <=> path \in shifted)
    BY <1>5, <1>15 DEF Extended, SizeRule, InnerRule, ShiftRule, Meaning
  <2>2. \A i \in 1 .. N : Last(new.dims[i].var) = OutermostName => e[new.dims[i].var] = 1
    <3>1. \A i \in 1 .. N : Last(st.dims[i].var) = OutermostName => e[st.dims[i].var] = 1
      BY <2>1 DEF Sizes, N
    <3> QED BY <1>17, <1>3, <1>7, <3>1
  <2>3. \A a : Allowed(new, e, a) <=> Allowed(st, e, a) /\ a[path] = a[to]
    <3> TAKE a
    <3>1. Allowed(new, e, a) <=> Allowed(st, e, a) /\ Follows(s, e, a) /\ GuardOf(s, e, a)
      BY <1>1, <1>9, AppendedAllowed
    <3> QED BY <1>5, <3>1 DEF Follows, GuardOf
  <2>4. \A a : Allowed(new, e, a) => \A i \in 1 .. N : a[new.dims[i].var] = a[st.dims[i].var]
    BY <1>17, <1>7, <2>3 DEF path
  <2>5. /\ \A i \in 1 .. N : Bounded(new.dims[i].var, inner) <=> Bounded(st.dims[i].var, inner)
        /\ \A i \in 1 .. N : new.dims[i].var \in shifted <=> st.dims[i].var \in shifted
        /\ \A i \in 1 .. N : e[new.dims[i].var] = e[st.dims[i].var]
    <3>1. \A i \in 1 .. N : i # at => new.dims[i].var = st.dims[i].var
      BY <1>7
    <3>2. new.dims[at].var = to /\ st.dims[at].var = path
      BY <1>7 DEF path
    <3>3. Bounded(to, inner) <=> Bounded(path, inner)
      BY <1>3, <2>1 DEF Bounded, path
    <3>4. \A i \in 1 .. N : Bounded(new.dims[i].var, inner) <=> Bounded(st.dims[i].var, inner)
      BY <1>17, <3>1, <3>2, <3>3
    <3>5. /\ \A i \in 1 .. N : new.dims[i].var \in shifted <=> st.dims[i].var \in shifted
          /\ \A i \in 1 .. N : e[new.dims[i].var] = e[st.dims[i].var]
      BY <1>17, <2>1, <3>1, <3>2
    <3> QED BY <3>4, <3>5
  <2>6. \A a : Fine(new, e, inner, a) => Fine(st, e, inner, a)
    BY <1>7, <2>3, <2>4, <2>5 DEF Fine, N
  <2>7. \A a : Calm(new, e, shifted, a) => Calm(st, e, shifted, a)
    BY <1>7, <2>3, <2>4, <2>5 DEF Calm, N
  <2>8. CarriesPoints(st, new, e)
    <3> SUFFICES ASSUME NEW a, Allowed(st, e, a), InRange(st, e, a)
                 PROVE  \E b : Allowed(new, e, b) /\ InRange(new, e, b) /\ \A r \in Roots(st) : b[r] = a[r]
      BY DEF CarriesPoints
    <3> DEFINE b == [p \in Path |-> IF p = to THEN a[path] ELSE a[p]]
    <3>1. a \in [Path -> Int] /\ b \in Valuation
      BY <1>3 DEF Allowed, Valuation
    <3>2. \A p \in Known(st) : b[p] = a[p]
      BY <1>1, <1>3 DEF Shape
    <3>3. b[to] = b[path]
      BY <1>3
    <3> HIDE DEF b
    <3>4. Follows(s, e, b) /\ GuardOf(s, e, b)
      BY <1>5, <3>3 DEF Follows, GuardOf
    <3>5. Allowed(new, e, b)
      BY <1>1, <1>9, <3>1, <3>2, <3>4, AllowedFurther
    <3>6. \A i \in 1 .. N : st.dims[i].var \in Known(st)
      BY <1>1 DEF Shape, IsLeaf, N
    <3>7. InRange(new, e, b)
      <4>1. ASSUME NEW i \in 1 .. N PROVE b[new.dims[i].var] \in 0 .. e[new.dims[i].var] - 1
        <5>1. a[st.dims[i].var] \in 0 .. e[st.dims[i].var] - 1
          BY DEF InRange, N
        <5>2. b[st.dims[i].var] = a[st.dims[i].var]
          BY <3>2, <3>6
        <5>3. b[new.dims[i].var] = b[st.dims[i].var]
          BY <2>4, <3>5 DEF N
        <5>4. e[new.dims[i].var] = e[st.dims[i].var]
          BY <2>5
        <5> QED BY <5>1, <5>2, <5>3, <5>4
      <4> QED BY <1>7, <4>1 DEF InRange
    <3>8. Roots(st) \subseteq Known(st)
      BY DEF Known, KnownAt, Base
    <3> QED BY <3>2, <3>5, <3>7, <3>8
  <2>9. \A a, b : Fine(new, e, inner, a) /\ Fine(new, e, inner, b) =>
                    TellsApart(st, new, a, b, a, b)
    <3> TAKE a, b
    <3> HAVE Fine(new, e, inner, a) /\ Fine(new, e, inner, b)
    <3>1. \A i \in 1 .. Len(st.dims) : a[new.dims[i].var] = a[st.dims[i].var]
      BY <2>4 DEF Fine, N
    <3>3. \A i \in 1 .. Len(st.dims) : b[new.dims[i].var] = b[st.dims[i].var]
      BY <2>4 DEF Fine, N
    <3>2. Len(new.dims) = Len(st.dims)
      BY <1>7 DEF N
    <3> QED BY <1>13, <3>1, <3>2, <3>3, PlaceByPlace
  <2>10. st.init /\ new.inwards /\ Fits(new, e) =>
               st.inwards /\ Fits(st, e) /\ \A a : Calm(new, e, shifted, a) => Calm(st, e, shifted, a)
    BY <1>1, <1>6, <1>9, <2>7, AppendedFits
  <2>11. \E back : Carries(st, new, e, inner, shifted, back)
    BY <2>6, <2>8, <2>9, <2>10, CarriesDirectly
  <2> QED BY <2>2, <2>11
<1>16. Len(new.dims) = N
  BY <1>7
<1> QED BY <1>9, <1>12, <1>14, <1>15, <1>16, AppendedInv

-----------------------------------------------------------------------------
(* Stage::split                                                             *)
SplitInto(st, at, x, y, dims) ==
    /\ dims \in Seq(DimRec) /\ Len(dims) = Len(st.dims) + 1
    /\ \A i \in 1 .. at - 1 : dims[i] = st.dims[i]
    /\ dims[at] = x /\ dims[at + 1] = y
    /\ \A i \in at + 1 .. Len(st.dims) : dims[i + 1] = st.dims[i]

LEMMA SplitDims ==
    ASSUME NEW st \in StageRec, NEW at \in 1 .. Len(st.dims), NEW x \in DimRec, NEW y \in DimRec
    PROVE  SplitInto(st, at, x, y, SubSeq(st.dims, 1, at - 1) \o <<x, y>> \o SubSeq(st.dims, at + 1, Len(st.dims)))
<1> DEFINE N == Len(st.dims)
           A == SubSeq(st.dims, 1, at - 1)
           B == SubSeq(st.dims, at + 1, N)
           T == <<x, y>>
<1>1. st.dims \in Seq(DimRec) /\ N \in Nat /\ at \in 1 .. N
  BY StageTyped
<1>2. A \in Seq(DimRec) /\ Len(A) = at - 1 /\ \A i \in 1 .. at - 1 : A[i] = st.dims[i]
  <2>1. \A i \in 1 .. at - 1 : st.dims[i] \in DimRec
    BY <1>1
  <2> QED BY <1>1, <2>1, SubSeqProperties
<1>3. B \in Seq(DimRec) /\ Len(B) = N - at /\ \A i \in 1 .. N - at : B[i] = st.dims[at + i]
  <2>1. \A i \in at + 1 .. N : st.dims[i] \in DimRec
    BY <1>1
  <2>2. at + 1 \in Int /\ N \in Int
    BY <1>1
  <2>3. /\ SubSeq(st.dims, at + 1, N) \in Seq(DimRec)
        /\ Len(SubSeq(st.dims, at + 1, N)) = IF at + 1 <= N THEN N - (at + 1) + 1 ELSE 0
        /\ \A i \in 1 .. N - (at + 1) + 1 : SubSeq(st.dims, at + 1, N)[i] = st.dims[(at + 1) + i - 1]
    BY <2>1, <2>2, SubSeqProperties
  <2>4. (IF at + 1 <= N THEN N - (at + 1) + 1 ELSE 0) = N - at /\ N - (at + 1) + 1 = N - at
    BY <1>1
  <2>5. \A i \in 1 .. N - at : (at + 1) + i - 1 = at + i
    BY <1>1
  <2> HIDE DEF N
  <2> QED BY <2>3, <2>4, <2>5
<1>4. T \in Seq(DimRec) /\ Len(T) = 2 /\ T[1] = x /\ T[2] = y
  OBVIOUS
<1> HIDE DEF A, B, T
<1>5. /\ A \o T \in Seq(DimRec) /\ Len(A \o T) = at + 1
      /\ \A i \in 1 .. at - 1 : (A \o T)[i] = st.dims[i]
      /\ (A \o T)[at] = x /\ (A \o T)[at + 1] = y
  <2>1. /\ A \o T \in Seq(DimRec) /\ Len(A \o T) = Len(A) + Len(T)
        /\ \A i \in 1 .. Len(A) + Len(T) : (A \o T)[i] = IF i <= Len(A) THEN A[i] ELSE T[i - Len(A)]
    BY <1>2, <1>4, ConcatProperties
  <2>2. Len(A) + Len(T) = at + 1 /\ at - (at - 1) = 1 /\ (at + 1) - (at - 1) = 2
    BY <1>1, <1>2, <1>4
  <2> HIDE DEF N
  <2>3. \A i \in 1 .. at - 1 : i \in 1 .. at + 1 /\ i <= at - 1
    BY <1>1
  <2>4. at \in 1 .. at + 1 /\ ~(at <= at - 1) /\ at + 1 \in 1 .. at + 1 /\ ~(at + 1 <= at - 1)
    BY <1>1
  <2> QED BY <1>2, <1>4, <2>1, <2>2, <2>3, <2>4
<1> DEFINE C == A \o T
<1> HIDE DEF C
<1>6. /\ C \in Seq(DimRec) /\ Len(C) = at + 1
      /\ \A i \in 1 .. at - 1 : C[i] = st.dims[i]
      /\ C[at] = x /\ C[at + 1] = y
  BY <1>5 DEF C
<1>7. /\ C \o B \in Seq(DimRec) /\ Len(C \o B) = Len(C) + Len(B)
      /\ \A i \in 1 .. Len(C) + Len(B) : (C \o B)[i] = IF i <= Len(C) THEN C[i] ELSE B[i - Len(C)]
  BY <1>3, <1>6, ConcatProperties
<1> HIDE DEF N
<1>8. Len(C) + Len(B) = N + 1
  <2>1. Len(C) = at + 1 /\ Len(B) = N - at
    BY <1>3, <1>6
  <2> QED BY <1>1, <2>1
<1>9. \A i \in 1 .. at + 1 : (C \o B)[i] = C[i]
  BY <1>1, <1>6, <1>7, <1>8
<1>10. \A i \in at + 1 .. N : (C \o B)[i + 1] = st.dims[i]
  <2> TAKE i \in at + 1 .. N
  <2>1. i + 1 \in 1 .. N + 1 /\ ~(i + 1 <= at + 1) /\ (i + 1) - (at + 1) = i - at /\ i - at \in 1 .. N - at /\ at + (i - at) = i
    BY <1>1
  <2>2. (C \o B)[i + 1] = B[i - at]
    BY <1>6, <1>7, <1>8, <2>1
  <2> QED BY <1>3, <2>1, <2>2
<1>11. at \in 1 .. at + 1 /\ at + 1 \in 1 .. at + 1 /\ \A i \in 1 .. at - 1 : i \in 1 .. at + 1
  BY <1>1
<1>12. SplitInto(st, at, x, y, C \o B)
  BY <1>6, <1>7, <1>8, <1>9, <1>10, <1>11 DEF SplitInto, N
<1> QED BY <1>12 DEF A, B, C, T, N

\* The loop at the place at became two loops, the inner one in its place.
Cut(st, new, at, s) ==
    /\ Appends(st, new, s) /\ s.kind = "split"
    /\ at \in 1 .. Len(st.dims) /\ s.old = st.dims[at].var
    /\ Len(new.dims) = Len(st.dims) + 1
    /\ new.dims[at].var = s.inner /\ new.dims[at].type = st.dims[at].type
    /\ new.dims[at + 1].var = s.outer /\ new.dims[at + 1].type = st.dims[at].type
    /\ \A i \in 1 .. at - 1 : new.dims[i] = st.dims[i]
    /\ \A i \in at + 1 .. Len(st.dims) : new.dims[i + 1] = st.dims[i]

LEMMA CutPlaces ==
    ASSUME NEW st \in StageRec, NEW new, NEW at, NEW s, Cut(st, new, at, s)
    PROVE  /\ Len(st.dims) \in Nat /\ at \in 1 .. Len(st.dims) /\ at \in 1 .. Len(new.dims) /\ at + 1 \in 1 .. Len(new.dims)
           /\ \A i \in 1 .. Len(new.dims) : i < at \/ i = at \/ i = at + 1 \/ (i > at + 1 /\ i - 1 \in at + 1 .. Len(st.dims))
           /\ \A i \in 1 .. Len(new.dims) : i < at => i \in 1 .. at - 1 /\ i \in 1 .. Len(st.dims) /\ new.dims[i] = st.dims[i]
           /\ \A i \in 1 .. Len(new.dims) : i > at + 1 => i - 1 \in 1 .. Len(st.dims) /\ new.dims[i] = st.dims[i - 1]
           /\ \A i \in 1 .. Len(st.dims) : i < at => i \in 1 .. Len(new.dims)
           /\ \A i \in 1 .. Len(st.dims) : i > at => i + 1 \in 1 .. Len(new.dims) /\ new.dims[i + 1] = st.dims[i]
<1> DEFINE N == Len(st.dims)
<1>1. N \in Nat
  BY StageTyped
<1>2. at \in 1 .. N /\ Len(new.dims) = N + 1
  BY DEF Cut
<1>3. \A i \in 1 .. at - 1 : new.dims[i] = st.dims[i]
  BY DEF Cut
<1>4. \A i \in at + 1 .. N : new.dims[i + 1] = st.dims[i]
  BY DEF Cut
<1> HIDE DEF N
<1>5. at \in 1 .. N + 1 /\ at + 1 \in 1 .. N + 1
  BY <1>1, <1>2
<1>6. \A i \in 1 .. N + 1 : i < at \/ i = at \/ i = at + 1 \/ (i > at + 1 /\ i - 1 \in at + 1 .. N)
  BY <1>1, <1>2
<1>7. \A i \in 1 .. N + 1 : i < at => i \in 1 .. at - 1 /\ i \in 1 .. N /\ new.dims[i] = st.dims[i]
  BY <1>1, <1>2, <1>3
<1>8. \A i \in 1 .. N + 1 : i > at + 1 => i - 1 \in 1 .. N /\ new.dims[i] = st.dims[i - 1]
  <2> SUFFICES ASSUME NEW i \in 1 .. N + 1, i > at + 1 PROVE i - 1 \in 1 .. N /\ new.dims[i] = st.dims[i - 1]
    OBVIOUS
  <2>1. i - 1 \in at + 1 .. N /\ i - 1 \in 1 .. N /\ (i - 1) + 1 = i
    BY <1>1, <1>2
  <2> QED BY <1>4, <2>1
<1>9. /\ \A i \in 1 .. N : i < at => i \in 1 .. N + 1
      /\ \A i \in 1 .. N : i > at => i + 1 \in 1 .. N + 1 /\ i \in at + 1 .. N
  BY <1>1, <1>2
<1> QED BY <1>1, <1>2, <1>4, <1>5, <1>6, <1>7, <1>8, <1>9 DEF N

LEMMA CutImpure ==
    ASSUME NEW st \in StageRec, NEW new, NEW at, NEW s, Cut(st, new, at, s)
    PROVE  \A i \in 1 .. Len(new.dims) :
               i \in Impure(new) <=> \/ i < at /\ i \in Impure(st)
                                     \/ i \in {at, at + 1} /\ at \in Impure(st)
                                     \/ i > at + 1 /\ i - 1 \in Impure(st)
<1>1. new.dims[at].type = st.dims[at].type /\ new.dims[at + 1].type = st.dims[at].type
  BY DEF Cut
<1>2. at \in Nat
  BY CutPlaces
<1> TAKE i \in 1 .. Len(new.dims)
<1>3. CASE i < at
  <2>1. i \in 1 .. Len(st.dims) /\ new.dims[i] = st.dims[i]
    BY <1>3, CutPlaces
  <2> QED BY <1>2, <1>3, <2>1 DEF Impure
<1>4. CASE i = at \/ i = at + 1
  <2>1. i \in Impure(new) <=> at \in Impure(st)
    BY <1>1, <1>4, CutPlaces DEF Impure, IsPure
  <2> QED BY <1>2, <1>4, <2>1
<1>5. CASE i > at + 1
  <2>1. i - 1 \in 1 .. Len(st.dims) /\ new.dims[i] = st.dims[i - 1]
    BY <1>5, CutPlaces
  <2> QED BY <1>2, <1>5, <2>1 DEF Impure
<1> QED BY <1>3, <1>4, <1>5, CutPlaces

\* In which order the two loops run: that of the loop they were made of.
InBlocks(s, c, d) ==
    /\ c[s.old] = d[s.old] => c[s.inner] = d[s.inner] /\ c[s.outer] = d[s.outer]
    /\ c[s.old] < d[s.old] => \/ c[s.outer] < d[s.outer]
                              \/ c[s.outer] = d[s.outer] /\ c[s.inner] < d[s.inner]
    /\ c[s.inner] = d[s.inner] /\ c[s.outer] = d[s.outer] => c[s.old] = d[s.old]

LEMMA CutLoopsAgree ==
    ASSUME NEW st \in StageRec, NEW new, NEW at, NEW s, Cut(st, new, at, s),
           NEW c, NEW d, InBlocks(s, c, d)
    PROVE  /\ LoopsAgree(st, c, d, {}) => LoopsAgree(new, c, d, {})
           /\ LoopsAgree(st, c, d, Impure(st)) => LoopsAgree(new, c, d, Impure(new))
<1>1. /\ new.dims[at].var = s.inner /\ new.dims[at + 1].var = s.outer /\ st.dims[at].var = s.old
      /\ at \in 1 .. Len(st.dims)
  BY DEF Cut
<1>2. ASSUME NEW i \in 1 .. Len(new.dims), LoopsAgree(st, c, d, {})
      PROVE  c[new.dims[i].var] = d[new.dims[i].var]
  <2>1. CASE i < at
    <3>1. i \in 1 .. Len(st.dims) /\ new.dims[i] = st.dims[i]
      BY <2>1, CutPlaces
    <3> QED BY <1>2, <3>1 DEF LoopsAgree
  <2>2. CASE i = at \/ i = at + 1
    <3>1. c[s.old] = d[s.old]
      BY <1>1, <1>2 DEF LoopsAgree
    <3> QED BY <1>1, <2>2, <3>1 DEF InBlocks
  <2>3. CASE i > at + 1
    <3>1. i - 1 \in 1 .. Len(st.dims) /\ new.dims[i] = st.dims[i - 1]
      BY <2>3, CutPlaces
    <3> QED BY <1>2, <3>1 DEF LoopsAgree
  <2> QED BY <2>1, <2>2, <2>3, CutPlaces
<1>3. ASSUME NEW i \in 1 .. Len(new.dims), i \notin Impure(new), LoopsAgree(st, c, d, Impure(st))
      PROVE  c[new.dims[i].var] = d[new.dims[i].var]
  <2>1. CASE i < at
    <3>1. i \notin Impure(st) /\ i \in 1 .. Len(st.dims) /\ new.dims[i] = st.dims[i]
      BY <1>3, <2>1, CutPlaces, CutImpure
    <3> QED BY <1>3, <3>1 DEF LoopsAgree
  <2>2. CASE i = at \/ i = at + 1
    <3>1. at \notin Impure(st)
      BY <1>3, <2>2, CutImpure
    <3>2. c[s.old] = d[s.old]
      BY <1>1, <1>3, <3>1 DEF LoopsAgree
    <3> QED BY <1>1, <2>2, <3>2 DEF InBlocks
  <2>3. CASE i > at + 1
    <3>1. i - 1 \notin Impure(st) /\ i - 1 \in 1 .. Len(st.dims) /\ new.dims[i] = st.dims[i - 1]
      BY <1>3, <2>3, CutPlaces, CutImpure
    <3> QED BY <1>3, <3>1 DEF LoopsAgree
  <2> QED BY <2>1, <2>2, <2>3, CutPlaces
<1> QED BY <1>2, <1>3 DEF LoopsAgree

LEMMA CutSooner ==
    ASSUME NEW st \in StageRec, NEW new, NEW at, NEW s, Cut(st, new, at, s),
           NEW c, NEW d, InBlocks(s, c, d), Sooner(st, c, d)
    PROVE  Sooner(new, c, d)
<1>1. /\ new.dims[at].var = s.inner /\ new.dims[at + 1].var = s.outer /\ st.dims[at].var = s.old
      /\ at \in 1 .. Len(st.dims) /\ at \in Nat
  BY CutPlaces DEF Cut
<1>2. PICK i \in Impure(st) : /\ c[st.dims[i].var] < d[st.dims[i].var]
                              /\ \A j \in Impure(st) : j > i => c[st.dims[j].var] = d[st.dims[j].var]
  BY DEF Sooner
<1>3. i \in 1 .. Len(st.dims) /\ \A j \in Impure(new) : j \in 1 .. Len(new.dims)
  BY ImpureLoops
<1>4. ASSUME NEW j \in Impure(new), j > at + 1, i <= at \/ j > i + 1
      PROVE  c[new.dims[j].var] = d[new.dims[j].var]
  <2>1. j - 1 \in Impure(st) /\ new.dims[j] = st.dims[j - 1] /\ j \in Nat
    BY <1>1, <1>3, <1>4, CutImpure, CutPlaces
  <2>2. j - 1 > i
    BY <1>1, <1>3, <1>4, <2>1
  <2> QED BY <1>2, <2>1, <2>2
<1>5. CASE i < at
  <2>1. i \in Impure(new) /\ new.dims[i] = st.dims[i]
    BY <1>2, <1>3, <1>5, CutPlaces, CutImpure
  <2>2. ASSUME NEW j \in Impure(new), j > i PROVE c[new.dims[j].var] = d[new.dims[j].var]
    <3>1. CASE j < at
      <4>0. j \in 1 .. Len(new.dims)
        BY <1>3
      <4>1. new.dims[j] = st.dims[j]
        BY <3>1, <4>0, CutPlaces
      <4>2. j \in Impure(st)
        BY <1>1, <3>1, <4>0, CutImpure
      <4> QED BY <1>2, <2>2, <4>1, <4>2
    <3>2. CASE j = at \/ j = at + 1
      <4>1. at \in Impure(st)
        BY <1>1, <1>3, <3>2, CutImpure
      <4>2. c[s.old] = d[s.old]
        BY <1>1, <1>2, <1>5, <4>1
      <4> QED BY <1>1, <3>2, <4>2 DEF InBlocks
    <3>3. CASE j > at + 1
      BY <1>1, <1>3, <1>4, <1>5, <3>3
    <3> QED BY <1>3, <3>1, <3>2, <3>3, CutPlaces
  <2> QED BY <1>2, <2>1, <2>2 DEF Sooner
<1>6. CASE i = at
  <2>1. at \in Impure(new) /\ at + 1 \in Impure(new)
    BY <1>1, <1>2, <1>6, CutPlaces, CutImpure
  <2>2. CASE c[s.outer] < d[s.outer]
    <3>1. \A j \in Impure(new) : j > at + 1 => c[new.dims[j].var] = d[new.dims[j].var]
      BY <1>1, <1>4, <1>6
    <3> QED BY <1>1, <2>1, <2>2, <3>1 DEF Sooner
  <2>3. CASE c[s.outer] = d[s.outer] /\ c[s.inner] < d[s.inner]
    <3>1. \A j \in Impure(new) : j > at => c[new.dims[j].var] = d[new.dims[j].var]
      <4> TAKE j \in Impure(new)
      <4> HAVE j > at
      <4>1. j = at + 1 \/ j > at + 1
        BY <1>1, <1>3, CutPlaces
      <4> QED BY <1>1, <1>4, <1>6, <2>3, <4>1
    <3> QED BY <1>1, <2>1, <2>3, <3>1 DEF Sooner
  <2> QED BY <1>1, <1>2, <1>6, <2>2, <2>3 DEF InBlocks
<1>7. CASE i > at
  <2>1. i + 1 \in 1 .. Len(new.dims) /\ new.dims[i + 1] = st.dims[i] /\ (i + 1) - 1 = i /\ i + 1 > at + 1
    BY <1>1, <1>3, <1>7, CutPlaces
  <2>2. i + 1 \in Impure(new)
    BY <1>2, <2>1, CutImpure
  <2>3. \A j \in Impure(new) : j > i + 1 => c[new.dims[j].var] = d[new.dims[j].var]
    BY <1>1, <1>3, <1>4, <1>7
  <2> QED BY <1>2, <2>1, <2>2, <2>3 DEF Sooner
<1> QED BY <1>1, <1>3, <1>5, <1>6, <1>7

LEMMA CutTellsApart ==
    ASSUME NEW st \in StageRec, NEW new, NEW at, NEW s, Cut(st, new, at, s),
           NEW c, NEW d, InBlocks(s, c, d)
    PROVE  TellsApart(st, new, c, d, c, d)
<1>1. /\ new.dims[at].var = s.inner /\ new.dims[at + 1].var = s.outer /\ st.dims[at].var = s.old
      /\ at \in 1 .. Len(st.dims) /\ at \in Nat
  BY CutPlaces DEF Cut
<1>2. Differ(st, c, d) => Differ(new, c, d)
  <2> SUFFICES ASSUME NEW i \in Impure(st), c[st.dims[i].var] # d[st.dims[i].var]
               PROVE  \E j \in Impure(new) : c[new.dims[j].var] # d[new.dims[j].var]
    BY DEF Differ
  <2>0. i \in 1 .. Len(st.dims)
    BY ImpureLoops
  <2>1. CASE i < at
    <3>1. i \in 1 .. Len(new.dims) /\ new.dims[i] = st.dims[i]
      BY <1>1, <2>0, <2>1, CutPlaces
    <3>2. i \in Impure(new)
      BY <2>1, <3>1, CutImpure
    <3> QED BY <3>1, <3>2
  <2>2. CASE i = at
    <3>1. at \in Impure(new) /\ at + 1 \in Impure(new)
      BY <1>1, <2>2, CutPlaces, CutImpure
    <3> QED BY <1>1, <2>2, <3>1 DEF InBlocks
  <2>3. CASE i > at
    <3>1. i + 1 \in 1 .. Len(new.dims) /\ new.dims[i + 1] = st.dims[i] /\ (i + 1) - 1 = i /\ i + 1 > at + 1
      BY <1>1, <2>0, <2>3, CutPlaces
    <3>2. i + 1 \in Impure(new)
      BY <3>1, CutImpure
    <3> QED BY <3>1, <3>2
  <2> QED BY <1>1, <2>0, <2>1, <2>2, <2>3
<1> QED BY <1>2, CutLoopsAgree, CutSooner DEF TellsApart

\* What the code checks of a split.
CutLegal(st, new, s) ==
    /\ s.tail = "ShiftInwards" => st.init
    /\ s.tail = "RoundUp" => st.init \/ (s.old \notin InnerVars(st.splits) /\ Last(s.old) \notin RVarNames)
    /\ s.tail = "RoundUp" /\ st.init /\ new.inwards => s.old \in DOMAIN ShiftedInwards(st.splits)
    /\ new.inwards => st.inwards
    /\ Last(s.old) = OutermostName => s.factor = 1
    /\ Last(s.outer) = OutermostName <=> Last(s.old) = OutermostName
    /\ Last(s.inner) # OutermostName

LEMMA CutSizes ==
    ASSUME NEW st \in StageRec, NEW new, NEW at, NEW s, Cut(st, new, at, s),
           NEW e, NEW inner, NEW shifted, Extended(st, s, e, inner, shifted)
    PROVE  /\ s.factor \in Positive /\ e[s.old] \in Positive /\ e[s.inner] = s.factor
           /\ e[s.outer] = (e[s.old] + s.factor - 1) \div s.factor
           /\ s.inner \in inner /\ (s.outer \in inner <=> s.old \in inner)
           /\ s.tail = "ShiftInwards" => s.inner \notin shifted
           /\ s.tail # "ShiftInwards" => (s.inner \in shifted <=> s.old \in shifted)
           /\ s.old \in Path /\ s.inner \in Path /\ s.outer \in Path /\ s.inner # s.outer
           /\ s.tail \in {"RoundUp", "GuardWithIf", "ShiftInwards"}
           /\ e \in [Path -> Positive]
<1>1. s \in SplitRec /\ s.kind = "split" /\ s.factor # 0 /\ s.inner # s.outer
  BY DEF Cut, Appends
<1>2. /\ s.old \in Path /\ s.inner \in Path /\ s.outer \in Path /\ s.factor \in Positive
      /\ s.tail \in {"RoundUp", "GuardWithIf", "ShiftInwards"}
  BY <1>1 DEF SplitRec, SplitFields, Positive
<1>3. SizeRule(s, e) /\ InnerRule(s, inner) /\ ShiftRule(s, shifted) /\ e \in [Path -> Positive]
  BY DEF Extended, Meaning, Sizes
<1>4. e[s.old] \in Positive
  BY <1>2, <1>3
<1> QED BY <1>1, <1>2, <1>3, <1>4 DEF SizeRule, InnerRule, ShiftRule

LEMMA CutAllowed ==
    ASSUME NEW st \in StageRec, NEW new, NEW at, NEW s, Cut(st, new, at, s), NEW e, NEW a
    PROVE  Allowed(new, e, a) <=> /\ Allowed(st, e, a)
                                  /\ a[s.old] = SplitBase(s, e, a) + a[s.inner]
                                  /\ s.tail = "GuardWithIf" => a[s.old] < e[s.old]
<1>1. Appends(st, new, s) /\ s.kind = "split"
  BY DEF Cut
<1> QED BY <1>1, AppendedAllowed DEF Follows, GuardOf

\* An update runs through the blocks in order, and does not leave what it must not leave.
LEMMA CutFine ==
    ASSUME NEW st \in StageRec, Shape(st), NEW new, NEW at, NEW s, Cut(st, new, at, s), CutLegal(st, new, s), ~st.init,
           NEW e, NEW inner, NEW shifted, Extended(st, s, e, inner, shifted),
           NEW a, Fine(new, e, inner, a)
    PROVE  /\ Fine(st, e, inner, a)
           /\ a[s.old] = a[s.outer] * s.factor + a[s.inner]
           /\ a[s.inner] \in 0 .. s.factor - 1 /\ a[s.outer] \in Nat
<1>1. /\ s.factor \in Positive /\ e[s.old] \in Positive /\ e[s.inner] = s.factor
      /\ e[s.outer] = (e[s.old] + s.factor - 1) \div s.factor
      /\ s.inner \in inner
      /\ s.old \in Path /\ s.inner \in Path /\ s.outer \in Path
      /\ s.tail \in {"RoundUp", "GuardWithIf"}
  BY CutSizes DEF CutLegal
<1>2. /\ new.dims[at].var = s.inner /\ new.dims[at + 1].var = s.outer /\ st.dims[at].var = s.old
      /\ at \in 1 .. Len(new.dims) /\ at + 1 \in 1 .. Len(new.dims) /\ at \in 1 .. Len(st.dims) /\ at \in Nat
  BY CutPlaces DEF Cut
<1>3. Allowed(new, e, a) /\ a \in [Path -> Int]
  BY DEF Fine, Allowed
<1>4. a[s.inner] \in Int /\ a[s.outer] \in Int
  BY <1>1, <1>3
<1>5. /\ a[s.inner] >= 0 /\ a[s.outer] >= 0
      /\ Bounded(s.inner, inner) => a[s.inner] < e[s.inner]
      /\ Bounded(s.outer, inner) => a[s.outer] < e[s.outer]
  BY <1>2 DEF Fine
<1>6. a[s.inner] \in 0 .. s.factor - 1 /\ a[s.outer] \in Nat
  BY <1>1, <1>4, <1>5 DEF Bounded, Positive
<1>7. a[s.old] = a[s.outer] * s.factor + a[s.inner] /\ Allowed(st, e, a)
  BY <1>1, <1>3, CutAllowed DEF SplitBase
<1>8. a[s.old] >= 0
  <2>1. 0 * s.factor <= a[s.outer] * s.factor /\ a[s.outer] * s.factor \in Int
    BY <1>1, <1>4, <1>5, MulMonotone
  <2> QED BY <1>1, <1>6, <1>7, <2>1 DEF Positive
<1>9. Bounded(s.old, inner) => a[s.old] < e[s.old]
  <2>1. s.tail = "GuardWithIf" => a[s.old] < e[s.old]
    BY <1>3, CutAllowed
  <2>2. ASSUME s.tail = "RoundUp", Bounded(s.old, inner) PROVE a[s.old] < e[s.old]
    <3>1. s.old \notin InnerVars(st.splits) /\ Last(s.old) \notin RVarNames
      BY <2>2 DEF CutLegal
    <3>2. s.old \in Known(st) /\ Inners(st, inner) /\ Sizes(st, e) /\ Proper(st)
      BY <1>2 DEF Shape, IsLeaf, Extended, Meaning
    <3>3. s.old \notin inner
      BY <3>1, <3>2, InnerSolve
    <3>4. Last(s.old) = OutermostName
      BY <2>2, <3>1, <3>3 DEF Bounded
    <3>5. s.factor = 1 /\ e[s.old] = 1 /\ Last(s.outer) = OutermostName
      BY <1>2, <3>2, <3>4 DEF Sizes, CutLegal
    <3>6. e[s.outer] = 1
      BY <1>1, <3>5
    <3>7. a[s.outer] = 0 /\ a[s.inner] = 0
      BY <1>1, <1>5, <1>6, <3>5, <3>6 DEF Bounded
    <3> QED BY <1>7, <3>5, <3>7
  <2> QED BY <1>1, <2>1, <2>2
<1>10. \A i \in 1 .. Len(st.dims) : /\ a[st.dims[i].var] >= 0
                                    /\ Bounded(st.dims[i].var, inner) => a[st.dims[i].var] < e[st.dims[i].var]
  <2> TAKE i \in 1 .. Len(st.dims)
  <2>0. \A j \in 1 .. Len(new.dims) : /\ a[new.dims[j].var] >= 0
                                      /\ Bounded(new.dims[j].var, inner) => a[new.dims[j].var] < e[new.dims[j].var]
    BY DEF Fine
  <2>1. CASE i < at
    <3>1. i \in 1 .. Len(new.dims) /\ new.dims[i] = st.dims[i]
      BY <2>1, CutPlaces
    <3> QED BY <2>0, <3>1
  <2>2. CASE i = at
    BY <1>2, <1>8, <1>9, <2>2
  <2>3. CASE i > at
    <3>1. i + 1 \in 1 .. Len(new.dims) /\ new.dims[i + 1] = st.dims[i]
      BY <2>3, CutPlaces
    <3> QED BY <2>0, <3>1
  <2> QED BY <1>2, <2>1, <2>2, <2>3
<1>11. Fine(st, e, inner, a)
  BY <1>7, <1>10 DEF Fine
<1> QED BY <1>6, <1>7, <1>11

LEMMA CutInBlocks ==
    ASSUME NEW s, NEW a, NEW b, s.factor \in Positive,
           a[s.old] = a[s.outer] * s.factor + a[s.inner], a[s.inner] \in 0 .. s.factor - 1, a[s.outer] \in Nat,
           b[s.old] = b[s.outer] * s.factor + b[s.inner], b[s.inner] \in 0 .. s.factor - 1, b[s.outer] \in Nat
    PROVE  InBlocks(s, a, b)
<1> DEFINE f == s.factor
           q == a[s.outer]
           r == a[s.inner]
           u == b[s.outer]
           v == b[s.inner]
<1>1. f \in Positive /\ q \in Int /\ r \in 0 .. f - 1 /\ u \in Int /\ v \in 0 .. f - 1
  OBVIOUS
<1>2. a[s.old] = q * f + r /\ b[s.old] = u * f + v
  OBVIOUS
<1> HIDE DEF f, q, r, u, v
<1>3. /\ q * f + r = u * f + v => q = u /\ r = v
      /\ q * f + r < u * f + v => q < u \/ (q = u /\ r < v)
  BY <1>1, BlocksOrder
<1> QED BY <1>2, <1>3 DEF InBlocks, q, r, u, v

\* Every value of the loop is in a block.
LEMMA CutPoints ==
    ASSUME NEW st \in StageRec, Shape(st), NEW new, NEW at, NEW s, Cut(st, new, at, s),
           NEW e, NEW inner, NEW shifted, Extended(st, s, e, inner, shifted)
    PROVE  CarriesPoints(st, new, e)
<1>1. /\ s.factor \in Positive /\ e[s.old] \in Positive /\ e[s.inner] = s.factor
      /\ e[s.outer] = (e[s.old] + s.factor - 1) \div s.factor
      /\ s.old \in Path /\ s.inner \in Path /\ s.outer \in Path /\ s.inner # s.outer
  BY CutSizes
<1>2. /\ new.dims[at].var = s.inner /\ new.dims[at + 1].var = s.outer /\ st.dims[at].var = s.old
      /\ at \in 1 .. Len(new.dims) /\ at + 1 \in 1 .. Len(new.dims) /\ at \in 1 .. Len(st.dims) /\ at \in Nat
      /\ Appends(st, new, s) /\ s.kind = "split"
  BY CutPlaces DEF Cut
<1>3. Makes(s) = {s.inner, s.outer} /\ Makes(s) \cap Known(st) = {}
  BY <1>2 DEF Makes, Appends
<1>4. /\ \A i \in 1 .. Len(st.dims) : st.dims[i].var \in Known(st)
      /\ Known(st) \subseteq Path /\ Roots(st) \subseteq Known(st)
  BY DEF Shape, IsLeaf, Known, KnownAt, Base
<1>5. s.old \in Known(st)
  BY <1>2, <1>4
<1> SUFFICES ASSUME NEW a, Allowed(st, e, a), InRange(st, e, a)
             PROVE  \E b : Allowed(new, e, b) /\ InRange(new, e, b) /\ \A r \in Roots(st) : b[r] = a[r]
  BY DEF CarriesPoints
<1> DEFINE x == a[s.old]
           f == s.factor
           E == e[s.old]
           q == x \div f
           base == IF s.tail = "ShiftInwards" /\ q * f > E - f THEN E - f ELSE q * f
           b == [p \in Path |-> IF p = s.inner THEN x - base ELSE IF p = s.outer THEN q ELSE a[p]]
<1>6. a \in [Path -> Int] /\ x \in 0 .. E - 1 /\ x \in Int /\ E \in Int /\ f \in Int /\ f > 0
  <2>1. a \in [Path -> Int]
    BY DEF Allowed
  <2>2. x \in 0 .. E - 1
    BY <1>2 DEF InRange
  <2> QED BY <1>1, <2>1, <2>2 DEF Positive
<1>7. /\ q \in 0 .. e[s.outer] - 1 /\ q \in Int /\ x % f \in 0 .. f - 1 /\ x = q * f + (x % f)
      /\ q * f \in Int
  <2>1. q \in 0 .. (E + f - 1) \div f - 1
    BY <1>1, <1>6, BlocksCover
  <2>2. q \in Int /\ x % f \in 0 .. f - 1 /\ x = q * f + (x % f)
    BY <1>1, <1>6, QuotientIs
  <2> HIDE DEF q
  <2>3. q * f \in Int
    BY <1>6, <2>2
  <2> QED BY <1>1, <2>1, <2>2, <2>3
<1>8. x - base \in 0 .. f - 1 /\ base \in Int
  <2> HIDE DEF q, x, f, E
  <2> QED BY <1>6, <1>7
<1>9. b \in Valuation
  <2>1. x - base \in Int
    BY <1>8
  <2> HIDE DEF base, x, q
  <2> QED BY <1>6, <1>7, <2>1 DEF Valuation
<1>10. b[s.inner] = x - base /\ b[s.outer] = q
  BY <1>1
<1>11. \A p \in Known(st) : b[p] = a[p]
  BY <1>3, <1>4
<1>12. b[s.old] = x
  BY <1>5, <1>11
<1> HIDE DEF b
<1>13. SplitBase(s, e, b) = base
  BY <1>10 DEF SplitBase
<1>14. Follows(s, e, b)
  <2>1. b[s.old] = SplitBase(s, e, b) + b[s.inner]
    <3> HIDE DEF base, x
    <3> QED BY <1>6, <1>8, <1>10, <1>12, <1>13
  <2> QED BY <1>2, <2>1 DEF Follows
<1>15. GuardOf(s, e, b)
  BY <1>6, <1>12 DEF GuardOf
<1>16. Allowed(new, e, b)
  BY <1>2, <1>9, <1>11, <1>14, <1>15, AllowedFurther
<1>17. InRange(new, e, b)
  <2> SUFFICES ASSUME NEW i \in 1 .. Len(new.dims) PROVE b[new.dims[i].var] \in 0 .. e[new.dims[i].var] - 1
    BY DEF InRange
  <2>0. \A j \in 1 .. Len(st.dims) : b[st.dims[j].var] \in 0 .. e[st.dims[j].var] - 1
    BY <1>4, <1>11 DEF InRange
  <2>1. CASE i < at
    <3>1. i \in 1 .. Len(st.dims) /\ new.dims[i] = st.dims[i]
      BY <2>1, CutPlaces
    <3> QED BY <2>0, <3>1
  <2>2. CASE i = at
    BY <1>1, <1>2, <1>8, <1>10, <2>2
  <2>3. CASE i = at + 1
    BY <1>2, <1>7, <1>10, <2>3
  <2>4. CASE i > at + 1
    <3>1. i - 1 \in 1 .. Len(st.dims) /\ new.dims[i] = st.dims[i - 1]
      BY <2>4, CutPlaces
    <3> QED BY <2>0, <3>1
  <2> QED BY <2>1, <2>2, <2>3, <2>4, CutPlaces
<1> QED BY <1>4, <1>11, <1>16, <1>17

\* A pure stage that only splits inwards stays where it was.
LEMMA CutCalm ==
    ASSUME NEW st \in StageRec, Shape(st), NEW new, NEW at, NEW s, Cut(st, new, at, s), CutLegal(st, new, s),
           st.init, new.inwards,
           NEW e, NEW inner, NEW shifted, Extended(st, s, e, inner, shifted), Fits(new, e),
           NEW a, Calm(new, e, shifted, a)
    PROVE  Calm(st, e, shifted, a)
<1>1. /\ s.factor \in Positive /\ e[s.old] \in Positive /\ e[s.inner] = s.factor
      /\ s.tail = "ShiftInwards" => s.inner \notin shifted
      /\ s.old \in Path /\ s.inner \in Path /\ s.outer \in Path
      /\ s.tail \in {"RoundUp", "GuardWithIf", "ShiftInwards"}
  BY CutSizes
<1>2. /\ new.dims[at].var = s.inner /\ new.dims[at + 1].var = s.outer /\ st.dims[at].var = s.old
      /\ at \in 1 .. Len(new.dims) /\ at + 1 \in 1 .. Len(new.dims) /\ at \in 1 .. Len(st.dims) /\ at \in Nat
      /\ Appends(st, new, s) /\ s.kind = "split"
  BY CutPlaces DEF Cut
<1>3. Allowed(new, e, a) /\ a \in [Path -> Int]
  BY DEF Calm, Allowed
<1>4. /\ Allowed(st, e, a) /\ a[s.old] = SplitBase(s, e, a) + a[s.inner]
      /\ s.tail = "GuardWithIf" => a[s.old] < e[s.old]
  BY <1>3, CutAllowed
<1>5. s.tail = "ShiftInwards" => e[s.old] >= s.factor
  BY <1>2, AppendedFits
<1>6. /\ a[s.inner] >= 0 /\ a[s.outer] >= 0 /\ a[s.inner] \in Int /\ a[s.outer] \in Int
      /\ s.tail = "ShiftInwards" => a[s.inner] < s.factor
  BY <1>1, <1>2, <1>3 DEF Calm
<1>7. 0 <= a[s.outer] * s.factor /\ a[s.outer] * s.factor \in Int
  <2>1. 0 * s.factor <= a[s.outer] * s.factor /\ a[s.outer] * s.factor \in Int
    <3>1. a[s.outer] \in Int /\ s.factor \in Positive /\ 0 <= a[s.outer]
      BY <1>1, <1>6
    <3> QED BY ONLY <3>1, MulMonotone
  <2> QED BY <1>1, <2>1 DEF Positive
<1>8. s.factor \in Int /\ s.factor > 0 /\ e[s.old] \in Int
  BY <1>1 DEF Positive
<1>9. /\ SplitBase(s, e, a) >= 0 /\ SplitBase(s, e, a) \in Int
      /\ s.tail = "ShiftInwards" => SplitBase(s, e, a) <= e[s.old] - s.factor
  BY <1>5, <1>7, <1>8 DEF SplitBase
<1>10. a[s.old] >= 0
  BY <1>4, <1>6, <1>9
<1>11. s.old \notin shifted => a[s.old] < e[s.old]
  <2> HAVE s.old \notin shifted
  <2>1. s.tail # "RoundUp"
    <3>1. s.old \in Known(st) /\ Shifts(st, shifted) /\ Proper(st)
      BY <1>2 DEF Shape, IsLeaf, Extended, Meaning
    <3>2. s.old \notin DOMAIN ShiftedInwards(st.splits)
      BY <3>1, ShiftSolve
    <3> QED BY <3>2 DEF CutLegal
  <2>2. s.tail = "ShiftInwards" => a[s.old] < e[s.old]
    BY <1>4, <1>6, <1>8, <1>9
  <2> QED BY <1>1, <1>4, <2>1, <2>2
<1>12. \A i \in 1 .. Len(st.dims) : /\ a[st.dims[i].var] >= 0
                                    /\ st.dims[i].var \notin shifted => a[st.dims[i].var] < e[st.dims[i].var]
  <2> TAKE i \in 1 .. Len(st.dims)
  <2>0. \A j \in 1 .. Len(new.dims) : /\ a[new.dims[j].var] >= 0
                                      /\ new.dims[j].var \notin shifted => a[new.dims[j].var] < e[new.dims[j].var]
    BY DEF Calm
  <2>1. CASE i < at
    <3>1. i \in 1 .. Len(new.dims) /\ new.dims[i] = st.dims[i]
      BY <2>1, CutPlaces
    <3> QED BY <2>0, <3>1
  <2>2. CASE i = at
    BY <1>2, <1>10, <1>11, <2>2
  <2>3. CASE i > at
    <3>1. i + 1 \in 1 .. Len(new.dims) /\ new.dims[i + 1] = st.dims[i]
      BY <2>3, CutPlaces
    <3> QED BY <2>0, <3>1
  <2> QED BY <1>2, <2>1, <2>2, <2>3
<1> QED BY <1>4, <1>12 DEF Calm

LEMMA CutGrows ==
    ASSUME NEW st \in StageRec, Shape(st), NEW new, NEW at, NEW s, Cut(st, new, at, s), CutLegal(st, new, s),
           NEW i \in Name, NEW o \in Name, MadeOf(st, s.old, s.inner, i), MadeOf(st, s.old, s.outer, o), i # o,
           \A k \in 1 .. Len(st.dims) : k # at => Last(st.dims[k].var) \notin {i, o},
           Last(s.old) \in RVarNames => i \in RVarNames /\ o \in RVarNames
    PROVE  Grows(st, new, s, s.old)
<1>1. /\ new.dims[at].var = s.inner /\ new.dims[at].type = st.dims[at].type
      /\ new.dims[at + 1].var = s.outer /\ new.dims[at + 1].type = st.dims[at].type
      /\ st.dims[at].var = s.old /\ s.kind = "split" /\ Len(new.dims) = Len(st.dims) + 1
      /\ at \in 1 .. Len(new.dims) /\ at + 1 \in 1 .. Len(new.dims) /\ at \in 1 .. Len(st.dims) /\ at \in Nat
      /\ Len(st.dims) \in Nat
  BY CutPlaces DEF Cut
<1>2. Makes(s) = {s.inner, s.outer} /\ Takes(s) = {s.old}
  BY <1>1 DEF Makes, Takes
<1>3. Last(s.inner) = i /\ Last(s.outer) = o
  BY DEF MadeOf
<1>4. \A k, l \in 1 .. Len(st.dims) : Last(st.dims[k].var) = Last(st.dims[l].var) => k = l
  BY DEF Shape
<1>5. \A p : (\E k \in 1 .. Len(new.dims) : p = new.dims[k].var) <=>
                ((\E k \in 1 .. Len(st.dims) : p = st.dims[k].var) /\ p \notin Takes(s)) \/ p \in Makes(s)
  <2> TAKE p
  <2>1. ASSUME NEW k \in 1 .. Len(new.dims), p = new.dims[k].var
        PROVE  ((\E j \in 1 .. Len(st.dims) : p = st.dims[j].var) /\ p # s.old) \/ p \in {s.inner, s.outer}
    <3>1. CASE k < at
      <4>1. k \in 1 .. Len(st.dims) /\ new.dims[k] = st.dims[k] /\ k # at
        BY <1>1, <3>1, CutPlaces
      <4> QED BY <1>1, <1>4, <2>1, <4>1
    <3>2. CASE k = at \/ k = at + 1
      BY <1>1, <2>1, <3>2
    <3>3. CASE k > at + 1
      <4>1. k - 1 \in 1 .. Len(st.dims) /\ new.dims[k] = st.dims[k - 1] /\ k - 1 # at
        BY <1>1, <3>3, CutPlaces
      <4> QED BY <1>1, <1>4, <2>1, <4>1
    <3> QED BY <3>1, <3>2, <3>3, CutPlaces
  <2>2. ASSUME NEW k \in 1 .. Len(st.dims), p = st.dims[k].var, p # s.old
        PROVE  \E j \in 1 .. Len(new.dims) : p = new.dims[j].var
    <3>1. CASE k < at
      <4>1. k \in 1 .. Len(new.dims) /\ new.dims[k] = st.dims[k]
        BY <3>1, CutPlaces
      <4> QED BY <2>2, <4>1
    <3>2. CASE k > at
      <4>1. k + 1 \in 1 .. Len(new.dims) /\ new.dims[k + 1] = st.dims[k]
        BY <3>2, CutPlaces
      <4> QED BY <2>2, <4>1
    <3>3. k # at
      BY <1>1, <2>2
    <3> QED BY <1>1, <3>1, <3>2, <3>3
  <2>3. p \in {s.inner, s.outer} => \E j \in 1 .. Len(new.dims) : p = new.dims[j].var
    BY <1>1
  <2> QED BY <1>2, <2>1, <2>2, <2>3
<1>6. \A k \in 1 .. Len(st.dims) : k # at => Last(st.dims[k].var) # i /\ Last(st.dims[k].var) # o
  OBVIOUS
\* where the loop k was
<1> DEFINE was == [k \in 1 .. Len(new.dims) |-> IF k < at + 1 THEN k ELSE k - 1]
<1>7. \A k \in 1 .. Len(new.dims) : k # at /\ k # at + 1 =>
          /\ was[k] \in 1 .. Len(st.dims) /\ was[k] # at /\ new.dims[k] = st.dims[was[k]]
          /\ Last(new.dims[k].var) # i /\ Last(new.dims[k].var) # o
  <2> TAKE k \in 1 .. Len(new.dims)
  <2> HAVE k # at /\ k # at + 1
  <2>1. CASE k < at
    <3>1. was[k] = k /\ k \in 1 .. Len(st.dims) /\ new.dims[k] = st.dims[k] /\ k # at
      BY <1>1, <2>1, CutPlaces
    <3> QED BY <1>6, <3>1
  <2>2. CASE k > at + 1
    <3>1. was[k] = k - 1 /\ k - 1 \in 1 .. Len(st.dims) /\ new.dims[k] = st.dims[k - 1] /\ k - 1 # at
      BY <1>1, <2>2, CutPlaces
    <3> QED BY <1>6, <3>1
  <2> QED BY <2>1, <2>2, CutPlaces
<1>8. \A k, l \in 1 .. Len(new.dims) : k # at /\ k # at + 1 /\ l # at /\ l # at + 1 /\ was[k] = was[l] => k = l
  BY <1>1
<1> HIDE DEF was
<1>9. \A k, l \in 1 .. Len(new.dims) : Last(new.dims[k].var) = Last(new.dims[l].var) => k = l
  <2> TAKE k, l \in 1 .. Len(new.dims)
  <2> HAVE Last(new.dims[k].var) = Last(new.dims[l].var)
  <2>1. CASE k # at /\ k # at + 1 /\ l # at /\ l # at + 1
    <3>1. was[k] = was[l]
      BY <1>4, <1>7, <2>1
    <3> QED BY <1>8, <2>1, <3>1
  <2>2. CASE k \in {at, at + 1} /\ l \in {at, at + 1}
    BY <1>1, <1>3, <2>2
  <2>3. CASE k \in {at, at + 1} /\ l # at /\ l # at + 1
    BY <1>1, <1>3, <1>7, <2>3
  <2>4. CASE l \in {at, at + 1} /\ k # at /\ k # at + 1
    BY <1>1, <1>3, <1>7, <2>4
  <2> QED BY <2>1, <2>2, <2>3, <2>4
<1>10. \A k \in 1 .. Len(new.dims) : new.dims[k].type # "PureVar" => Last(new.dims[k].var) \in RVarNames
  <2> TAKE k \in 1 .. Len(new.dims)
  <2>0. \A j \in 1 .. Len(st.dims) : st.dims[j].type # "PureVar" => Last(st.dims[j].var) \in RVarNames
    BY DEF Shape
  <2>1. CASE k \in {at, at + 1}
    BY <1>1, <1>3, <2>0, <2>1
  <2>2. CASE k # at /\ k # at + 1
    BY <1>7, <2>0, <2>2
  <2> QED BY <2>1, <2>2
<1>11. LET M == Len(new.dims) IN M > 0 /\ new.dims[M].type = "PureVar" /\ Last(new.dims[M].var) = OutermostName
  <2> DEFINE N == Len(st.dims)
  <2>1. N > 0 /\ st.dims[N].type = "PureVar" /\ Last(st.dims[N].var) = OutermostName
    BY DEF Shape
  <2>2. Len(new.dims) = N + 1 /\ N \in Nat
    BY <1>1
  <2>3. CASE at = N
    BY <1>1, <2>1, <2>2, <2>3 DEF CutLegal
  <2>4. CASE at # N
    <3>1. N \in 1 .. Len(st.dims) /\ N > at
      BY <1>1, <2>1, <2>4
    <3>2. new.dims[N + 1] = st.dims[N]
      BY <3>1, CutPlaces
    <3> QED BY <2>1, <2>2, <3>2
  <2> QED BY <2>3, <2>4
<1>12. s.old \in Takes(s) /\ \A m \in Makes(s) : \E n \in Name : MadeOf(st, s.old, m, n)
  BY <1>2
<1> QED BY <1>5, <1>9, <1>10, <1>11, <1>12 DEF Grows

LEMMA CutInv ==
    ASSUME NEW st, StageInv(st), NEW new, NEW at, NEW s, Cut(st, new, at, s), CutLegal(st, new, s), Serial(new),
           NEW i \in Name, NEW o \in Name, MadeOf(st, s.old, s.inner, i), MadeOf(st, s.old, s.outer, o), i # o,
           \A k \in 1 .. Len(st.dims) : k # at => Last(st.dims[k].var) \notin {i, o},
           Last(s.old) \in RVarNames => i \in RVarNames /\ o \in RVarNames
    PROVE  StageInv(new)
<1>1. st \in StageRec /\ Shape(st)
  BY DEF StageInv
<1>2. Grows(st, new, s, s.old)
  BY <1>1, CutGrows
<1>3. /\ Appends(st, new, s) /\ s.kind = "split" /\ new.dims[at].var = s.inner /\ new.dims[at + 1].var = s.outer
      /\ st.dims[at].var = s.old /\ at \in 1 .. Len(st.dims)
  BY DEF Cut
<1>4. ASSUME NEW e, NEW inner, NEW shifted, Extended(st, s, e, inner, shifted)
      PROVE  /\ \A k \in 1 .. Len(new.dims) : Last(new.dims[k].var) = OutermostName => e[new.dims[k].var] = 1
             /\ \E back : Carries(st, new, e, inner, shifted, back)
  <2>1. \A k \in 1 .. Len(new.dims) : Last(new.dims[k].var) = OutermostName => e[new.dims[k].var] = 1
    <3> TAKE k \in 1 .. Len(new.dims)
    <3> HAVE Last(new.dims[k].var) = OutermostName
    <3>0. \A j \in 1 .. Len(st.dims) : Last(st.dims[j].var) = OutermostName => e[st.dims[j].var] = 1
      BY <1>4 DEF Extended, Meaning, Sizes
    <3>1. CASE k < at
      BY <1>1, <3>0, <3>1, CutPlaces
    <3>2. CASE k = at
      BY <1>3, <3>2 DEF CutLegal
    <3>3. CASE k = at + 1
      <4>1. s.factor = 1 /\ e[s.old] = 1
        BY <1>3, <3>0, <3>3 DEF CutLegal
      <4>2. e[s.outer] = (e[s.old] + s.factor - 1) \div s.factor
        BY <1>1, <1>4, CutSizes
      <4> QED BY <1>3, <3>3, <4>1, <4>2
    <3>4. CASE k > at + 1
      <4>1. k - 1 \in 1 .. Len(st.dims) /\ new.dims[k] = st.dims[k - 1]
        BY <1>1, <3>4, CutPlaces
      <4> QED BY <3>0, <4>1
    <3> QED BY <1>1, <3>1, <3>2, <3>3, <3>4, CutPlaces
  <2>2. s.factor \in Positive
    BY <1>1, <1>4, CutSizes
  <2>3. ~st.init => \A a : Fine(new, e, inner, a) => Fine(st, e, inner, a)
    BY <1>1, <1>4, CutFine
  <2>4. ~st.init => \A a, b : Fine(new, e, inner, a) /\ Fine(new, e, inner, b) => TellsApart(st, new, a, b, a, b)
    <3> SUFFICES ASSUME ~st.init, NEW a, NEW b, Fine(new, e, inner, a), Fine(new, e, inner, b)
                 PROVE  TellsApart(st, new, a, b, a, b)
      OBVIOUS
    <3>1. a[s.old] = a[s.outer] * s.factor + a[s.inner] /\ a[s.inner] \in 0 .. s.factor - 1 /\ a[s.outer] \in Nat
      BY <1>1, <1>4, CutFine
    <3>2. b[s.old] = b[s.outer] * s.factor + b[s.inner] /\ b[s.inner] \in 0 .. s.factor - 1 /\ b[s.outer] \in Nat
      BY <1>1, <1>4, CutFine
    <3>3. InBlocks(s, a, b)
      BY <2>2, <3>1, <3>2, CutInBlocks
    <3> QED BY <1>1, <3>3, CutTellsApart
  <2>5. st.init /\ new.inwards /\ Fits(new, e) =>
               st.inwards /\ Fits(st, e) /\ \A a : Calm(new, e, shifted, a) => Calm(st, e, shifted, a)
    <3> HAVE st.init /\ new.inwards /\ Fits(new, e)
    <3>1. st.inwards
      BY DEF CutLegal
    <3>2. Fits(st, e)
      BY <1>1, <1>3, AppendedFits
    <3>3. \A a : Calm(new, e, shifted, a) => Calm(st, e, shifted, a)
      BY <1>1, <1>4, CutCalm
    <3> QED BY <3>1, <3>2, <3>3
  <2>6. CarriesPoints(st, new, e)
    BY <1>1, <1>4, CutPoints
  <2>7. \E back : Carries(st, new, e, inner, shifted, back)
    BY <2>3, <2>4, <2>5, <2>6, CarriesDirectly
  <2> QED BY <2>1, <2>7
<1> QED BY <1>2, <1>3, <1>4, AppendedInv

SplitResult(st, at, x, y, s, w) ==
    [st EXCEPT !.dims = SubSeq(@, 1, at - 1) \o <<x, y>> \o SubSeq(@, at + 1, Len(@)),
               !.splits = Append(@, s),
               !.inwards = @ /\ w]

LEMMA SplitChanges ==
    ASSUME NEW st \in StageRec, NEW at \in 1 .. Len(st.dims), NEW x \in DimRec, NEW y \in DimRec, NEW s \in SplitRec,
           NEW w \in BOOLEAN, NEW new, new = SplitResult(st, at, x, y, s, w)
    PROVE  /\ new \in StageRec /\ Same(st, new) /\ SplitInto(st, at, x, y, new.dims)
           /\ new.splits = Append(st.splits, s) /\ new.inwards = (st.inwards /\ w)
           /\ new.race = st.race /\ new.atomic = st.atomic
<1> DEFINE D == SubSeq(st.dims, 1, at - 1) \o <<x, y>> \o SubSeq(st.dims, at + 1, Len(st.dims))
<1>1. SplitInto(st, at, x, y, D)
  BY SplitDims
<1>2. new = [st EXCEPT !.dims = D, !.splits = Append(st.splits, s), !.inwards = st.inwards /\ w]
  BY DEF SplitResult, StageRec
<1> HIDE DEF D
<1>3. /\ new.dims = D /\ new.splits = Append(st.splits, s) /\ new.inwards = (st.inwards /\ w) /\ Same(st, new)
      /\ new.race = st.race /\ new.atomic = st.atomic
  BY <1>2 DEF StageRec, Same
<1>4. D \in Seq(DimRec) /\ Append(st.splits, s) \in Seq(SplitRec) /\ (st.inwards /\ w) \in BOOLEAN
  <2>1. D \in Seq(DimRec)
    BY <1>1 DEF SplitInto
  <2>2. st.splits \in Seq(SplitRec)
    BY StageTyped
  <2> QED BY <2>1, <2>2
<1>5. new \in StageRec
  BY <1>2, <1>4 DEF StageRec
<1> QED BY <1>1, <1>3, <1>5

\* What the loop may be split into.
SplitNamed(old, outer, inner, factor, asked) ==
    /\ outer \in Name /\ inner \in Name /\ inner # outer /\ factor \in Positive
    /\ asked \in {"Auto", "RoundUp", "GuardWithIf", "ShiftInwards"}
    /\ inner # OutermostName /\ (outer = OutermostName <=> old = OutermostName)
    /\ old = OutermostName => factor = 1

LEMMA SplitKeeps ==
    ASSUME NEW st, StageInv(st), NEW old, NEW outer, NEW inner, NEW factor, NEW asked,
           SplitNamed(old, outer, inner, factor, asked)
    PROVE  LET new == Split(st, old, outer, inner, factor, asked) IN new = Refused \/ StageInv(new)
<1>1. st \in StageRec /\ Shape(st) /\ Serial(st)
  BY DEF StageInv
<1> DEFINE exact == IsRVar(old)
           at == Find(st.dims, old)
           path == st.dims[at].var
           d == st.dims[at]
           x == [d EXCEPT !.var = Append(path, inner)]
           y == [d EXCEPT !.var = Append(path, outer), !.for = IF @ = "extern" THEN "serial" ELSE @]
           tail == IF asked = "Auto" THEN AutoTail(st, path, factor, exact) ELSE asked
           w == asked \in {"Auto", "ShiftInwards"}
           s == [kind |-> "split", old |-> path, factor |-> factor, tail |-> tail,
                 outer |-> Append(path, outer), inner |-> Append(path, inner)]
           new == SplitResult(st, at, x, y, s, w)
           legal == /\ IsRVar(outer) = exact /\ IsRVar(inner) = exact
                    /\ {inner, outer} \cap DimNames(st) \subseteq {old}
                    /\ at # 0
                    /\ ~st.init => /\ asked = "RoundUp" /\ ~exact => RoundUpOk(st, path, exact)
                                   /\ tail # "ShiftInwards"
                    /\ exact => tail = "GuardWithIf"
<1>2. Split(st, old, outer, inner, factor, asked) = Try(st, legal, new)
  BY DEF Split, SplitResult
<1>3. SUFFICES ASSUME legal PROVE StageInv(new)
  BY <1>2 DEF Try
<1>4. /\ outer \in Name /\ inner \in Name /\ inner # outer /\ factor \in Positive
      /\ asked \in {"Auto", "RoundUp", "GuardWithIf", "ShiftInwards"}
      /\ inner # OutermostName /\ (outer = OutermostName <=> old = OutermostName)
      /\ old = OutermostName => factor = 1
  BY DEF SplitNamed
<1>5. at \in 1 .. Len(st.dims) /\ Last(path) = old /\ d \in DimRec
  <2>1. at # 0
    BY <1>3
  <2>2. at \in 1 .. Len(st.dims) /\ Last(path) = old
    BY <1>1, <2>1, NameFound
  <2>3. st.dims \in Seq(DimRec)
    BY <1>1, StageTyped
  <2> QED BY <2>2, <2>3
<1>6. MadeOf(st, path, Append(path, inner), inner) /\ MadeOf(st, path, Append(path, outer), outer)
  BY <1>1, <1>4, <1>5, FreshPath
<1>7. tail \in {"RoundUp", "GuardWithIf", "ShiftInwards"}
  BY <1>4 DEF AutoTail
<1>8. path \in Path /\ Append(path, inner) \in Path /\ Append(path, outer) \in Path
  BY <1>6 DEF MadeOf
<1>9. x \in DimRec /\ y \in DimRec /\ s \in SplitRec
  <2>1. d.for \in Forms /\ d.type \in {"PureVar", "PureRVar", "ImpureRVar"} /\ d.api \in {"none", "gpu"}
    BY <1>5 DEF DimRec
  <2>2. "serial" \in Forms
    BY DEF Forms
  <2>3. x \in DimRec /\ y \in DimRec
    <3> HIDE DEF at
    <3> QED BY <1>5, <1>8, <2>1, <2>2 DEF DimRec
  <2>4. s \in SplitRec
    <3>1. factor \in Nat
      BY <1>4 DEF Positive
    <3> HIDE DEF tail, path
    <3> QED BY <1>7, <1>8, <3>1 DEF SplitRec, SplitFields
  <2> QED BY <2>3, <2>4
<1>10. /\ x.var = Append(path, inner) /\ x.type = d.type /\ x.for = d.for
       /\ y.var = Append(path, outer) /\ y.type = d.type /\ y.for \in {d.for, "serial"}
  <2> HIDE DEF at
  <2> QED BY <1>5 DEF DimRec
<1>11. /\ s.kind = "split" /\ s.old = path /\ s.factor = factor /\ s.tail = tail
       /\ s.outer = Append(path, outer) /\ s.inner = Append(path, inner)
  OBVIOUS
<1>12. w \in BOOLEAN
  OBVIOUS
<1>13. \A k \in 1 .. Len(st.dims) : k # at => Last(st.dims[k].var) \notin {inner, outer}
  <2> TAKE k \in 1 .. Len(st.dims)
  <2> HAVE k # at
  <2>1. Last(st.dims[k].var) # old
    BY <1>1, <1>5 DEF Shape
  <2>2. Last(st.dims[k].var) \in DimNames(st)
    BY <1>1, NameFound
  <2>3. {inner, outer} \cap DimNames(st) \subseteq {old}
    BY <1>3
  <2> QED BY <2>1, <2>2, <2>3
<1>14. Last(path) \in RVarNames => inner \in RVarNames /\ outer \in RVarNames
  <2>1. IsRVar(outer) = IsRVar(old) /\ IsRVar(inner) = IsRVar(old)
    BY <1>3
  <2> QED BY <1>5, <2>1 DEF IsRVar
\* the conditions on the tail
<1>15. /\ tail = "ShiftInwards" => st.init
       /\ tail = "RoundUp" => st.init \/ (path \notin InnerVars(st.splits) /\ Last(path) \notin RVarNames)
       /\ tail = "RoundUp" /\ st.init /\ st.inwards /\ w => path \in DOMAIN ShiftedInwards(st.splits)
  <2>1. /\ ~st.init => /\ asked = "RoundUp" /\ ~exact => RoundUpOk(st, path, exact)
                       /\ tail # "ShiftInwards"
        /\ exact => tail = "GuardWithIf"
    BY <1>3
  <2>2. exact <=> Last(path) \in RVarNames
    BY <1>5 DEF IsRVar
  <2>3. asked # "Auto" => tail = asked
    OBVIOUS
  <2>4. asked = "Auto" => tail = AutoTail(st, path, factor, exact)
    OBVIOUS
  <2> HIDE DEF exact, path, tail
  <2>5. AutoTail(st, path, factor, exact) = "RoundUp" =>
            /\ ~exact
            /\ ~st.init => RoundUpOk(st, path, exact)
            /\ st.init => path \in DOMAIN ShiftedInwards(st.splits)
    BY DEF AutoTail
  <2>6. st.init \in BOOLEAN /\ exact \in BOOLEAN
    BY <1>1 DEF StageRec, exact, IsRVar
  <2>7. RoundUpOk(st, path, exact) => ~exact /\ (~st.init => path \notin InnerVars(st.splits))
    BY DEF RoundUpOk
  <2>8. tail = "RoundUp" /\ ~st.init => path \notin InnerVars(st.splits) /\ ~exact
    BY <1>4, <2>1, <2>3, <2>4, <2>5, <2>7
  <2>9. tail = "RoundUp" /\ st.init /\ w => path \in DOMAIN ShiftedInwards(st.splits)
    BY <1>4, <2>3, <2>4, <2>5
  <2> QED BY <2>1, <2>2, <2>8, <2>9
<1> DEFINE new2 == new
<1>16. /\ new2 \in StageRec /\ Same(st, new2) /\ SplitInto(st, at, x, y, new2.dims)
       /\ new2.splits = Append(st.splits, s) /\ new2.inwards = (st.inwards /\ w)
       /\ new2.race = st.race /\ new2.atomic = st.atomic
  <2> HIDE DEF x, y, s, at, w
  <2> QED BY <1>1, <1>5, <1>9, <1>12, SplitChanges
<1>17. path \in Known(st) /\ IsLeaf(st, path)
  BY <1>1, <1>5 DEF Shape, IsLeaf
<1>18. /\ x.var # y.var /\ x.var \notin Known(st) /\ y.var \notin Known(st)
       /\ Last(x.var) = inner /\ Last(y.var) = outer
  BY <1>4, <1>6, <1>10 DEF MadeOf
<1> HIDE DEF new2, x, y, s, d, path, at, tail, legal, exact, w
<1>19. Makes(s) = {x.var, y.var} /\ Takes(s) = {path}
  BY <1>10, <1>11 DEF Makes, Takes
<1>20. Appends(st, new2, s)
  BY <1>4, <1>9, <1>10, <1>11, <1>16, <1>17, <1>18, <1>19 DEF Appends, Positive
<1>21. Cut(st, new2, at, s)
  <2>1. s.old = st.dims[at].var /\ d = st.dims[at]
    BY <1>11 DEF path, d
  <2> QED BY <1>5, <1>10, <1>11, <1>16, <1>20, <2>1 DEF Cut, SplitInto
<1>22. CutLegal(st, new2, s)
  BY <1>4, <1>5, <1>10, <1>11, <1>15, <1>16, <1>18 DEF CutLegal
<1>23. Serial(new2)
  <2> SUFFICES ASSUME ~st.race, ~st.atomic, NEW k \in Impure(new2) PROVE ~IsParallel(new2.dims[k].for)
    BY <1>16 DEF Serial
  <2>0. \A j \in Impure(st) : ~IsParallel(st.dims[j].for)
    BY <1>1 DEF Serial
  <2>1. k \in 1 .. Len(new2.dims)
    BY ImpureLoops
  <2>2. CASE k < at
    <3>1. k \in Impure(st) /\ new2.dims[k] = st.dims[k]
      BY <1>1, <1>5, <1>21, <2>1, <2>2, CutPlaces, CutImpure
    <3> QED BY <2>0, <3>1
  <2>3. CASE k = at \/ k = at + 1
    <3>1. at \in Impure(st)
      BY <1>1, <1>5, <1>21, <2>1, <2>3, CutImpure
    <3>2. new2.dims[k].for \in {d.for, "serial"}
      BY <1>10, <1>16, <2>3 DEF SplitInto
    <3> QED BY <2>0, <3>1, <3>2 DEF d, IsParallel
  <2>4. CASE k > at + 1
    <3>1. new2.dims[k] = st.dims[k - 1]
      BY <1>1, <1>21, <2>1, <2>4, CutPlaces
    <3>2. k - 1 \in Impure(st)
      BY <1>1, <1>5, <1>21, <2>1, <2>4, CutImpure
    <3> QED BY <2>0, <3>1, <3>2
  <2> QED BY <1>1, <1>21, <2>1, <2>2, <2>3, <2>4, CutPlaces
<1>24. /\ MadeOf(st, s.old, s.inner, inner) /\ MadeOf(st, s.old, s.outer, outer)
       /\ Last(s.old) \in RVarNames => inner \in RVarNames /\ outer \in RVarNames
  BY <1>6, <1>11, <1>14
<1>25. inner \in Name /\ outer \in Name /\ inner # outer
  BY <1>4
<1>26. StageInv(new2)
  BY <1>13, <1>21, <1>22, <1>23, <1>24, <1>25, CutInv
<1> QED BY <1>26 DEF new2

-----------------------------------------------------------------------------
(* Directives that only move the loops or mark them.                        *)

\* The i-th loop is what the place[i]-th was.
Moved(st, new, place) ==
    /\ new \in StageRec /\ Same(st, new) /\ new.splits = st.splits /\ new.inwards = st.inwards
    /\ Len(new.dims) = Len(st.dims)
    /\ \A i \in 1 .. Len(st.dims) : place[i] \in 1 .. Len(st.dims)
    /\ \A i, j \in 1 .. Len(st.dims) : place[i] = place[j] => i = j
    /\ \A k \in 1 .. Len(st.dims) : \E i \in 1 .. Len(st.dims) : place[i] = k
    /\ place[Len(st.dims)] = Len(st.dims)
    /\ \A i \in 1 .. Len(st.dims) : new.dims[i].var = st.dims[place[i]].var
    /\ \A i \in 1 .. Len(st.dims) : new.dims[i].type = st.dims[place[i]].type

\* The reductions stay in their order.
KeepsOrder(st, place) ==
    \A i, j \in 1 .. Len(st.dims) :
        place[i] \in Impure(st) /\ place[j] \in Impure(st) /\ i < j => place[i] < place[j]

LEMMA MovedShape ==
    ASSUME NEW st \in StageRec, Shape(st), NEW new, NEW place, Moved(st, new, place)
    PROVE  Shape(new)
<1> DEFINE N == Len(st.dims)
<1>1. /\ new \in StageRec /\ Same(st, new) /\ new.splits = st.splits /\ Len(new.dims) = N
      /\ place[N] = N
  BY DEF Moved
<1>20. \A i \in 1 .. N : place[i] \in 1 .. N /\ new.dims[i].var = st.dims[place[i]].var /\ new.dims[i].type = st.dims[place[i]].type
  BY DEF Moved
<1>21. \A i, j \in 1 .. N : place[i] = place[j] => i = j
  BY DEF Moved
<1>22. \A k \in 1 .. N : \E i \in 1 .. N : place[i] = k
  BY DEF Moved
<1>2. Roots(new) = Roots(st) /\ Base(new) = Base(st)
  BY <1>1, SameRoots
<1>3. Known(new) = Known(st) /\ \A n : KnownAt(new, n) = KnownAt(st, n)
  BY <1>1, <1>2 DEF Known, KnownAt
<1>4. Proper(new) /\ \A p : IsLeaf(new, p) <=> IsLeaf(st, p)
  BY <1>1, <1>3 DEF Proper, IsLeaf, Shape
<1>5. N \in Nat /\ N > 0
  BY StageTyped DEF Shape
<1> HIDE DEF N
<1>6. \A p : (\E i \in 1 .. N : p = st.dims[i].var) <=> IsLeaf(st, p)
  BY DEF Shape, N
<1>7. \A p : (\E i \in 1 .. N : p = new.dims[i].var) <=> (\E i \in 1 .. N : p = st.dims[i].var)
  <2> TAKE p
  <2>1. ASSUME NEW i \in 1 .. N, p = new.dims[i].var PROVE \E j \in 1 .. N : p = st.dims[j].var
    BY <1>20, <2>1
  <2>2. ASSUME NEW k \in 1 .. N, p = st.dims[k].var PROVE \E j \in 1 .. N : p = new.dims[j].var
    <3>1. PICK i \in 1 .. N : place[i] = k
      BY <1>22
    <3> QED BY <1>20, <2>2, <3>1
  <2> QED BY <2>1, <2>2
<1>8. \A p : (\E i \in 1 .. N : p = new.dims[i].var) <=> IsLeaf(new, p)
  <2> TAKE p
  <2>1. (\E i \in 1 .. N : p = new.dims[i].var) <=> (\E i \in 1 .. N : p = st.dims[i].var)
    BY <1>7
  <2>2. (\E i \in 1 .. N : p = st.dims[i].var) <=> IsLeaf(st, p)
    BY <1>6
  <2> QED BY <1>4, <2>1, <2>2
<1>9. \A i, j \in 1 .. N : Last(new.dims[i].var) = Last(new.dims[j].var) => i = j
  <2>1. \A i, j \in 1 .. N : Last(st.dims[i].var) = Last(st.dims[j].var) => i = j
    BY DEF Shape, N
  <2> QED BY <1>20, <1>21, <2>1
<1>10. \A i \in 1 .. N, p \in Known(new) : ~Under(p, new.dims[i].var)
  <2>1. \A i \in 1 .. N, p \in Known(st) : ~Under(p, st.dims[i].var)
    BY DEF Shape, N
  <2> QED BY <1>3, <1>20, <2>1
<1>11. new.dims[N].type = "PureVar" /\ Last(new.dims[N].var) = OutermostName
  <2>1. st.dims[N].type = "PureVar" /\ Last(st.dims[N].var) = OutermostName
    BY DEF Shape, N
  <2>2. N \in 1 .. N
    BY <1>5
  <2> QED BY <1>1, <1>20, <2>1, <2>2
<1>12. \A i \in 1 .. N : new.dims[i].type # "PureVar" => Last(new.dims[i].var) \in RVarNames
  <2>1. \A i \in 1 .. N : st.dims[i].type # "PureVar" => Last(st.dims[i].var) \in RVarNames
    BY DEF Shape, N
  <2> QED BY <1>20, <2>1
<1>13. \A p \in Known(new) : p \in Path /\ p # << >>
  BY <1>3 DEF Shape
<1>14. /\ \A i \in 1 .. Len(new.rvars) : new.rvars[i] \in Roots(new)
       /\ new.init => new.order = << >>
       /\ new.impure \subseteq ToSet(new.order)
  BY <1>1, <1>2 DEF Shape, Same
<1> QED BY <1>1, <1>4, <1>5, <1>8, <1>9, <1>10, <1>11, <1>12, <1>13, <1>14 DEF Shape

LEMMA MovedImpure ==
    ASSUME NEW st, NEW new, NEW place, Moved(st, new, place)
    PROVE  \A i \in 1 .. Len(st.dims) : i \in Impure(new) <=> place[i] \in Impure(st)
<1> TAKE i \in 1 .. Len(st.dims)
<1>1. new.dims[i].type = st.dims[place[i]].type /\ place[i] \in 1 .. Len(st.dims) /\ i \in 1 .. Len(new.dims)
  BY DEF Moved
<1> QED BY <1>1 DEF Impure, IsPure

LEMMA MovedTellsApart ==
    ASSUME NEW st, NEW new, NEW place, Moved(st, new, place),
           KeepsOrder(st, place) \/ (st.assoc /\ st.comm), NEW a, NEW b,
           \A k \in 1 .. Len(st.dims) : a[st.dims[k].var] < b[st.dims[k].var] => a[st.dims[k].var] # b[st.dims[k].var]
    PROVE  TellsApart(st, new, a, b, a, b)
<1> DEFINE N == Len(st.dims)
<1>1. Len(new.dims) = N /\ \A i \in 1 .. N : place[i] \in 1 .. N /\ new.dims[i].var = st.dims[place[i]].var
  BY DEF Moved
<1>9. \A k \in 1 .. N : \E i \in 1 .. N : place[i] = k
  BY DEF Moved
<1>2. \A i \in 1 .. N : i \in Impure(new) <=> place[i] \in Impure(st)
  BY MovedImpure
<1>3. (\A i \in Impure(st) : i \in 1 .. N) /\ (\A i \in Impure(new) : i \in 1 .. N)
  BY <1>1, ImpureLoops
<1> HIDE DEF N
<1>4. LoopsAgree(st, a, b, {}) => LoopsAgree(new, a, b, {})
  BY <1>1 DEF LoopsAgree, N
<1>5. LoopsAgree(st, a, b, Impure(st)) => LoopsAgree(new, a, b, Impure(new))
  BY <1>1, <1>2 DEF LoopsAgree, N
<1>6. \A k \in Impure(st) : \E i \in Impure(new) : place[i] = k /\ new.dims[i].var = st.dims[k].var
  <2> TAKE k \in Impure(st)
  <2>1. PICK i \in 1 .. N : place[i] = k
    BY <1>3, <1>9
  <2> QED BY <1>1, <1>2, <2>1
<1>7. Differ(st, a, b) => Differ(new, a, b)
  BY <1>6 DEF Differ
<1>8. ASSUME Sooner(st, a, b) PROVE Sooner(new, a, b) \/ (st.assoc /\ st.comm /\ Differ(new, a, b))
  <2>1. PICK k \in Impure(st) : /\ a[st.dims[k].var] < b[st.dims[k].var]
                                /\ \A j \in Impure(st) : j > k => a[st.dims[j].var] = b[st.dims[j].var]
    BY <1>8 DEF Sooner
  <2>2. PICK i \in Impure(new) : place[i] = k /\ new.dims[i].var = st.dims[k].var
    BY <1>6
  <2>3. CASE KeepsOrder(st, place)
    <3>1. \A j \in Impure(new) : j > i => a[new.dims[j].var] = b[new.dims[j].var]
      <4> TAKE j \in Impure(new)
      <4> HAVE j > i
      <4>1. i \in 1 .. N /\ j \in 1 .. N /\ place[j] \in Impure(st) /\ place[i] \in Impure(st)
        BY <1>2, <1>3
      <4>2. place[i] < place[j]
        BY <2>3, <4>1 DEF KeepsOrder, N
      <4>3. place[i] \in Int /\ place[j] \in Int
        BY <1>1, <4>1
      <4>4. place[j] > k
        BY <2>2, <4>2, <4>3
      <4> QED BY <1>1, <2>1, <4>1, <4>4
    <3> QED BY <2>1, <2>2, <3>1 DEF Sooner
  <2>4. CASE st.assoc /\ st.comm
    <3>1. a[st.dims[k].var] # b[st.dims[k].var]
      BY <1>3, <2>1 DEF N
    <3> QED BY <2>2, <2>4, <3>1 DEF Differ
  <2> QED BY <2>3, <2>4
<1> QED BY <1>4, <1>5, <1>7, <1>8 DEF TellsApart

LEMMA MovedInv ==
    ASSUME NEW st, StageInv(st), NEW new, NEW place, Moved(st, new, place),
           KeepsOrder(st, place) \/ (st.assoc /\ st.comm), Serial(new)
    PROVE  StageInv(new)
<1> DEFINE N == Len(st.dims)
<1>1. new \in StageRec /\ Same(st, new) /\ new.splits = st.splits /\ new.inwards = st.inwards /\ Len(new.dims) = N
  BY DEF Moved
<1>20. \A i \in 1 .. N : place[i] \in 1 .. N /\ new.dims[i].var = st.dims[place[i]].var
  BY DEF Moved
<1>21. \A k \in 1 .. N : \E i \in 1 .. N : place[i] = k
  BY DEF Moved
<1>2. st \in StageRec /\ Shape(st)
  BY DEF StageInv
<1>3. Shape(new)
  BY <1>2, MovedShape
<1>4. PICK e, inner, shifted : Meaning(st, e, inner, shifted)
  BY DEF StageInv
<1>5. Base(new) = Base(st)
  BY <1>1, SameRoots
<1> HIDE DEF N
<1>6. Sizes(new, e) /\ Inners(new, inner) /\ Shifts(new, shifted)
  <2>1. Sizes(st, e) /\ Inners(st, inner) /\ Shifts(st, shifted)
    BY <1>4 DEF Meaning
  <2>2. Sizes(new, e)
    <3>1. \A i \in 1 .. N : Last(st.dims[i].var) = OutermostName => e[st.dims[i].var] = 1
      BY <2>1 DEF Sizes, N
    <3>2. \A i \in 1 .. N : Last(new.dims[i].var) = OutermostName => e[new.dims[i].var] = 1
      BY <1>20, <3>1
    <3> QED BY <1>1, <1>5, <2>1, <3>2 DEF Sizes, Same
  <2> QED BY <1>1, <1>5, <2>1, <2>2 DEF Inners, Shifts
<1>7. \A a : Allowed(new, e, a) <=> Allowed(st, e, a)
  BY <1>1 DEF Allowed, Solves
<1>8. \A a : InRange(st, e, a) => InRange(new, e, a)
  BY <1>1, <1>20 DEF InRange, N
<1>9. \A k \in 1 .. N : \E i \in 1 .. N : new.dims[i].var = st.dims[k].var
  BY <1>20, <1>21
<1>10. \A a : Fine(new, e, inner, a) => Fine(st, e, inner, a)
  <2> SUFFICES ASSUME NEW a, Fine(new, e, inner, a), NEW k \in 1 .. N
               PROVE  /\ a[st.dims[k].var] >= 0
                      /\ Bounded(st.dims[k].var, inner) => a[st.dims[k].var] < e[st.dims[k].var]
    BY <1>7 DEF Fine, N
  <2>1. PICK i \in 1 .. N : new.dims[i].var = st.dims[k].var
    BY <1>9
  <2>2. /\ a[new.dims[i].var] >= 0
        /\ Bounded(new.dims[i].var, inner) => a[new.dims[i].var] < e[new.dims[i].var]
    BY <1>1 DEF Fine
  <2> QED BY <2>1, <2>2
<1>11. \A a : Calm(new, e, shifted, a) => Calm(st, e, shifted, a)
  <2> SUFFICES ASSUME NEW a, Calm(new, e, shifted, a), NEW k \in 1 .. N
               PROVE  /\ a[st.dims[k].var] >= 0
                      /\ st.dims[k].var \notin shifted => a[st.dims[k].var] < e[st.dims[k].var]
    BY <1>7 DEF Calm, N
  <2>1. PICK i \in 1 .. N : new.dims[i].var = st.dims[k].var
    BY <1>9
  <2>2. /\ a[new.dims[i].var] >= 0
        /\ new.dims[i].var \notin shifted => a[new.dims[i].var] < e[new.dims[i].var]
    BY <1>1 DEF Calm
  <2> QED BY <2>1, <2>2
<1>12. CarriesPoints(st, new, e)
  BY <1>7, <1>8 DEF CarriesPoints
<1>13. \A a, b : Fine(new, e, inner, a) /\ Fine(new, e, inner, b) => TellsApart(st, new, a, b, a, b)
  <2> TAKE a, b
  <2> HAVE Fine(new, e, inner, a) /\ Fine(new, e, inner, b)
  <2>1. a \in [Path -> Int] /\ b \in [Path -> Int]
    BY DEF Fine, Allowed
  <2>2. \A k \in 1 .. N : st.dims[k].var \in Path
    BY <1>2 DEF Shape, IsLeaf, N
  <2>3. \A k \in 1 .. N : a[st.dims[k].var] < b[st.dims[k].var] => a[st.dims[k].var] # b[st.dims[k].var]
    BY <2>1, <2>2
  <2> QED BY <2>3, MovedTellsApart DEF N
<1>14. st.init /\ new.inwards /\ Fits(new, e) => st.inwards /\ Fits(st, e)
  BY <1>1 DEF Fits
<1>15. \E back : Carries(st, new, e, inner, shifted, back)
  BY <1>10, <1>11, <1>12, <1>13, <1>14, CarriesDirectly
<1>16. Meaning(new, e, inner, shifted)
  BY <1>1, <1>2, <1>4, <1>6, <1>15, Carried
<1> QED BY <1>1, <1>3, <1>16 DEF StageInv

\* Only the marks of the loops and the flags of the stage differ.
Marked(st, new) ==
    /\ new \in StageRec /\ Same(st, new) /\ new.splits = st.splits /\ new.inwards = st.inwards
    /\ Len(new.dims) = Len(st.dims)
    /\ \A i \in 1 .. Len(st.dims) : new.dims[i].var = st.dims[i].var
    /\ \A i \in 1 .. Len(st.dims) : new.dims[i].type = st.dims[i].type

LEMMA MarkedInv ==
    ASSUME NEW st, StageInv(st), NEW new, Marked(st, new), Serial(new)
    PROVE  StageInv(new)
<1> DEFINE N == Len(st.dims)
           place == [i \in 1 .. N |-> i]
<1>1. N \in Nat /\ N > 0
  BY StageTyped DEF StageInv, Shape
<1>2. \A i \in 1 .. N : place[i] = i
  OBVIOUS
<1>3. place[N] = N
  BY <1>1
<1> HIDE DEF place, N
<1>4. /\ \A i \in 1 .. N : place[i] \in 1 .. N
      /\ \A i, j \in 1 .. N : place[i] = place[j] => i = j
      /\ \A k \in 1 .. N : \E i \in 1 .. N : place[i] = k
  BY <1>2
<1>5. Moved(st, new, place)
  BY <1>2, <1>3, <1>4 DEF Moved, Marked, N
<1>6. KeepsOrder(st, place)
  BY <1>2 DEF KeepsOrder, N
<1> QED BY <1>5, <1>6, MovedInv

UpdatedDims(st, name, d) ==
    /\ d \in Seq(DimRec) /\ Len(d) = Len(st.dims)
    /\ \A i \in 1 .. Len(st.dims) : /\ d[i].var = st.dims[i].var
                                    /\ d[i].type = st.dims[i].type
                                    /\ Last(st.dims[i].var) # name => d[i].for = st.dims[i].for

ForSet(st, name, t) == UpdateDims(st, name, LAMBDA d : [d EXCEPT !.for = t])

LEMMA ForUpdated ==
    ASSUME NEW st \in StageRec, NEW name, NEW t \in Forms, NEW new, new = ForSet(st, name, t)
    PROVE  /\ UpdatedDims(st, name, new.dims) /\ new = [st EXCEPT !.dims = new.dims]
           /\ \A i \in 1 .. Len(st.dims) : Last(st.dims[i].var) = name => new.dims[i].for = t
<1> DEFINE D == [i \in 1 .. Len(st.dims) |->
                   IF Matches(st.dims[i].var, name) THEN [st.dims[i] EXCEPT !.for = t] ELSE st.dims[i]]
<1>1. st.dims \in Seq(DimRec) /\ Len(st.dims) \in Nat /\ DOMAIN st.dims = 1 .. Len(st.dims)
  BY StageTyped
<1>2. new = [st EXCEPT !.dims = D]
  BY <1>1 DEF ForSet, UpdateDims
<1>3. \A i \in 1 .. Len(st.dims) : st.dims[i] \in DimRec
  BY <1>1
<1>4. \A i \in 1 .. Len(st.dims) : /\ [st.dims[i] EXCEPT !.for = t] \in DimRec
                                   /\ [st.dims[i] EXCEPT !.for = t].var = st.dims[i].var
                                   /\ [st.dims[i] EXCEPT !.for = t].type = st.dims[i].type
                                   /\ [st.dims[i] EXCEPT !.for = t].for = t
  BY <1>3 DEF DimRec
<1>5. D \in Seq(DimRec) /\ Len(D) = Len(st.dims)
  BY <1>1, <1>3, <1>4
<1>6. \A i \in 1 .. Len(st.dims) : D[i] = IF Last(st.dims[i].var) = name THEN [st.dims[i] EXCEPT !.for = t] ELSE st.dims[i]
  BY DEF Matches
<1> HIDE DEF D
<1>7. new.dims = D
  BY <1>2 DEF StageRec
<1>8. UpdatedDims(st, name, D)
  BY <1>4, <1>5, <1>6 DEF UpdatedDims
<1> QED BY <1>2, <1>4, <1>6, <1>7, <1>8

LEMMA ApiUpdated ==
    ASSUME NEW st \in StageRec, NEW name, NEW new, new = UpdateDims(st, name, LAMBDA d : [d EXCEPT !.api = "gpu"])
    PROVE  /\ UpdatedDims(st, name, new.dims) /\ new = [st EXCEPT !.dims = new.dims]
           /\ \A i \in 1 .. Len(st.dims) : new.dims[i].for = st.dims[i].for
<1> DEFINE D == [i \in 1 .. Len(st.dims) |->
                   IF Matches(st.dims[i].var, name) THEN [st.dims[i] EXCEPT !.api = "gpu"] ELSE st.dims[i]]
<1>1. st.dims \in Seq(DimRec) /\ Len(st.dims) \in Nat /\ DOMAIN st.dims = 1 .. Len(st.dims)
  BY StageTyped
<1>2. new = [st EXCEPT !.dims = D]
  BY <1>1 DEF UpdateDims
<1>3. \A i \in 1 .. Len(st.dims) : st.dims[i] \in DimRec
  BY <1>1
<1>4. \A i \in 1 .. Len(st.dims) : /\ [st.dims[i] EXCEPT !.api = "gpu"] \in DimRec
                                   /\ [st.dims[i] EXCEPT !.api = "gpu"].var = st.dims[i].var
                                   /\ [st.dims[i] EXCEPT !.api = "gpu"].type = st.dims[i].type
                                   /\ [st.dims[i] EXCEPT !.api = "gpu"].for = st.dims[i].for
  BY <1>3 DEF DimRec
<1>5. D \in Seq(DimRec) /\ Len(D) = Len(st.dims)
  BY <1>1, <1>3, <1>4
<1>6. \A i \in 1 .. Len(st.dims) : D[i] = IF Last(st.dims[i].var) = name THEN [st.dims[i] EXCEPT !.api = "gpu"] ELSE st.dims[i]
  BY DEF Matches
<1> HIDE DEF D
<1>7. new.dims = D
  BY <1>2 DEF StageRec
<1>8. UpdatedDims(st, name, D)
  BY <1>4, <1>5, <1>6 DEF UpdatedDims
<1> QED BY <1>2, <1>4, <1>6, <1>7, <1>8

LEMMA UpdatedIsMarked ==
    ASSUME NEW st \in StageRec, NEW name, NEW new, UpdatedDims(st, name, new.dims), new = [st EXCEPT !.dims = new.dims]
    PROVE  Marked(st, new) /\ new.race = st.race /\ new.atomic = st.atomic
<1>1. new.dims \in Seq(DimRec)
  BY DEF UpdatedDims
<1>2. new \in StageRec
  BY <1>1 DEF StageRec
<1>3. /\ Same(st, new) /\ new.splits = st.splits /\ new.inwards = st.inwards
      /\ new.race = st.race /\ new.atomic = st.atomic
  BY DEF StageRec, Same
<1> QED BY <1>2, <1>3 DEF Marked, UpdatedDims

LEMMA MarkedImpure ==
    ASSUME NEW st, NEW new, Marked(st, new)
    PROVE  Impure(new) = Impure(st)
<1>1. \A i \in 1 .. Len(st.dims) : i \in Impure(new) <=> i \in Impure(st)
  BY DEF Marked, Impure, IsPure
<1>2. (\A i \in Impure(st) : i \in 1 .. Len(st.dims)) /\ (\A i \in Impure(new) : i \in 1 .. Len(st.dims))
  BY ImpureLoops DEF Marked
<1> QED BY <1>1, <1>2

LEMMA SetDimTypeKeeps ==
    ASSUME NEW st, StageInv(st), NEW name, NEW t \in Forms
    PROVE  SetDimType(st, name, t) = Refused \/ StageInv(SetDimType(st, name, t))
<1> DEFINE new == ForSet(st, name, t)
           races == /\ IsRVar(name) /\ IsParallel(t)
                    /\ \E i \in DOMAIN st.dims : Matches(st.dims[i].var, name) /\ ~IsPure(st.dims[i])
           allowed == st.race \/ (st.atomic /\ (st.override \/ st.assoc))
           legal == name \in DimNames(st) /\ (races => allowed)
<1>1. SetDimType(st, name, t) = Try(st, legal, new)
  BY DEF SetDimType, ForSet
<1>2. SUFFICES ASSUME legal PROVE StageInv(new)
  BY <1>1 DEF Try
<1>3. st \in StageRec /\ Shape(st) /\ Serial(st)
  BY DEF StageInv
<1>4. races => allowed
  BY <1>2
<1> DEFINE next == new
<1>5. /\ UpdatedDims(st, name, next.dims) /\ next = [st EXCEPT !.dims = next.dims]
      /\ \A i \in 1 .. Len(st.dims) : Last(st.dims[i].var) = name => next.dims[i].for = t
  BY <1>3, ForUpdated
<1> HIDE DEF next, new
<1>6. Marked(st, next) /\ next.race = st.race /\ next.atomic = st.atomic
  BY <1>3, <1>5, UpdatedIsMarked
<1>7. Serial(next)
  <2> SUFFICES ASSUME ~st.race, ~st.atomic, NEW i \in Impure(st) PROVE ~IsParallel(next.dims[i].for)
    BY <1>6, MarkedImpure DEF Serial
  <2>1. ~races
    BY <1>4
  <2>2. i \in 1 .. Len(st.dims) /\ ~IsPure(st.dims[i]) /\ i \in DOMAIN st.dims
    BY <1>3, StageTyped DEF Impure
  <2>3. CASE Last(st.dims[i].var) = name
    <3>1. st.dims[i].type # "PureVar"
      BY <2>2 DEF IsPure
    <3>2. IsRVar(name)
      BY <1>3, <2>2, <2>3, <3>1 DEF Shape, IsRVar
    <3>3. Matches(st.dims[i].var, name)
      BY <2>3 DEF Matches
    <3>4. ~IsParallel(t)
      BY <2>1, <2>2, <3>2, <3>3
    <3> QED BY <1>5, <2>2, <2>3, <3>4
  <2>4. CASE Last(st.dims[i].var) # name
    <3>1. next.dims[i].for = st.dims[i].for
      BY <1>5, <2>2, <2>4 DEF UpdatedDims
    <3> QED BY <1>3, <3>1 DEF Serial
  <2> QED BY <2>3, <2>4
<1> QED BY <1>6, <1>7, MarkedInv DEF next

LEMMA SetDimDeviceAPIKeeps ==
    ASSUME NEW st, StageInv(st), NEW name
    PROVE  SetDimDeviceAPI(st, name, "gpu") = Refused \/ StageInv(SetDimDeviceAPI(st, name, "gpu"))
<1> DEFINE new == UpdateDims(st, name, LAMBDA d : [d EXCEPT !.api = "gpu"])
<1>1. SetDimDeviceAPI(st, name, "gpu") = Try(st, name \in DimNames(st), new)
  BY DEF SetDimDeviceAPI
<1>2. SUFFICES StageInv(new)
  BY <1>1 DEF Try
<1>3. st \in StageRec /\ Serial(st)
  BY DEF StageInv
<1> DEFINE next == new
<1>4. /\ UpdatedDims(st, name, next.dims) /\ next = [st EXCEPT !.dims = next.dims]
      /\ \A i \in 1 .. Len(st.dims) : next.dims[i].for = st.dims[i].for
  BY <1>3, ApiUpdated
<1> HIDE DEF next, new
<1>5. Marked(st, next) /\ next.race = st.race /\ next.atomic = st.atomic
  BY <1>3, <1>4, UpdatedIsMarked
<1>6. Serial(next)
  <2>1. \A i \in Impure(st) : next.dims[i].for = st.dims[i].for
    BY <1>4, ImpureLoops
  <2> QED BY <1>3, <1>5, <2>1, MarkedImpure DEF Serial
<1> QED BY <1>5, <1>6, MarkedInv DEF next

LEMMA AllowKeeps ==
    ASSUME NEW st, StageInv(st)
    PROVE  /\ StageInv([st EXCEPT !.race = TRUE])
           /\ \A override \in BOOLEAN : StageInv([st EXCEPT !.atomic = TRUE, !.override = override])
<1>1. st \in StageRec
  BY DEF StageInv
<1>2. ASSUME NEW new, \/ new = [st EXCEPT !.race = TRUE]
                      \/ \E override \in BOOLEAN : new = [st EXCEPT !.atomic = TRUE, !.override = override]
      PROVE  StageInv(new)
  <2>1. new \in StageRec
    <3>1. CASE new = [st EXCEPT !.race = TRUE]
      BY <1>1, <3>1 DEF StageRec
    <3>2. CASE \E override \in BOOLEAN : new = [st EXCEPT !.atomic = TRUE, !.override = override]
      <4>1. PICK override \in BOOLEAN : new = [st EXCEPT !.atomic = TRUE, !.override = override]
        BY <3>2
      <4> QED BY <1>1, <4>1 DEF StageRec
    <3> QED BY <1>2, <3>1, <3>2
  <2>2. Same(st, new) /\ new.splits = st.splits /\ new.inwards = st.inwards /\ new.dims = st.dims
    BY <1>1, <1>2 DEF StageRec, Same
  <2>3. new.race \/ new.atomic
    BY <1>1, <1>2 DEF StageRec
  <2>4. Marked(st, new)
    BY <2>1, <2>2 DEF Marked
  <2>5. Serial(new)
    BY <2>3 DEF Serial
  <2> QED BY <2>4, <2>5, MarkedInv
<1> QED BY <1>2

-----------------------------------------------------------------------------
(* Stage::reorder                                                           *)
PlaceIn(I, k) == Cardinality({m \in I : m <= k})

LEMMA PlacesAre ==
    ASSUME NEW N \in Nat, NEW I \in SUBSET (1 .. N)
    PROVE  /\ Cardinality(I) \in Nat
           /\ \A k \in I : PlaceIn(I, k) \in 1 .. Cardinality(I)
           /\ \A k, l \in I : k < l => PlaceIn(I, k) < PlaceIn(I, l)
<1>1. IsFiniteSet(I) /\ \A k : IsFiniteSet({m \in I : m <= k})
  <2>1. IsFiniteSet(1 .. N)
    BY FS_Interval
  <2>2. \A S \in SUBSET (1 .. N) : IsFiniteSet(S)
    BY <2>1, FS_Subset
  <2> QED BY <2>2
<1>2. Cardinality(I) \in Nat /\ \A k : Cardinality({m \in I : m <= k}) \in Nat
  BY <1>1, FS_CardinalityType
<1>3. \A k \in I : PlaceIn(I, k) \in 1 .. Cardinality(I)
  <2> TAKE k \in I
  <2> DEFINE S == {m \in I : m <= k}
  <2>1. S \in SUBSET I /\ k \in S
    OBVIOUS
  <2>2. Cardinality(S) <= Cardinality(I)
    BY <1>1, <2>1, FS_Subset
  <2>3. Cardinality(S) # 0
    BY <1>1, <2>1, FS_EmptySet
  <2>4. Cardinality(S) \in Nat
    BY <1>2
  <2> HIDE DEF S
  <2>5. Cardinality(S) \in 1 .. Cardinality(I)
    BY <1>2, <2>2, <2>3, <2>4
  <2> QED BY <2>5 DEF PlaceIn, S
<1>4. \A k, l \in I : k < l => PlaceIn(I, k) < PlaceIn(I, l)
  <2> TAKE k, l \in I
  <2> HAVE k < l
  <2> DEFINE S == {m \in I : m <= k}
             T == {m \in I : m <= l}
  <2>0. k \in Int /\ l \in Int /\ \A m \in I : m \in Int
    OBVIOUS
  <2>1. S \in SUBSET T /\ l \in T /\ l \notin S
    <3>1. \A m \in S : m \in T
      BY <2>0
    <3>2. l \in T
      BY <2>0
    <3>3. ~(l <= k)
      BY <2>0
    <3>4. l \notin S
      BY <3>3
    <3> QED BY <3>1, <3>2, <3>4
  <2>2. IsFiniteSet(S) /\ IsFiniteSet(T) /\ Cardinality(S) \in Nat /\ Cardinality(T) \in Nat
    BY <1>1, <1>2
  <2> HIDE DEF S, T
  <2>3. Cardinality(S) <= Cardinality(T) /\ (Cardinality(T) = Cardinality(S) => T = S)
    BY <2>1, <2>2, FS_Subset
  <2>4. Cardinality(S) < Cardinality(T)
    BY <2>1, <2>2, <2>3
  <2> QED BY <2>4 DEF PlaceIn, S, T
<1> QED BY <1>2, <1>3, <1>4

LEMMA InjectiveOnto ==
    ASSUME NEW N \in Nat, NEW f \in [1 .. N -> 1 .. N], \A i, j \in 1 .. N : f[i] = f[j] => i = j
    PROVE  \A k \in 1 .. N : \E i \in 1 .. N : f[i] = k
<1>1. IsFiniteSet(1 .. N)
  BY FS_Interval
<1>2. f \in Injection(1 .. N, 1 .. N)
  BY DEF Injection, IsInjective
<1>3. f \in Surjection(1 .. N, 1 .. N)
  BY <1>1, <1>2, FS_Injection
<1> QED BY <1>3 DEF Surjection

\* The loops named take each other's places.
Reordered(st, idx, k) ==
    IF k \in ToSet(idx) THEN idx[PlaceIn(ToSet(idx), k)] ELSE k
Permuted(st, idx) == [i \in 1 .. Len(st.dims) |-> Reordered(st, idx, i)]

LEMMA PermutedIs ==
    ASSUME NEW st \in StageRec, NEW n \in Nat, NEW idx \in [1 .. n -> 1 .. Len(st.dims)],
           \A i, j \in 1 .. n : idx[i] = idx[j] => i = j
    PROVE  /\ ToSet(idx) \in SUBSET (1 .. Len(st.dims))
           /\ \A k \in ToSet(idx) : PlaceIn(ToSet(idx), k) \in 1 .. n
           /\ \A k, l \in ToSet(idx) : k < l => PlaceIn(ToSet(idx), k) < PlaceIn(ToSet(idx), l)
           /\ \A k \in ToSet(idx) : Permuted(st, idx)[k] = idx[PlaceIn(ToSet(idx), k)] /\ Permuted(st, idx)[k] \in ToSet(idx)
           /\ \A k \in 1 .. Len(st.dims) : k \notin ToSet(idx) => Permuted(st, idx)[k] = k
           /\ \A k \in 1 .. Len(st.dims) : Permuted(st, idx)[k] \in 1 .. Len(st.dims)
           /\ \A i, j \in 1 .. Len(st.dims) : Permuted(st, idx)[i] = Permuted(st, idx)[j] => i = j
           /\ \A k \in 1 .. Len(st.dims) : \E i \in 1 .. Len(st.dims) : Permuted(st, idx)[i] = k
<1> DEFINE N == Len(st.dims)
           I == ToSet(idx)
           P == Permuted(st, idx)
<1>1. N \in Nat
  BY StageTyped
<1>2. I \in SUBSET (1 .. N) /\ \A i \in 1 .. n : idx[i] \in I
  BY DEF ToSet
<1>3. Cardinality(I) = n
  <2>1. idx \in [1 .. n -> I]
    BY <1>2
  <2>2. idx \in Surjection(1 .. n, I)
    BY <2>1 DEF Surjection, ToSet
  <2>3. idx \in Injection(1 .. n, I)
    BY <2>1 DEF Injection, IsInjective
  <2>4. IsFiniteSet(1 .. n) /\ Cardinality(1 .. n) = n
    BY FS_Interval
  <2>5. Cardinality(I) = Cardinality(1 .. n)
    BY <2>2, <2>3, <2>4, FS_Surjection
  <2> QED BY <2>4, <2>5
<1>4. /\ \A k \in I : PlaceIn(I, k) \in 1 .. n
      /\ \A k, l \in I : k < l => PlaceIn(I, k) < PlaceIn(I, l)
  <2> HIDE DEF I, N
  <2> QED BY <1>1, <1>2, <1>3, PlacesAre
<1> HIDE DEF I, N
<1>5. \A k \in 1 .. N : P[k] = IF k \in I THEN idx[PlaceIn(I, k)] ELSE k
  BY DEF Permuted, Reordered, I, N
<1>6. P = [k \in 1 .. N |-> P[k]]
  BY DEF Permuted, N
<1> HIDE DEF P
<1>7. \A k \in I : k \in 1 .. N /\ P[k] = idx[PlaceIn(I, k)] /\ P[k] \in I
  BY <1>2, <1>4, <1>5
<1>8. \A k \in 1 .. N : k \notin I => P[k] = k
  BY <1>5
<1>9. \A k \in 1 .. N : P[k] \in 1 .. N
  BY <1>2, <1>7, <1>8
<1>10. \A i, j \in 1 .. N : P[i] = P[j] => i = j
  <2> TAKE i, j \in 1 .. N
  <2> HAVE P[i] = P[j]
  <2>1. CASE i \in I /\ j \in I
    <3>1. PlaceIn(I, i) = PlaceIn(I, j)
      BY <1>4, <1>7, <2>1
    <3>2. i \in Int /\ j \in Int /\ PlaceIn(I, i) \in Int
      BY <1>1, <1>4, <2>1
    <3>3. ~(i < j) /\ ~(j < i)
      BY <1>4, <2>1, <3>1, <3>2
    <3> QED BY <3>2, <3>3
  <2>2. CASE i \notin I \/ j \notin I
    BY <1>7, <1>8, <2>2
  <2> QED BY <2>1, <2>2
<1>11. \A k \in 1 .. N : \E i \in 1 .. N : P[i] = k
  <2>1. P \in [1 .. N -> 1 .. N]
    BY <1>6, <1>9
  <2> QED BY <1>1, <1>10, <2>1, InjectiveOnto
<1> QED BY <1>2, <1>4, <1>7, <1>8, <1>9, <1>10, <1>11 DEF I, N, P

LEMMA PermutedMoves ==
    ASSUME NEW st \in StageRec, Shape(st), NEW n \in Nat, NEW idx \in [1 .. n -> 1 .. Len(st.dims)],
           \A i, j \in 1 .. n : idx[i] = idx[j] => i = j, Len(st.dims) \notin ToSet(idx),
           NEW new, new = [st EXCEPT !.dims = [k \in 1 .. Len(st.dims) |-> st.dims[Permuted(st, idx)[k]]]]
    PROVE  /\ Moved(st, new, Permuted(st, idx)) /\ new.race = st.race /\ new.atomic = st.atomic
           /\ \A i \in 1 .. Len(st.dims) : new.dims[i] = st.dims[Permuted(st, idx)[i]]
<1> DEFINE N == Len(st.dims)
           P == Permuted(st, idx)
           D == [k \in 1 .. N |-> st.dims[P[k]]]
<1>1. N \in Nat /\ st.dims \in Seq(DimRec) /\ N > 0
  BY StageTyped DEF Shape
<1>2. \A i \in 1 .. N : P[i] \in 1 .. N
  BY PermutedIs
<1>3. \A i, j \in 1 .. N : P[i] = P[j] => i = j
  BY PermutedIs
<1>4. \A k \in 1 .. N : \E i \in 1 .. N : P[i] = k
  BY PermutedIs
<1>5. P[N] = N
  <2>1. \A k \in 1 .. N : k \notin ToSet(idx) => P[k] = k
    BY PermutedIs
  <2>2. N \in 1 .. N /\ N \notin ToSet(idx)
    BY <1>1
  <2> HIDE DEF N, P
  <2> QED BY <2>1, <2>2
<1> HIDE DEF P
<1>6. \A i \in 1 .. N : st.dims[i] \in DimRec
  BY <1>1
<1>7. D \in Seq(DimRec) /\ Len(D) = N /\ \A i \in 1 .. N : D[i] = st.dims[P[i]]
  <2> HIDE DEF N
  <2>1. \A k \in 1 .. N : st.dims[P[k]] \in DimRec
    BY <1>2, <1>6
  <2>2. D \in [1 .. N -> DimRec]
    BY <2>1
  <2>3. D \in Seq(DimRec) /\ Len(D) = N
    BY <1>1, <2>2
  <2> QED BY <2>3
<1>8. new = [st EXCEPT !.dims = D]
  BY DEF P
<1> HIDE DEF D
<1>9. /\ Same(st, new) /\ new.splits = st.splits /\ new.inwards = st.inwards /\ new.dims = D
      /\ new.race = st.race /\ new.atomic = st.atomic
  BY <1>8 DEF StageRec, Same
<1>10. new \in StageRec
  BY <1>7, <1>8 DEF StageRec
<1>11. \A i \in 1 .. N : new.dims[i] = st.dims[P[i]]
  BY <1>7, <1>9
<1>12. /\ \A i \in 1 .. N : new.dims[i].var = st.dims[P[i]].var
       /\ \A i \in 1 .. N : new.dims[i].type = st.dims[P[i]].type
  BY <1>11
<1>13. Len(new.dims) = N
  BY <1>7, <1>9
<1>14. Moved(st, new, P)
  BY <1>2, <1>3, <1>4, <1>5, <1>9, <1>10, <1>12, <1>13 DEF Moved
<1> QED BY <1>9, <1>11, <1>14 DEF P

LEMMA PermutedInOrder ==
    ASSUME NEW st \in StageRec, NEW n \in Nat, NEW idx \in [1 .. n -> 1 .. Len(st.dims)],
           \A i, j \in 1 .. n : idx[i] = idx[j] => i = j,
           ~SwapsReductions(st, idx),
           (\A i \in Impure(st) : i \notin ToSet(idx)) \/ (\A i \in Impure(st) : i \in ToSet(idx))
    PROVE  KeepsOrder(st, Permuted(st, idx))
<1> DEFINE N == Len(st.dims)
           I == ToSet(idx)
           P == Permuted(st, idx)
<1>1. N \in Nat
  BY StageTyped
<1>2. /\ \A k \in I : PlaceIn(I, k) \in 1 .. n
      /\ \A k, l \in I : k < l => PlaceIn(I, k) < PlaceIn(I, l)
  BY PermutedIs
<1>3. \A k \in I : P[k] = idx[PlaceIn(I, k)] /\ P[k] \in I
  BY PermutedIs
<1>4. \A k \in 1 .. N : k \notin I => P[k] = k
  BY PermutedIs
<1>5. SUFFICES ASSUME NEW i \in 1 .. N, NEW j \in 1 .. N, P[i] \in Impure(st), P[j] \in Impure(st), i < j
               PROVE  P[i] < P[j]
  BY DEF KeepsOrder
<1>6. \A a, b \in 1 .. n : a < b /\ idx[a] \in Impure(st) /\ idx[b] \in Impure(st) => idx[a] < idx[b]
  <2> TAKE a, b \in 1 .. n
  <2> HAVE a < b /\ idx[a] \in Impure(st) /\ idx[b] \in Impure(st)
  <2>1. ~IsPure(st.dims[idx[a]]) /\ ~IsPure(st.dims[idx[b]])
    BY DEF Impure
  <2>2. DOMAIN idx = 1 .. n
    OBVIOUS
  <2>3. ~(idx[a] > idx[b])
    BY <2>1, <2>2 DEF SwapsReductions
  <2>4. idx[a] # idx[b] /\ idx[a] \in Int /\ idx[b] \in Int
    BY <1>1
  <2> QED BY <2>3, <2>4
<1> HIDE DEF P, I, N
<1>7. CASE \A k \in Impure(st) : k \notin I
  <2>1. i \notin I /\ j \notin I
    BY <1>3, <1>5, <1>7
  <2> QED BY <1>4, <1>5, <2>1
<1>8. CASE \A k \in Impure(st) : k \in I
  <2>1. i \in I /\ j \in I
    BY <1>4, <1>5, <1>8
  <2> QED BY <1>2, <1>3, <1>5, <1>6, <2>1
<1> QED BY <1>7, <1>8 DEF I

LEMMA ReorderKeeps ==
    ASSUME NEW st, StageInv(st), Overlooked = {}, NEW names \in Seq(Name), OutermostName \notin ToSet(names),
           NamesAllReductions(st, names)
    PROVE  Reorder(st, names) = Refused \/ StageInv(Reorder(st, names))
<1> DEFINE idx == [i \in DOMAIN names |-> LastNamed(st.dims, names[i])]
           N == Len(st.dims)
           n == Len(names)
           place(k) == Cardinality({m \in ToSet(idx) : m <= k})
           legal == /\ 0 \notin ToSet(idx)
                    /\ IsInjective(idx)
                    /\ SwapsReductions(st, idx) => st.assoc /\ st.comm
           new == [st EXCEPT !.dims = [k \in DOMAIN @ |->
                     IF k \in ToSet(idx) THEN st.dims[idx[place(k)]] ELSE @[k]]]
<1>1. Reorder(st, names) = Try(st, legal, new)
  BY DEF Reorder, LastNamed
<1>2. SUFFICES ASSUME legal PROVE StageInv(new)
  BY <1>1 DEF Try
<1>3. st \in StageRec /\ Shape(st) /\ Serial(st)
  BY DEF StageInv
<1>4. N \in Nat /\ DOMAIN st.dims = 1 .. N
  BY <1>3, StageTyped
<1>5. n \in Nat /\ DOMAIN names = 1 .. n
  OBVIOUS
<1>6. \A name : /\ \A i \in 1 .. N : Last(st.dims[i].var) = name => LastNamed(st.dims, name) = i
                /\ (\A i \in 1 .. N : Last(st.dims[i].var) # name) => LastNamed(st.dims, name) = 0
  <2> TAKE name
  <2>1. \A i, j \in 1 .. Len(st.dims) : Last(st.dims[i].var) = Last(st.dims[j].var) => i = j
    BY <1>3 DEF Shape
  <2> QED BY <1>4, <2>1, FindName
<1>7. \A i \in 1 .. n : idx[i] = LastNamed(st.dims, names[i]) /\ idx[i] # 0 /\ idx[i] \in ToSet(idx)
  <2>1. 0 \notin ToSet(idx)
    BY <1>2
  <2>2. \A i \in 1 .. n : idx[i] \in ToSet(idx)
    BY <1>5 DEF ToSet
  <2> QED BY <1>5, <2>1, <2>2
<1>8. \A k \in ToSet(idx) : \E i \in 1 .. n : k = idx[i]
  BY <1>5 DEF ToSet
<1>9. \A i, j \in 1 .. n : idx[i] = idx[j] => i = j
  <2>1. IsInjective(idx) /\ DOMAIN idx = 1 .. n
    BY <1>2, <1>5
  <2> HIDE DEF idx, n
  <2> QED BY <2>1 DEF IsInjective
<1>10. SwapsReductions(st, idx) => st.assoc /\ st.comm
  BY <1>2
<1>20. idx = [i \in 1 .. n |-> idx[i]]
  BY <1>5
<1>21. new = [st EXCEPT !.dims = [k \in 1 .. N |-> IF k \in ToSet(idx) THEN st.dims[idx[PlaceIn(ToSet(idx), k)]] ELSE st.dims[k]]]
  BY <1>3, <1>4 DEF PlaceIn, StageRec
<1>22. \A k : k \in 1 .. n <=> k \in DOMAIN names
  BY <1>5
<1> DEFINE next == new
<1>23. next = [st EXCEPT !.dims = [k \in 1 .. N |-> IF k \in ToSet(idx) THEN st.dims[idx[PlaceIn(ToSet(idx), k)]] ELSE st.dims[k]]]
  BY <1>21
<1> HIDE DEF next, idx
<1>11. \A i \in 1 .. n : idx[i] \in 1 .. N /\ Last(st.dims[idx[i]].var) = names[i]
  <2> TAKE i \in 1 .. n
  <2>1. PICK k \in 1 .. N : Last(st.dims[k].var) = names[i]
    BY <1>6, <1>7
  <2>2. idx[i] = k
    BY <1>6, <1>7, <2>1
  <2> QED BY <2>1, <2>2
<1>12. N \notin ToSet(idx)
  <2>1. Last(st.dims[N].var) = OutermostName
    BY <1>3 DEF Shape
  <2>2. \A i \in 1 .. n : names[i] # OutermostName
    BY <1>22 DEF ToSet
  <2> QED BY <1>8, <1>11, <2>1, <2>2
<1>13. idx \in [1 .. n -> 1 .. N]
  BY <1>11, <1>20
<1>14. next = [st EXCEPT !.dims = [k \in 1 .. N |-> st.dims[Permuted(st, idx)[k]]]]
  <2>1. \A k \in 1 .. N : Permuted(st, idx)[k] = IF k \in ToSet(idx) THEN idx[PlaceIn(ToSet(idx), k)] ELSE k
    BY DEF Permuted, Reordered
  <2>2. \A k \in 1 .. N : st.dims[Permuted(st, idx)[k]]
                            = IF k \in ToSet(idx) THEN st.dims[idx[PlaceIn(ToSet(idx), k)]] ELSE st.dims[k]
    BY <2>1
  <2>3. [k \in 1 .. N |-> st.dims[Permuted(st, idx)[k]]]
          = [k \in 1 .. N |-> IF k \in ToSet(idx) THEN st.dims[idx[PlaceIn(ToSet(idx), k)]] ELSE st.dims[k]]
    BY <2>2
  <2> QED BY <1>23, <2>3
<1>15. /\ Moved(st, next, Permuted(st, idx)) /\ next.race = st.race /\ next.atomic = st.atomic
       /\ \A i \in 1 .. N : next.dims[i] = st.dims[Permuted(st, idx)[i]]
  <2> HIDE DEF n
  <2> QED BY <1>3, <1>5, <1>9, <1>12, <1>13, <1>14, PermutedMoves DEF N
<1>16. (\A i \in Impure(st) : i \notin ToSet(idx)) \/ (\A i \in Impure(st) : i \in ToSet(idx))
  <2> DEFINE impure == {Last(d.var) : d \in {e \in ToSet(st.dims) : ~IsPure(e)}}
  <2>1. impure \cap ToSet(names) \in {{}, impure}
    BY DEF NamesAllReductions
  <2>2. \A i \in Impure(st) : i \in 1 .. N /\ Last(st.dims[i].var) \in impure
    BY <1>4 DEF Impure, ToSet
  <2>3. \A i \in Impure(st) : Last(st.dims[i].var) \in ToSet(names) => i \in ToSet(idx)
    <3> TAKE i \in Impure(st)
    <3> HAVE Last(st.dims[i].var) \in ToSet(names)
    <3>1. PICK k \in 1 .. n : names[k] = Last(st.dims[i].var)
      BY <1>22 DEF ToSet
    <3>2. idx[k] = i
      BY <1>6, <1>7, <2>2, <3>1
    <3> QED BY <1>7, <3>2
  <2>4. \A i \in Impure(st) : i \in ToSet(idx) => Last(st.dims[i].var) \in ToSet(names)
    <3> TAKE i \in Impure(st)
    <3> HAVE i \in ToSet(idx)
    <3>1. PICK k \in 1 .. n : i = idx[k]
      BY <1>8
    <3>2. names[k] \in ToSet(names)
      BY <1>22 DEF ToSet
    <3> QED BY <1>11, <3>1, <3>2
  <2> HIDE DEF impure
  <2> QED BY <2>1, <2>2, <2>3, <2>4
<1>17. KeepsOrder(st, Permuted(st, idx)) \/ (st.assoc /\ st.comm)
  <2>1. CASE SwapsReductions(st, idx)
    BY <1>10, <2>1
  <2>2. CASE ~SwapsReductions(st, idx)
    <3> HIDE DEF n
    <3> QED BY <1>3, <1>5, <1>9, <1>13, <1>16, <2>2, PermutedInOrder DEF N
  <2> QED BY <2>1, <2>2
<1>18. Serial(next)
  <2> SUFFICES ASSUME ~st.race, ~st.atomic, NEW i \in Impure(next) PROVE ~IsParallel(next.dims[i].for)
    BY <1>15 DEF Serial
  <2>1. i \in 1 .. N
    BY <1>15, ImpureLoops DEF Moved, N
  <2>2. Permuted(st, idx)[i] \in Impure(st)
    BY <1>15, <2>1, MovedImpure DEF N
  <2> QED BY <1>3, <1>15, <2>1, <2>2 DEF Serial
<1>19. StageInv(next)
  BY <1>15, <1>17, <1>18, MovedInv
<1> QED BY <1>19 DEF next

-----------------------------------------------------------------------------
(* Stage::fuse                                                              *)

\* All loops but the one at the place at.
Without(at, k) == IF k < at THEN k ELSE k + 1

RemovedFrom(st, at, rest) ==
    /\ rest \in Seq(DimRec) /\ Len(rest) = Len(st.dims) - 1
    /\ \A k \in 1 .. Len(st.dims) - 1 : rest[k] = st.dims[Without(at, k)]

LEMMA RemovedDims ==
    ASSUME NEW st \in StageRec, NEW at \in 1 .. Len(st.dims)
    PROVE  RemovedFrom(st, at, RemoveAt(st.dims, at))
<1> DEFINE N == Len(st.dims)
           A == SubSeq(st.dims, 1, at - 1)
           B == SubSeq(st.dims, at + 1, N)
<1>1. st.dims \in Seq(DimRec) /\ N \in Nat /\ at \in 1 .. N
  BY StageTyped
<1>2. A \in Seq(DimRec) /\ Len(A) = at - 1 /\ \A i \in 1 .. at - 1 : A[i] = st.dims[i]
  <2>1. \A i \in 1 .. at - 1 : st.dims[i] \in DimRec
    BY <1>1
  <2> QED BY <1>1, <2>1, SubSeqProperties
<1>3. B \in Seq(DimRec) /\ Len(B) = N - at /\ \A i \in 1 .. N - at : B[i] = st.dims[at + i]
  <2>1. \A i \in at + 1 .. N : st.dims[i] \in DimRec
    BY <1>1
  <2>2. at + 1 \in Int /\ N \in Int
    BY <1>1
  <2>3. /\ SubSeq(st.dims, at + 1, N) \in Seq(DimRec)
        /\ Len(SubSeq(st.dims, at + 1, N)) = IF at + 1 <= N THEN N - (at + 1) + 1 ELSE 0
        /\ \A i \in 1 .. N - (at + 1) + 1 : SubSeq(st.dims, at + 1, N)[i] = st.dims[(at + 1) + i - 1]
    BY <2>1, <2>2, SubSeqProperties
  <2>4. (IF at + 1 <= N THEN N - (at + 1) + 1 ELSE 0) = N - at /\ N - (at + 1) + 1 = N - at
    BY <1>1
  <2>5. \A i \in 1 .. N - at : (at + 1) + i - 1 = at + i
    BY <1>1
  <2> HIDE DEF N
  <2> QED BY <2>3, <2>4, <2>5
<1> HIDE DEF A, B
<1>4. /\ A \o B \in Seq(DimRec) /\ Len(A \o B) = N - 1
      /\ \A k \in 1 .. N - 1 : (A \o B)[k] = st.dims[Without(at, k)]
  <2>1. /\ A \o B \in Seq(DimRec) /\ Len(A \o B) = Len(A) + Len(B)
        /\ \A i \in 1 .. Len(A) + Len(B) : (A \o B)[i] = IF i <= Len(A) THEN A[i] ELSE B[i - Len(A)]
    BY <1>2, <1>3, ConcatProperties
  <2>2. Len(A) + Len(B) = N - 1
    BY <1>1, <1>2, <1>3
  <2> HIDE DEF N
  <2>3. ASSUME NEW k \in 1 .. N - 1 PROVE (A \o B)[k] = st.dims[Without(at, k)]
    <3>1. CASE k < at
      <4>1. k <= Len(A) /\ k \in 1 .. at - 1 /\ k \in 1 .. Len(A) + Len(B)
        BY <1>1, <1>2, <2>2, <3>1
      <4> QED BY <1>2, <2>1, <3>1, <4>1 DEF Without
    <3>2. CASE ~(k < at)
      <4>1. ~(k <= Len(A)) /\ k - Len(A) \in 1 .. N - at /\ at + (k - Len(A)) = k + 1 /\ k \in 1 .. Len(A) + Len(B)
        BY <1>1, <1>2, <2>2, <3>2
      <4>2. (A \o B)[k] = B[k - Len(A)]
        BY <2>1, <4>1
      <4>3. B[k - Len(A)] = st.dims[at + (k - Len(A))]
        BY <1>3, <4>1
      <4> QED BY <3>2, <4>1, <4>2, <4>3 DEF Without
    <3> QED BY <3>1, <3>2
  <2> QED BY <2>1, <2>2, <2>3
<1> QED BY <1>4 DEF RemovedFrom, RemoveAt, A, B, N

\* Where the loops were: in their order, without one of them.
LEMMA WithoutIs ==
    ASSUME NEW N \in Nat, NEW at \in 1 .. N
    PROVE  /\ \A k \in 1 .. N - 1 : Without(at, k) \in 1 .. N /\ Without(at, k) # at
           /\ \A k, l \in 1 .. N - 1 : k < l => Without(at, k) < Without(at, l)
           /\ \A k, l \in 1 .. N - 1 : Without(at, k) = Without(at, l) => k = l
           /\ \A j \in 1 .. N : j # at => \E k \in 1 .. N - 1 : Without(at, k) = j
<1>1. \A k \in 1 .. N - 1 : Without(at, k) \in 1 .. N /\ Without(at, k) # at
  BY DEF Without
<1>2. \A k, l \in 1 .. N - 1 : k < l => Without(at, k) < Without(at, l)
  BY DEF Without
<1>3. \A k, l \in 1 .. N - 1 : Without(at, k) = Without(at, l) => k = l
  BY DEF Without
<1>4. \A j \in 1 .. N : j # at => \E k \in 1 .. N - 1 : Without(at, k) = j
  <2> TAKE j \in 1 .. N
  <2> HAVE j # at
  <2>1. CASE j < at
    <3>1. j \in 1 .. N - 1 /\ Without(at, j) = j
      BY <2>1 DEF Without
    <3> QED BY <3>1
  <2>2. CASE j > at
    <3>1. j - 1 \in 1 .. N - 1 /\ Without(at, j - 1) = j
      BY <2>2 DEF Without
    <3> QED BY <3>1
  <2> QED BY <2>1, <2>2
<1> QED BY <1>1, <1>2, <1>3, <1>4

\* Two loops that reduce nothing became one, in the place of the inner one; the
\* loop k was the was[k]-th.
Joined(st, new, at, in, was, s) ==
    /\ Appends(st, new, s) /\ s.kind = "fuse"
    /\ at \in 1 .. Len(st.dims) /\ s.outer = st.dims[at].var
    /\ in \in 1 .. Len(new.dims) /\ s.inner = st.dims[was[in]].var /\ s.old = new.dims[in].var
    /\ at \notin Impure(st) /\ was[in] \notin Impure(st) /\ in \notin Impure(new)
    /\ \A k \in 1 .. Len(new.dims) : was[k] \in 1 .. Len(st.dims) /\ was[k] # at
    /\ \A k, l \in 1 .. Len(new.dims) : k < l => was[k] < was[l]
    /\ \A k, l \in 1 .. Len(new.dims) : was[k] = was[l] => k = l
    /\ \A j \in 1 .. Len(st.dims) : j # at => \E k \in 1 .. Len(new.dims) : was[k] = j
    /\ \A k \in 1 .. Len(new.dims) : k # in => new.dims[k] = st.dims[was[k]]
    /\ Len(new.dims) \in Nat

LEMMA JoinedImpure ==
    ASSUME NEW st \in StageRec, NEW new, NEW at, NEW in, NEW was, NEW s, Joined(st, new, at, in, was, s)
    PROVE  /\ \A k \in Impure(new) : k # in /\ k \in 1 .. Len(new.dims) /\ was[k] \in Impure(st) /\ new.dims[k] = st.dims[was[k]]
           /\ \A j \in Impure(st) : \E k \in Impure(new) : was[k] = j /\ new.dims[k] = st.dims[j]
<1>1. in \notin Impure(new) /\ at \notin Impure(st) /\ was[in] \notin Impure(st)
  BY DEF Joined
<1>2. \A k \in 1 .. Len(new.dims) : k # in => new.dims[k] = st.dims[was[k]]
  BY DEF Joined
<1>3. \A k \in 1 .. Len(new.dims) : was[k] \in 1 .. Len(st.dims)
  BY DEF Joined
<1>4. \A k \in Impure(new) : k # in /\ k \in 1 .. Len(new.dims) /\ was[k] \in Impure(st) /\ new.dims[k] = st.dims[was[k]]
  BY <1>1, <1>2, <1>3 DEF Impure
<1>5. ASSUME NEW j \in Impure(st) PROVE \E k \in Impure(new) : was[k] = j /\ new.dims[k] = st.dims[j]
  <2>1. j \in 1 .. Len(st.dims) /\ j # at
    BY <1>1 DEF Impure
  <2>2. PICK k \in 1 .. Len(new.dims) : was[k] = j
    BY <2>1 DEF Joined
  <2>3. k # in
    BY <1>1, <2>2
  <2>4. new.dims[k] = st.dims[j] /\ k \in Impure(new)
    BY <1>2, <2>2, <2>3 DEF Impure
  <2> QED BY <2>2, <2>4
<1> QED BY <1>4, <1>5

LEMMA JoinedSizes ==
    ASSUME NEW st \in StageRec, NEW new, NEW at, NEW in, NEW was, NEW s, Joined(st, new, at, in, was, s),
           NEW e, NEW inner, NEW shifted, Extended(st, s, e, inner, shifted)
    PROVE  /\ e[s.inner] \in Positive /\ e[s.outer] \in Positive /\ e[s.old] = e[s.inner] * e[s.outer]
           /\ s.old \in inner <=> (s.inner \in inner \/ s.outer \in inner)
           /\ s.old \notin shifted
           /\ s.old \in Path /\ s.inner \in Path /\ s.outer \in Path /\ s.inner # s.outer
           /\ Makes(s) = {s.old} /\ Takes(s) = {s.inner, s.outer}
           /\ s.old \notin Known(st) /\ s.inner \in Known(st) /\ s.outer \in Known(st)
<1>1. s \in SplitRec /\ s.kind = "fuse" /\ s.inner # s.outer
  BY DEF Joined, Appends
<1>2. s.old \in Path /\ s.inner \in Path /\ s.outer \in Path
  BY <1>1 DEF SplitRec, SplitFields
<1>3. SizeRule(s, e) /\ InnerRule(s, inner) /\ ShiftRule(s, shifted) /\ e \in [Path -> Positive]
  BY DEF Extended, Meaning, Sizes
<1>4. e[s.inner] \in Positive /\ e[s.outer] \in Positive
  BY <1>2, <1>3
<1>5. Makes(s) = {s.old} /\ Takes(s) = {s.inner, s.outer}
  BY <1>1 DEF Makes, Takes
<1>6. s.old \notin Known(st) /\ s.inner \in Known(st) /\ s.outer \in Known(st)
  BY <1>5 DEF Joined, Appends, IsLeaf
<1> QED BY <1>1, <1>2, <1>3, <1>4, <1>5, <1>6 DEF SizeRule, InnerRule, ShiftRule

LEMMA JoinedAllowed ==
    ASSUME NEW st \in StageRec, NEW new, NEW at, NEW in, NEW was, NEW s, Joined(st, new, at, in, was, s), NEW e, NEW a
    PROVE  Allowed(new, e, a) <=> /\ Allowed(st, e, a)
                                  /\ a[s.inner] = a[s.old] % e[s.inner]
                                  /\ a[s.outer] = a[s.old] \div e[s.inner]
<1>1. Appends(st, new, s) /\ s.kind = "fuse"
  BY DEF Joined
<1> QED BY <1>1, AppendedAllowed DEF Follows, GuardOf

\* The two parts of the fused loop, and the loop from its parts.
LEMMA JoinedParts ==
    ASSUME NEW x \in Positive, NEW y \in Positive, NEW v \in Int
    PROVE  /\ v % x \in 0 .. x - 1 /\ v \div x \in Int /\ v = (v \div x) * x + (v % x)
           /\ v >= 0 => v \div x >= 0
           /\ v < x * y => v \div x < y
<1>1. v \div x \in Int /\ v % x \in 0 .. x - 1 /\ v = (v \div x) * x + (v % x)
  BY QuotientIs
<1> DEFINE q == v \div x
           r == v % x
<1>2. q \in Int /\ r \in 0 .. x - 1 /\ v = q * x + r
  BY <1>1
<1> HIDE DEF q, r
<1>3. ASSUME v >= 0 PROVE q >= 0
  <2>1. SUFFICES ASSUME q <= -1 PROVE FALSE
    BY <1>2
  <2>2. q * x <= (-1) * x /\ q * x \in Int
    BY <1>2, <2>1, MulMonotone
  <2>3. (-1) * x = -x
    BY DEF Positive
  <2> QED BY <1>2, <1>3, <2>2, <2>3 DEF Positive
<1>4. ASSUME v < x * y PROVE q < y
  <2>1. SUFFICES ASSUME y <= q PROVE FALSE
    BY <1>2 DEF Positive
  <2>2. y * x <= q * x /\ q * x \in Int /\ y * x \in Int
    BY <1>2, <2>1, MulMonotone DEF Positive
  <2>3. y * x = x * y
    BY DEF Positive
  <2> QED BY <1>2, <1>4, <2>2, <2>3 DEF Positive
<1> QED BY <1>1, <1>3, <1>4 DEF q

LEMMA JoinedFrom ==
    ASSUME NEW x \in Positive, NEW y \in Positive, NEW v \in 0 .. x - 1, NEW w \in 0 .. y - 1
    PROVE  w * x + v \in 0 .. x * y - 1 /\ (w * x + v) \div x = w /\ (w * x + v) % x = v
<1>1. (w * x + v) \div x = w /\ (w * x + v) % x = v
  BY QuotientOf
<1>2. 0 <= w * x /\ w * x \in Int
  <2>1. 0 * x <= w * x /\ w * x \in Int
    BY MulMonotone
  <2>2. 0 * x = 0
    BY DEF Positive
  <2> QED BY <2>1, <2>2
<1>3. w * x + x <= x * y /\ x * y \in Int
  <2>1. w + 1 <= y /\ w + 1 \in Int /\ y \in Int
    BY DEF Positive
  <2>2. (w + 1) * x <= y * x /\ y * x \in Int
    BY <2>1, MulMonotone
  <2>3. (w + 1) * x = w * x + x /\ y * x = x * y
    BY DEF Positive
  <2> QED BY <2>2, <2>3
<1>4. v \in Int /\ v >= 0 /\ v < x /\ x \in Int
  BY DEF Positive
<1> DEFINE u == w * x
<1> HIDE DEF u
<1>5. u \in Int /\ 0 <= u /\ u + x <= x * y
  BY <1>2, <1>3 DEF u
<1>6. u + v \in 0 .. x * y - 1
  BY <1>3, <1>4, <1>5
<1> QED BY <1>1, <1>6 DEF u

\* What the code checks of a fuse, and what it leaves to the user.
JoinLegal(st, new, s) ==
    /\ Last(s.inner) # OutermostName /\ Last(s.outer) # OutermostName /\ Last(s.old) # OutermostName
    /\ Last(s.inner) \in RVarNames \/ Last(s.outer) \in RVarNames => Last(s.old) \in RVarNames
    /\ new.inwards = st.inwards

LEMMA JoinedLoops ==
    ASSUME NEW st \in StageRec, NEW new, NEW at, NEW in, NEW was, NEW s, Joined(st, new, at, in, was, s)
    PROVE  \A j \in 1 .. Len(st.dims) :
               \/ st.dims[j].var = s.outer
               \/ st.dims[j].var = s.inner
               \/ \E k \in 1 .. Len(new.dims) : k # in /\ new.dims[k] = st.dims[j]
<1> TAKE j \in 1 .. Len(st.dims)
<1>1. CASE j = at
  BY <1>1 DEF Joined
<1>2. CASE j # at
  <2>1. PICK k \in 1 .. Len(new.dims) : was[k] = j
    BY <1>2 DEF Joined
  <2>2. CASE k = in
    BY <2>1, <2>2 DEF Joined
  <2>3. CASE k # in
    BY <2>1, <2>3 DEF Joined
  <2> QED BY <2>2, <2>3
<1> QED BY <1>1, <1>2

LEMMA JoinedFine ==
    ASSUME NEW st \in StageRec, Shape(st), NEW new, NEW at, NEW in, NEW was, NEW s,
           Joined(st, new, at, in, was, s), JoinLegal(st, new, s),
           NEW e, NEW inner, NEW shifted, Extended(st, s, e, inner, shifted),
           NEW a, Fine(new, e, inner, a)
    PROVE  Fine(st, e, inner, a)
<1>1. /\ e[s.inner] \in Positive /\ e[s.outer] \in Positive /\ e[s.old] = e[s.inner] * e[s.outer]
      /\ s.old \in inner <=> (s.inner \in inner \/ s.outer \in inner)
      /\ s.old \in Path
  BY JoinedSizes
<1>2. Allowed(new, e, a) /\ a \in [Path -> Int]
  BY DEF Fine, Allowed
<1>3. /\ Allowed(st, e, a) /\ a[s.inner] = a[s.old] % e[s.inner] /\ a[s.outer] = a[s.old] \div e[s.inner]
  BY <1>2, JoinedAllowed
<1>4. a[s.old] \in Int
  BY <1>1, <1>2
<1>5. a[s.old] >= 0 /\ (Bounded(s.old, inner) => a[s.old] < e[s.old])
  <2>1. in \in 1 .. Len(new.dims) /\ s.old = new.dims[in].var
    BY DEF Joined
  <2> QED BY <2>1 DEF Fine
<1>6. a[s.inner] \in 0 .. e[s.inner] - 1 /\ a[s.outer] >= 0
  BY <1>1, <1>3, <1>4, <1>5, JoinedParts
<1>7. Bounded(s.outer, inner) => a[s.outer] < e[s.outer]
  <2> HAVE Bounded(s.outer, inner)
  <2>1. Bounded(s.old, inner)
    BY <1>1 DEF Bounded, JoinLegal
  <2>2. a[s.old] < e[s.inner] * e[s.outer]
    BY <1>1, <1>5, <2>1
  <2> QED BY <1>1, <1>3, <1>4, <2>2, JoinedParts
<1>8. a[s.inner] >= 0 /\ a[s.inner] < e[s.inner]
  BY <1>1, <1>6 DEF Positive
<1>9. \A k \in 1 .. Len(new.dims) :
          /\ a[new.dims[k].var] >= 0
          /\ Bounded(new.dims[k].var, inner) => a[new.dims[k].var] < e[new.dims[k].var]
  BY DEF Fine
<1>10. ASSUME NEW j \in 1 .. Len(st.dims)
       PROVE  /\ a[st.dims[j].var] >= 0
              /\ Bounded(st.dims[j].var, inner) => a[st.dims[j].var] < e[st.dims[j].var]
  <2>1. CASE st.dims[j].var = s.outer
    BY <1>6, <1>7, <2>1
  <2>2. CASE st.dims[j].var = s.inner
    BY <1>8, <2>2
  <2>3. CASE \E k \in 1 .. Len(new.dims) : k # in /\ new.dims[k] = st.dims[j]
    BY <1>9, <2>3
  <2> QED BY <2>1, <2>2, <2>3, JoinedLoops
<1> QED BY <1>3, <1>10 DEF Fine

LEMMA JoinedCalm ==
    ASSUME NEW st \in StageRec, Shape(st), NEW new, NEW at, NEW in, NEW was, NEW s,
           Joined(st, new, at, in, was, s),
           NEW e, NEW inner, NEW shifted, Extended(st, s, e, inner, shifted),
           NEW a, Calm(new, e, shifted, a)
    PROVE  Calm(st, e, shifted, a)
<1>1. /\ e[s.inner] \in Positive /\ e[s.outer] \in Positive /\ e[s.old] = e[s.inner] * e[s.outer]
      /\ s.old \notin shifted
      /\ s.old \in Path
  BY JoinedSizes
<1>2. Allowed(new, e, a) /\ a \in [Path -> Int]
  BY DEF Calm, Allowed
<1>3. /\ Allowed(st, e, a) /\ a[s.inner] = a[s.old] % e[s.inner] /\ a[s.outer] = a[s.old] \div e[s.inner]
  BY <1>2, JoinedAllowed
<1>4. a[s.old] \in Int
  BY <1>1, <1>2
<1>5. a[s.old] >= 0 /\ a[s.old] < e[s.inner] * e[s.outer]
  <2>1. in \in 1 .. Len(new.dims) /\ s.old = new.dims[in].var
    BY DEF Joined
  <2> QED BY <1>1, <2>1 DEF Calm
<1>6. a[s.inner] \in 0 .. e[s.inner] - 1 /\ a[s.outer] >= 0 /\ a[s.outer] < e[s.outer]
  BY <1>1, <1>3, <1>4, <1>5, JoinedParts
<1>8. a[s.inner] >= 0 /\ a[s.inner] < e[s.inner]
  BY <1>1, <1>6 DEF Positive
<1>9. \A k \in 1 .. Len(new.dims) :
          /\ a[new.dims[k].var] >= 0
          /\ new.dims[k].var \notin shifted => a[new.dims[k].var] < e[new.dims[k].var]
  BY DEF Calm
<1>10. ASSUME NEW j \in 1 .. Len(st.dims)
       PROVE  /\ a[st.dims[j].var] >= 0
              /\ st.dims[j].var \notin shifted => a[st.dims[j].var] < e[st.dims[j].var]
  <2>1. CASE st.dims[j].var = s.outer
    BY <1>6, <2>1
  <2>2. CASE st.dims[j].var = s.inner
    BY <1>8, <2>2
  <2>3. CASE \E k \in 1 .. Len(new.dims) : k # in /\ new.dims[k] = st.dims[j]
    BY <1>9, <2>3
  <2> QED BY <2>1, <2>2, <2>3, JoinedLoops
<1> QED BY <1>3, <1>10 DEF Calm

LEMMA JoinedPoints ==
    ASSUME NEW st \in StageRec, Shape(st), NEW new, NEW at, NEW in, NEW was, NEW s,
           Joined(st, new, at, in, was, s),
           NEW e, NEW inner, NEW shifted, Extended(st, s, e, inner, shifted)
    PROVE  CarriesPoints(st, new, e)
<1>1. /\ e[s.inner] \in Positive /\ e[s.outer] \in Positive /\ e[s.old] = e[s.inner] * e[s.outer]
      /\ s.old \in Path /\ s.old \notin Known(st) /\ s.inner \in Known(st) /\ s.outer \in Known(st)
  BY JoinedSizes
<1> SUFFICES ASSUME NEW a, Allowed(st, e, a), InRange(st, e, a)
             PROVE  \E b : Allowed(new, e, b) /\ InRange(new, e, b) /\ \A r \in Roots(st) : b[r] = a[r]
  BY DEF CarriesPoints
<1> DEFINE w == a[s.outer] * e[s.inner] + a[s.inner]
           b == [p \in Path |-> IF p = s.old THEN w ELSE a[p]]
<1>2. a[s.outer] \in 0 .. e[s.outer] - 1 /\ a[s.inner] \in 0 .. e[s.inner] - 1
  <2>1. /\ at \in 1 .. Len(st.dims) /\ s.outer = st.dims[at].var
        /\ was[in] \in 1 .. Len(st.dims) /\ s.inner = st.dims[was[in]].var
    BY DEF Joined
  <2> QED BY <2>1 DEF InRange
<1>3. w \in 0 .. e[s.inner] * e[s.outer] - 1 /\ w \div e[s.inner] = a[s.outer] /\ w % e[s.inner] = a[s.inner]
  BY <1>1, <1>2, JoinedFrom
<1> HIDE DEF w
<1>4. w \in Int /\ w \in 0 .. e[s.old] - 1
  BY <1>1, <1>3 DEF Positive
<1>5. b \in Valuation
  BY <1>4 DEF Allowed, Valuation
<1>6. \A p \in Known(st) : b[p] = a[p]
  BY <1>1 DEF Shape
<1>7. b[s.old] = w
  BY <1>1
<1> HIDE DEF b
<1>8. Follows(s, e, b) /\ GuardOf(s, e, b)
  <2>1. s.kind = "fuse"
    BY DEF Joined
  <2>2. b[s.inner] = b[s.old] % e[s.inner] /\ b[s.outer] = b[s.old] \div e[s.inner]
    BY <1>1, <1>3, <1>6, <1>7
  <2> QED BY <2>1, <2>2 DEF Follows, GuardOf
<1>9. Allowed(new, e, b)
  <2>1. Appends(st, new, s)
    BY DEF Joined
  <2> QED BY <1>5, <1>6, <1>8, <2>1, AllowedFurther
<1>10. InRange(new, e, b)
  <2>1. ASSUME NEW k \in 1 .. Len(new.dims) PROVE b[new.dims[k].var] \in 0 .. e[new.dims[k].var] - 1
    <3>1. CASE k = in
      <4>1. new.dims[k].var = s.old
        BY <3>1 DEF Joined
      <4> QED BY <1>4, <1>7, <4>1
    <3>2. CASE k # in
      <4>1. was[k] \in 1 .. Len(st.dims) /\ new.dims[k] = st.dims[was[k]]
        BY <3>2 DEF Joined
      <4>2. st.dims[was[k]].var \in Known(st)
        BY <4>1 DEF Shape, IsLeaf
      <4> QED BY <1>6, <4>1, <4>2 DEF InRange
    <3> QED BY <3>1, <3>2
  <2> QED BY <2>1 DEF InRange
<1>11. Roots(st) \subseteq Known(st)
  BY DEF Known, KnownAt, Base
<1> QED BY <1>6, <1>9, <1>10, <1>11

LEMMA JoinedTellsApart ==
    ASSUME NEW st \in StageRec, NEW new, NEW at, NEW in, NEW was, NEW s,
           Joined(st, new, at, in, was, s),
           NEW e, NEW inner, NEW shifted, Extended(st, s, e, inner, shifted),
           NEW a, NEW b, Allowed(new, e, a), Allowed(new, e, b)
    PROVE  TellsApart(st, new, a, b, a, b)
<1>1. e[s.inner] \in Positive /\ s.old \in Path
  BY JoinedSizes
<1>2. a[s.inner] = b[s.inner] /\ a[s.outer] = b[s.outer] => a[s.old] = b[s.old]
  <2>1. /\ a[s.inner] = a[s.old] % e[s.inner] /\ a[s.outer] = a[s.old] \div e[s.inner]
        /\ b[s.inner] = b[s.old] % e[s.inner] /\ b[s.outer] = b[s.old] \div e[s.inner]
    BY JoinedAllowed
  <2>2. a[s.old] \in Int /\ b[s.old] \in Int
    BY <1>1 DEF Allowed
  <2>3. /\ a[s.old] = (a[s.old] \div e[s.inner]) * e[s.inner] + (a[s.old] % e[s.inner])
        /\ b[s.old] = (b[s.old] \div e[s.inner]) * e[s.inner] + (b[s.old] % e[s.inner])
    BY <1>1, <2>2, QuotientIs
  <2> QED BY <2>1, <2>3
<1>3. /\ at \in 1 .. Len(st.dims) /\ s.outer = st.dims[at].var /\ at \notin Impure(st)
      /\ was[in] \in 1 .. Len(st.dims) /\ s.inner = st.dims[was[in]].var /\ was[in] \notin Impure(st)
      /\ s.old = new.dims[in].var
  BY DEF Joined
<1>4. \A k \in 1 .. Len(new.dims) : k # in => was[k] \in 1 .. Len(st.dims) /\ new.dims[k] = st.dims[was[k]]
  BY DEF Joined
<1>5. ASSUME LoopsAgree(st, a, b, {}) PROVE LoopsAgree(new, a, b, {})
  <2> SUFFICES ASSUME NEW k \in 1 .. Len(new.dims) PROVE a[new.dims[k].var] = b[new.dims[k].var]
    BY DEF LoopsAgree
  <2>1. CASE k = in
    <3>1. a[st.dims[at].var] = b[st.dims[at].var] /\ a[st.dims[was[in]].var] = b[st.dims[was[in]].var]
      BY <1>3, <1>5 DEF LoopsAgree
    <3> QED BY <1>2, <1>3, <2>1, <3>1
  <2>2. CASE k # in
    BY <1>4, <1>5, <2>2 DEF LoopsAgree
  <2> QED BY <2>1, <2>2
<1>6. ASSUME LoopsAgree(st, a, b, Impure(st)) PROVE LoopsAgree(new, a, b, Impure(new))
  <2> SUFFICES ASSUME NEW k \in 1 .. Len(new.dims), k \notin Impure(new)
               PROVE  a[new.dims[k].var] = b[new.dims[k].var]
    BY DEF LoopsAgree
  <2>1. CASE k = in
    BY <1>2, <1>3, <1>6, <2>1 DEF LoopsAgree
  <2>2. CASE k # in
    <3>1. was[k] \notin Impure(st)
      BY <1>4, <2>2 DEF Impure
    <3> QED BY <1>4, <1>6, <2>2, <3>1 DEF LoopsAgree
  <2> QED BY <2>1, <2>2
<1>7. ASSUME Differ(st, a, b) PROVE Differ(new, a, b)
  <2>1. PICK j \in Impure(st) : a[st.dims[j].var] # b[st.dims[j].var]
    BY <1>7 DEF Differ
  <2>2. PICK k \in Impure(new) : was[k] = j /\ new.dims[k] = st.dims[j]
    BY JoinedImpure
  <2> QED BY <2>1, <2>2 DEF Differ
<1>8. ASSUME Sooner(st, a, b) PROVE Sooner(new, a, b)
  <2>1. PICK i \in Impure(st) : /\ a[st.dims[i].var] < b[st.dims[i].var]
                                /\ \A j \in Impure(st) : j > i => a[st.dims[j].var] = b[st.dims[j].var]
    BY <1>8 DEF Sooner
  <2>2. PICK k \in Impure(new) : was[k] = i /\ new.dims[k] = st.dims[i]
    BY JoinedImpure
  <2>3. \A l \in Impure(new) : l > k => a[new.dims[l].var] = b[new.dims[l].var]
    <3> TAKE l \in Impure(new)
    <3> HAVE l > k
    <3>1. l \in 1 .. Len(new.dims) /\ k \in 1 .. Len(new.dims) /\ was[l] \in Impure(st) /\ new.dims[l] = st.dims[was[l]]
      BY JoinedImpure
    <3>2. Len(new.dims) \in Nat
      BY DEF Joined
    <3>3. k < l
      BY <3>1, <3>2
    <3>4. was[k] < was[l]
      BY <3>1, <3>3 DEF Joined
    <3>6. was[l] \in Int /\ was[k] \in Int
      BY <3>1, StageTyped DEF Joined
    <3>5. was[l] > i
      BY <2>2, <3>4, <3>6
    <3>8. was[l] \in Impure(st)
      BY <3>1
    <3>9. new.dims[l] = st.dims[was[l]]
      BY <3>1
    <3>7. \A j \in Impure(st) : j > i => a[st.dims[j].var] = b[st.dims[j].var]
      BY <2>1
    <3>10. a[st.dims[was[l]].var] = b[st.dims[was[l]].var]
      BY ONLY <3>5, <3>8, <3>7
    <3> QED BY <3>9, <3>10
  <2> QED BY <2>1, <2>2, <2>3 DEF Sooner
<1> QED BY <1>5, <1>6, <1>7, <1>8 DEF TellsApart

LEMMA JoinedGrows ==
    ASSUME NEW st \in StageRec, Shape(st), NEW new, NEW at, NEW in, NEW was, NEW s,
           Joined(st, new, at, in, was, s), JoinLegal(st, new, s),
           NEW n \in Name, MadeOf(st, s.inner, s.old, n),
           \A k \in 1 .. Len(new.dims) : k # in => Last(new.dims[k].var) # n,
           new.dims[in].type # "PureVar" => n \in RVarNames
    PROVE  Grows(st, new, s, s.inner)
<1> DEFINE N == Len(st.dims)
           M == Len(new.dims)
<1>1. /\ at \in 1 .. N /\ s.outer = st.dims[at].var
      /\ in \in 1 .. M /\ was[in] \in 1 .. N /\ s.inner = st.dims[was[in]].var /\ s.old = new.dims[in].var
      /\ M \in Nat /\ s.kind = "fuse"
  BY DEF Joined
<1>2. \A k \in 1 .. M : k # in => was[k] \in 1 .. N /\ was[k] # at /\ was[k] # was[in] /\ new.dims[k] = st.dims[was[k]]
  BY DEF Joined
<1>3. Makes(s) = {s.old} /\ Takes(s) = {s.inner, s.outer}
  BY <1>1 DEF Makes, Takes
<1>4. \A i, j \in 1 .. N : Last(st.dims[i].var) = Last(st.dims[j].var) => i = j
  BY DEF Shape
<1>5. Last(s.old) = n
  BY DEF MadeOf
<1>6. N \in Nat
  BY StageTyped
<1>20. \A k, l \in 1 .. M : was[k] = was[l] => k = l
  BY DEF Joined
<1>21. \A k \in 1 .. M : k # in => Last(new.dims[k].var) # n
  OBVIOUS
<1>22. \A j \in 1 .. N : \/ st.dims[j].var = s.outer
                         \/ st.dims[j].var = s.inner
                         \/ \E k \in 1 .. M : k # in /\ new.dims[k] = st.dims[j]
  BY JoinedLoops
<1> HIDE DEF N, M
<1>7. \A p : (\E k \in 1 .. M : p = new.dims[k].var) <=>
                ((\E j \in 1 .. N : p = st.dims[j].var) /\ p \notin Takes(s)) \/ p \in Makes(s)
  <2> TAKE p
  <2>1. ASSUME NEW k \in 1 .. M, p = new.dims[k].var
        PROVE  ((\E j \in 1 .. N : p = st.dims[j].var) /\ p \notin {s.inner, s.outer}) \/ p = s.old
    <3>1. CASE k = in
      BY <1>1, <2>1, <3>1
    <3>2. CASE k # in
      <4>1. was[k] \in 1 .. N /\ was[k] # at /\ was[k] # was[in] /\ p = st.dims[was[k]].var
        BY <1>2, <2>1, <3>2
      <4> QED BY <1>1, <1>4, <4>1
    <3> QED BY <3>1, <3>2
  <2>2. ASSUME NEW j \in 1 .. N, p = st.dims[j].var, p \notin {s.inner, s.outer}
        PROVE  \E k \in 1 .. M : p = new.dims[k].var
    <3>1. PICK k \in 1 .. M : k # in /\ new.dims[k] = st.dims[j]
      BY <1>22, <2>2
    <3> QED BY <2>2, <3>1
  <2> QED BY <1>1, <1>3, <2>1, <2>2
<1>8. \A k, l \in 1 .. M : Last(new.dims[k].var) = Last(new.dims[l].var) => k = l
  <2> TAKE k, l \in 1 .. M
  <2> HAVE Last(new.dims[k].var) = Last(new.dims[l].var)
  <2>1. CASE k # in /\ l # in
    <3>1. was[k] = was[l]
      BY <1>2, <1>4, <2>1
    <3> QED BY <1>20, <3>1
  <2>2. CASE k = in \/ l = in
    BY <1>1, <1>5, <1>21, <2>2
  <2> QED BY <2>1, <2>2
<1>9. M > 0 /\ new.dims[M].type = "PureVar" /\ Last(new.dims[M].var) = OutermostName
  <2>1. N > 0 /\ st.dims[N].type = "PureVar" /\ Last(st.dims[N].var) = OutermostName
    BY DEF Shape, N
  <2>2. N \in 1 .. N /\ M \in 1 .. M
    BY <1>1, <1>6, <2>1
  <2>3. N # at /\ N # was[in]
    BY <1>1, <2>1 DEF JoinLegal
  <2>4. PICK k \in 1 .. M : was[k] = N
    BY <2>2, <2>3 DEF Joined, N, M
  <2>5. k = M
    <3>1. was[M] \in 1 .. N
      BY <2>2 DEF Joined, N, M
    <3>2. k < M => was[k] < was[M]
      BY <2>2 DEF Joined, M
    <3> QED BY <1>1, <1>6, <2>4, <3>1, <3>2
  <2>6. M # in
    BY <2>3, <2>4, <2>5
  <2> QED BY <1>1, <1>2, <2>1, <2>2, <2>4, <2>5, <2>6
<1>10. \A k \in 1 .. M : new.dims[k].type # "PureVar" => Last(new.dims[k].var) \in RVarNames
  <2>1. \A j \in 1 .. N : st.dims[j].type # "PureVar" => Last(st.dims[j].var) \in RVarNames
    BY DEF Shape, N
  <2> TAKE k \in 1 .. M
  <2>2. CASE k = in
    BY <1>1, <1>5, <2>2
  <2>3. CASE k # in
    BY <1>2, <2>1, <2>3
  <2> QED BY <2>2, <2>3
<1>11. s.inner \in Takes(s) /\ \A m \in Makes(s) : \E k \in Name : MadeOf(st, s.inner, m, k)
  BY <1>3
<1> QED BY <1>7, <1>8, <1>9, <1>10, <1>11 DEF Grows, N, M

LEMMA JoinedInv ==
    ASSUME NEW st, StageInv(st), NEW new, NEW at, NEW in, NEW was, NEW s,
           Joined(st, new, at, in, was, s), JoinLegal(st, new, s), Serial(new),
           NEW n \in Name, MadeOf(st, s.inner, s.old, n),
           \A k \in 1 .. Len(new.dims) : k # in => Last(new.dims[k].var) # n,
           new.dims[in].type # "PureVar" => n \in RVarNames
    PROVE  StageInv(new)
<1>1. st \in StageRec /\ Shape(st)
  BY DEF StageInv
<1>2. Grows(st, new, s, s.inner)
  BY <1>1, JoinedGrows
<1>3. Appends(st, new, s)
  BY DEF Joined
<1>4. ASSUME NEW e, NEW inner, NEW shifted, Extended(st, s, e, inner, shifted)
      PROVE  /\ \A k \in 1 .. Len(new.dims) : Last(new.dims[k].var) = OutermostName => e[new.dims[k].var] = 1
             /\ \E back : Carries(st, new, e, inner, shifted, back)
  <2>1. \A k \in 1 .. Len(new.dims) : Last(new.dims[k].var) = OutermostName => e[new.dims[k].var] = 1
    <3> TAKE k \in 1 .. Len(new.dims)
    <3> HAVE Last(new.dims[k].var) = OutermostName
    <3>1. \A j \in 1 .. Len(st.dims) : Last(st.dims[j].var) = OutermostName => e[st.dims[j].var] = 1
      BY <1>4 DEF Extended, Meaning, Sizes
    <3>2. k # in
      BY DEF Joined, JoinLegal
    <3>3. was[k] \in 1 .. Len(st.dims) /\ new.dims[k] = st.dims[was[k]]
      BY <3>2 DEF Joined
    <3> QED BY <3>1, <3>3
  <2>2. CarriesPoints(st, new, e)
    BY <1>1, <1>4, JoinedPoints
  <2>3. ~st.init => \A a : Fine(new, e, inner, a) => Fine(st, e, inner, a)
    BY <1>1, <1>4, JoinedFine
  <2>4. ~st.init => \A a, b : Fine(new, e, inner, a) /\ Fine(new, e, inner, b) => TellsApart(st, new, a, b, a, b)
    <3> SUFFICES ASSUME NEW a, NEW b, Fine(new, e, inner, a), Fine(new, e, inner, b)
                 PROVE  TellsApart(st, new, a, b, a, b)
      OBVIOUS
    <3>1. Allowed(new, e, a) /\ Allowed(new, e, b)
      BY DEF Fine
    <3> QED BY <1>1, <1>4, <3>1, JoinedTellsApart
  <2>5. st.init /\ new.inwards /\ Fits(new, e) =>
               st.inwards /\ Fits(st, e) /\ \A a : Calm(new, e, shifted, a) => Calm(st, e, shifted, a)
    <3> HAVE st.init /\ new.inwards /\ Fits(new, e)
    <3>1. st.inwards
      BY DEF JoinLegal
    <3>2. Fits(st, e)
      BY <1>1, <1>3, AppendedFits
    <3>3. \A a : Calm(new, e, shifted, a) => Calm(st, e, shifted, a)
      BY <1>1, <1>4, JoinedCalm
    <3> QED BY <3>1, <3>2, <3>3
  <2>6. \E back : Carries(st, new, e, inner, shifted, back)
    BY <2>2, <2>3, <2>4, <2>5, CarriesDirectly
  <2> QED BY <2>1, <2>6
<1> QED BY <1>2, <1>3, <1>4, AppendedInv

Worst(types) == CASE "ImpureRVar" \in types -> "ImpureRVar"
                  [] types = {"PureVar"} -> "PureVar"
                  [] OTHER -> "PureRVar"
Fusing(path, outer, inner) ==
    [kind |-> "fuse", old |-> path, factor |-> 0, tail |-> "RoundUp", outer |-> outer, inner |-> inner]
FuseResult(st, rest, in, path, type, s) ==
    [st EXCEPT !.dims = [rest EXCEPT ![in] = [@ EXCEPT !.var = path, !.type = type]], !.splits = Append(@, s)]

FuseGives(st, rest, in, path, type, s, new) ==
    /\ new \in StageRec /\ Same(st, new)
    /\ Len(new.dims) = Len(rest) /\ new.dims[in].var = path /\ new.dims[in].type = type
    /\ \A k \in 1 .. Len(rest) : k # in => new.dims[k] = rest[k]
    /\ new.splits = Append(st.splits, s) /\ new.inwards = st.inwards
    /\ new.race = st.race /\ new.atomic = st.atomic

LEMMA FuseFields ==
    ASSUME NEW st \in StageRec, NEW rest \in Seq(DimRec), NEW in \in 1 .. Len(rest), NEW path \in Path,
           NEW type \in {"PureVar", "PureRVar", "ImpureRVar"}, NEW s \in SplitRec,
           NEW new, new = FuseResult(st, rest, in, path, type, s)
    PROVE  FuseGives(st, rest, in, path, type, s, new)
<1> DEFINE d == [rest[in] EXCEPT !.var = path, !.type = type]
           D == [k \in 1 .. Len(rest) |-> IF k = in THEN d ELSE rest[k]]
<1>1. rest[in] \in DimRec /\ Len(rest) \in Nat /\ DOMAIN rest = 1 .. Len(rest)
  OBVIOUS
<1>2. d \in DimRec /\ d.var = path /\ d.type = type
  BY <1>1 DEF DimRec
<1>3. new = [st EXCEPT !.dims = D, !.splits = Append(st.splits, s)]
  <2>1. [rest EXCEPT ![in] = [@ EXCEPT !.var = path, !.type = type]] = D
    BY <1>1
  <2> HIDE DEF D
  <2> QED BY <2>1 DEF FuseResult, StageRec
<1> HIDE DEF d
<1>4. D \in Seq(DimRec) /\ Len(D) = Len(rest) /\ D[in] = d /\ \A k \in 1 .. Len(rest) : k # in => D[k] = rest[k]
  BY <1>1, <1>2
<1> HIDE DEF D
<1>5. Append(st.splits, s) \in Seq(SplitRec)
  BY StageTyped
<1>6. new \in StageRec
  BY <1>3, <1>4, <1>5 DEF StageRec
<1>7. /\ new.dims = D /\ new.splits = Append(st.splits, s) /\ new.inwards = st.inwards /\ Same(st, new)
      /\ new.race = st.race /\ new.atomic = st.atomic
  BY <1>3 DEF StageRec, Same
<1> QED BY <1>2, <1>4, <1>6, <1>7 DEF FuseGives

LEMMA FuseKeeps ==
    ASSUME NEW st, StageInv(st), NEW inner, NEW outer, NEW fused \in FreshNames,
           inner # outer, inner # OutermostName, outer # OutermostName,
           \A d \in ToSet(st.dims) : Last(d.var) \in {inner, outer} => IsPure(d),
           fused \notin DimNames(st) \ {inner, outer}
    PROVE  Fuse(st, inner, outer, fused) = Refused \/ StageInv(Fuse(st, inner, outer, fused))
<1> DEFINE at == Find(st.dims, outer)
           rest == RemoveAt(st.dims, at)
           in == Find(rest, inner)
           path == Append(rest[in].var, fused)
           types == {rest[in].type, st.dims[at].type}
           worst == Worst(types)
           legal == /\ ~IsRVar(fused) => ~IsRVar(inner) /\ ~IsRVar(outer)
                    /\ at # 0
                    /\ in # 0
           s == Fusing(path, st.dims[at].var, rest[in].var)
           new == FuseResult(st, rest, in, path, worst, s)
<1>1. Fuse(st, inner, outer, fused) = Try(st, legal, new)
  BY DEF Fuse, FuseResult, Fusing, Worst
<1>2. SUFFICES ASSUME legal PROVE StageInv(new)
  BY <1>1 DEF Try
<1>3. st \in StageRec /\ Shape(st) /\ Serial(st)
  BY DEF StageInv
<1> DEFINE N == Len(st.dims)
<1>4. N \in Nat /\ st.dims \in Seq(DimRec) /\ DOMAIN st.dims = 1 .. N
  BY <1>3, StageTyped
<1>5. at \in 1 .. N /\ Last(st.dims[at].var) = outer
  <2>1. at # 0
    BY <1>2
  <2> QED BY <1>3, <2>1, NameFound
<1>6. RemovedFrom(st, at, rest)
  BY <1>3, <1>5, RemovedDims
<1>7. \A i, j \in 1 .. N : Last(st.dims[i].var) = Last(st.dims[j].var) => i = j
  BY <1>3 DEF Shape
<1>30. at # 0 /\ in # 0 /\ (~IsRVar(fused) => ~IsRVar(inner) /\ ~IsRVar(outer))
  BY <1>2
<1> DEFINE w == [k \in 1 .. N - 1 |-> Without(at, k)]
<1>8. \A k \in 1 .. N - 1 : w[k] = Without(at, k)
  OBVIOUS
<1> HIDE DEF at, w, N
<1> HIDE DEF rest
<1>9. /\ rest \in Seq(DimRec) /\ Len(rest) = N - 1 /\ N - 1 \in Nat
      /\ \A k \in 1 .. N - 1 : rest[k] = st.dims[w[k]]
  BY <1>4, <1>5, <1>6, <1>8 DEF RemovedFrom, N
<1>10. \A k \in 1 .. N - 1 : w[k] \in 1 .. N /\ w[k] # at
  BY <1>4, <1>5, <1>8, WithoutIs
<1>11. \A k, l \in 1 .. N - 1 : k < l => w[k] < w[l]
  <2>1. \A k, l \in 1 .. N - 1 : k < l => Without(at, k) < Without(at, l)
    BY <1>4, <1>5, WithoutIs
  <2> QED BY <1>8, <2>1
<1>12. \A k, l \in 1 .. N - 1 : w[k] = w[l] => k = l
  <2>1. \A k, l \in 1 .. N - 1 : Without(at, k) = Without(at, l) => k = l
    BY <1>4, <1>5, WithoutIs
  <2> QED BY <1>8, <2>1
<1>13. \A j \in 1 .. N : j # at => \E k \in 1 .. N - 1 : w[k] = j
  <2>1. \A j \in 1 .. N : j # at => \E k \in 1 .. N - 1 : Without(at, k) = j
    BY <1>4, <1>5, WithoutIs
  <2> QED BY <1>8, <2>1
<1>14. in \in 1 .. N - 1 /\ Last(rest[in].var) = inner
  <2>1. \A i, j \in 1 .. N - 1 : Last(rest[i].var) = Last(rest[j].var) => i = j
    BY <1>7, <1>9, <1>10, <1>12
  <2>2. /\ \A i \in 1 .. N - 1 : Last(rest[i].var) = inner => in = i
        /\ (\A i \in 1 .. N - 1 : Last(rest[i].var) # inner) => in = 0
    BY <1>9, <2>1, FindName
  <2> HIDE DEF in
  <2>3. PICK i \in 1 .. N - 1 : Last(rest[i].var) = inner
    BY <1>30, <2>2
  <2> QED BY <2>2, <2>3
<1> HIDE DEF in
<1>15. rest[in] = st.dims[w[in]] /\ w[in] \in 1 .. N /\ w[in] # at
  BY <1>9, <1>10, <1>14
<1>16. MadeOf(st, rest[in].var, path, fused)
  <2>1. fused \in Name
    BY DEF Name
  <2> QED BY <1>3, <1>15, <2>1, FreshPath DEF N
<1>17. /\ IsLeaf(st, rest[in].var) /\ IsLeaf(st, st.dims[at].var)
       /\ rest[in].var # st.dims[at].var
  <2>1. IsLeaf(st, rest[in].var) /\ IsLeaf(st, st.dims[at].var)
    BY <1>3, <1>5, <1>15 DEF Shape, N
  <2> QED BY <1>5, <1>14, <2>1
<1>18. /\ rest[in].var \in Path /\ st.dims[at].var \in Path /\ path \in Path /\ path \notin Known(st)
       /\ Last(path) = fused
  BY <1>3, <1>16, <1>17 DEF Shape, IsLeaf, MadeOf
<1>19. /\ rest[in].type \in {"PureVar", "PureRVar"} /\ st.dims[at].type \in {"PureVar", "PureRVar"}
       /\ rest[in].type = "PureRVar" => inner \in RVarNames
       /\ st.dims[at].type = "PureRVar" => outer \in RVarNames
  <2>1. st.dims[at] \in DimRec /\ st.dims[w[in]] \in DimRec
    BY <1>4, <1>5, <1>15
  <2>2. st.dims[at] \in ToSet(st.dims) /\ st.dims[w[in]] \in ToSet(st.dims)
    BY <1>4, <1>5, <1>15 DEF ToSet
  <2>3. IsPure(st.dims[at]) /\ IsPure(rest[in])
    BY <1>5, <1>14, <1>15, <2>2
  <2>4. \A i \in 1 .. N : st.dims[i].type # "PureVar" => Last(st.dims[i].var) \in RVarNames
    BY <1>3 DEF Shape, N
  <2> QED BY <1>5, <1>14, <1>15, <2>1, <2>3, <2>4 DEF IsPure, DimRec
<1>20. worst \in {"PureVar", "PureRVar"} /\ (worst # "PureVar" => fused \in RVarNames)
  <2>1. worst \in {"PureVar", "PureRVar"} /\ (types = {"PureVar"} => worst = "PureVar")
    BY <1>19 DEF Worst
  <2>2. fused \notin RVarNames => types = {"PureVar"}
    BY <1>19, <1>30 DEF IsRVar
  <2> QED BY <2>1, <2>2
<1> HIDE DEF worst, types
<1>21. /\ s.kind = "fuse" /\ s.old = path /\ s.outer = st.dims[at].var /\ s.inner = rest[in].var
       /\ s \in SplitRec /\ Makes(s) = {path} /\ Takes(s) = {rest[in].var, st.dims[at].var}
  <2>1. s.kind = "fuse" /\ s.old = path /\ s.outer = st.dims[at].var /\ s.inner = rest[in].var
    BY DEF Fusing
  <2>2. s \in SplitRec
    <3> HIDE DEF path
    <3> QED BY <1>18 DEF Fusing, SplitRec, SplitFields
  <2> HIDE DEF s
  <2> QED BY <2>1, <2>2 DEF Makes, Takes
<1> HIDE DEF path, s
<1> DEFINE next == new
<1>22. /\ next \in StageRec /\ Same(st, next)
       /\ Len(next.dims) = N - 1 /\ next.dims[in].var = path /\ next.dims[in].type = worst
       /\ \A k \in 1 .. N - 1 : k # in => next.dims[k] = rest[k]
       /\ next.splits = Append(st.splits, s) /\ next.inwards = st.inwards
       /\ next.race = st.race /\ next.atomic = st.atomic
  <2>1. in \in 1 .. Len(rest) /\ worst \in {"PureVar", "PureRVar", "ImpureRVar"}
    BY <1>9, <1>14, <1>20
  <2>2. next = FuseResult(st, rest, in, path, worst, s)
    OBVIOUS
  <2>3. s \in SplitRec /\ path \in Path
    BY <1>18, <1>21
  <2> HIDE DEF next, new
  <2>4. FuseGives(st, rest, in, path, worst, s, next)
    BY <1>3, <1>9, <2>1, <2>2, <2>3, FuseFields
  <2> QED BY <1>9, <2>4 DEF FuseGives
<1> HIDE DEF next, new
<1>23. Appends(st, next, s)
  BY <1>17, <1>18, <1>21, <1>22 DEF Appends
<1>24. at \notin Impure(st) /\ w[in] \notin Impure(st) /\ in \notin Impure(next)
  BY <1>15, <1>19, <1>20, <1>22 DEF Impure, IsPure
<1>25. Joined(st, next, at, in, w, s)
  <2>1. s.kind = "fuse" /\ s.outer = st.dims[at].var /\ s.inner = st.dims[w[in]].var /\ s.old = next.dims[in].var
    BY <1>15, <1>21, <1>22
  <2>2. \A k \in 1 .. Len(next.dims) : w[k] \in 1 .. N /\ w[k] # at
    BY <1>10, <1>22
  <2>3. \A k, l \in 1 .. Len(next.dims) : k < l => w[k] < w[l]
    BY <1>11, <1>22
  <2>4. \A k, l \in 1 .. Len(next.dims) : w[k] = w[l] => k = l
    BY <1>12, <1>22
  <2>5. \A j \in 1 .. N : j # at => \E k \in 1 .. Len(next.dims) : w[k] = j
    BY <1>13, <1>22
  <2>6. \A k \in 1 .. Len(next.dims) : k # in => next.dims[k] = st.dims[w[k]]
    BY <1>9, <1>22
  <2>7. at \in 1 .. N /\ in \in 1 .. Len(next.dims) /\ Len(next.dims) \in Nat
    BY <1>5, <1>9, <1>14, <1>22
  <2> QED BY <1>23, <1>24, <2>1, <2>2, <2>3, <2>4, <2>5, <2>6, <2>7 DEF Joined, N
<1>26. JoinLegal(st, next, s)
  <2>1. fused # OutermostName
    BY OutermostAssumption
  <2> QED BY <1>5, <1>14, <1>18, <1>21, <1>22, <1>30, <2>1 DEF JoinLegal, IsRVar
<1>27. Serial(next)
  <2> SUFFICES ASSUME ~st.race, ~st.atomic, NEW k \in Impure(next) PROVE ~IsParallel(next.dims[k].for)
    BY <1>22 DEF Serial
  <2>1. w[k] \in Impure(st) /\ next.dims[k] = st.dims[w[k]]
    BY <1>3, <1>25, JoinedImpure
  <2> QED BY <1>3, <2>1 DEF Serial
<1>28. \A k \in 1 .. Len(next.dims) : k # in => Last(next.dims[k].var) # fused
  <2> TAKE k \in 1 .. Len(next.dims)
  <2> HAVE k # in
  <2>1. k \in 1 .. N - 1 /\ next.dims[k] = st.dims[w[k]] /\ w[k] \in 1 .. N /\ w[k] # at /\ w[k] # w[in]
    BY <1>9, <1>10, <1>12, <1>14, <1>22
  <2>2. Last(st.dims[w[k]].var) # outer /\ Last(st.dims[w[k]].var) # inner
    BY <1>5, <1>7, <1>14, <1>15, <2>1
  <2>3. Last(st.dims[w[k]].var) \in DimNames(st)
    BY <1>3, <2>1, NameFound DEF N
  <2> QED BY <2>1, <2>2, <2>3
<1>29. StageInv(next)
  <2>1. MadeOf(st, s.inner, s.old, fused) /\ fused \in Name /\ (next.dims[in].type # "PureVar" => fused \in RVarNames)
    BY <1>16, <1>20, <1>21, <1>22 DEF Name
  <2> QED BY <1>25, <1>26, <1>27, <1>28, <2>1, JoinedInv
<1> QED BY <1>29 DEF next

-----------------------------------------------------------------------------
(* Stage::rename of a loop that a split made: the split makes the new name. *)
Swap(path, to, p) == IF p = path THEN to ELSE p

\* The split t says of the new names what s says of the old ones.
Like(s, t, path, to) ==
    /\ t.kind = s.kind /\ t.factor = s.factor /\ t.tail = s.tail
    /\ t.old = Swap(path, to, s.old) /\ t.outer = Swap(path, to, s.outer)
    /\ s.kind # "rename" => t.inner = Swap(path, to, s.inner)

RenamedWithin(st, new, at, to, n) ==
    /\ new \in StageRec /\ Same(st, new) /\ new.inwards = st.inwards
    /\ at \in 1 .. Len(st.dims) /\ OnlyRenamed(st, at, to, new.dims)
    /\ MadeOf(st, st.dims[at].var, to, n) /\ st.dims[at].var \notin Base(st)
    /\ \A i \in 1 .. Len(st.dims) : Last(st.dims[i].var) # n
    /\ n # OutermostName /\ Last(st.dims[at].var) # OutermostName
    /\ n \in RVarNames <=> Last(st.dims[at].var) \in RVarNames
    /\ Len(new.splits) = Len(st.splits)
    /\ \A i \in 1 .. Len(st.splits) : Like(st.splits[i], new.splits[i], st.dims[at].var, to)

LEMMA LikeInvolves ==
    ASSUME NEW s, s.kind \in {"split", "fuse", "rename"}, NEW t, NEW path, NEW to, Like(s, t, path, to)
    PROVE  /\ t.kind = s.kind
           /\ \A p \in Makes(s) : Swap(path, to, p) \in Makes(t)
           /\ \A p \in Takes(s) : Swap(path, to, p) \in Takes(t)
           /\ \A q \in Makes(t) : \E p \in Makes(s) : q = Swap(path, to, p)
           /\ \A q \in Takes(t) : \E p \in Takes(s) : q = Swap(path, to, p)
<1>1. CASE s.kind = "split"
  <2>1. Makes(s) = {s.inner, s.outer} /\ Takes(s) = {s.old} /\ Makes(t) = {t.inner, t.outer} /\ Takes(t) = {t.old}
    BY <1>1 DEF Like, Makes, Takes
  <2>2. t.old = Swap(path, to, s.old) /\ t.outer = Swap(path, to, s.outer) /\ t.inner = Swap(path, to, s.inner) /\ t.kind = s.kind
    BY <1>1 DEF Like
  <2> QED BY ONLY <2>1, <2>2
<1>2. CASE s.kind = "fuse"
  <2>1. Makes(s) = {s.old} /\ Takes(s) = {s.inner, s.outer} /\ Makes(t) = {t.old} /\ Takes(t) = {t.inner, t.outer}
    BY <1>2 DEF Like, Makes, Takes
  <2>2. t.old = Swap(path, to, s.old) /\ t.outer = Swap(path, to, s.outer) /\ t.inner = Swap(path, to, s.inner) /\ t.kind = s.kind
    BY <1>2 DEF Like
  <2> QED BY ONLY <2>1, <2>2
<1>3. CASE s.kind = "rename"
  <2>1. Makes(s) = {s.outer} /\ Takes(s) = {s.old} /\ Makes(t) = {t.outer} /\ Takes(t) = {t.old}
    BY <1>3 DEF Like, Makes, Takes
  <2>2. t.old = Swap(path, to, s.old) /\ t.outer = Swap(path, to, s.outer) /\ t.kind = s.kind
    BY <1>3 DEF Like
  <2> QED BY ONLY <2>1, <2>2
<1> QED BY <1>1, <1>2, <1>3

\* Values that agree, and sets of names that agree, on the new names and the old ones.
Agreeing(s, path, to, a, b) == \A p \in Involves(s) : b[Swap(path, to, p)] = a[p]
Alike(s, path, to, u) == \A p \in Involves(s) : Swap(path, to, p) \in u <=> p \in u

LEMMA LikeAgrees ==
    ASSUME NEW s, s.kind \in {"split", "fuse", "rename"}, NEW t, NEW path, NEW to, Like(s, t, path, to),
           NEW a, NEW b, Agreeing(s, path, to, a, b)
    PROVE  /\ b[t.old] = a[s.old] /\ b[t.outer] = a[s.outer]
           /\ s.kind # "rename" => b[t.inner] = a[s.inner]
<1>1. s.old \in Involves(s) /\ s.outer \in Involves(s) /\ (s.kind # "rename" => s.inner \in Involves(s))
  BY DEF Involves, Makes, Takes
<1>2. /\ t.old = Swap(path, to, s.old) /\ t.outer = Swap(path, to, s.outer)
      /\ s.kind # "rename" => t.inner = Swap(path, to, s.inner)
  BY DEF Like
<1> QED BY <1>1, <1>2 DEF Agreeing

LEMMA LikeAlike ==
    ASSUME NEW s, s.kind \in {"split", "fuse", "rename"}, NEW t, NEW path, NEW to, Like(s, t, path, to),
           NEW u, Alike(s, path, to, u)
    PROVE  /\ t.old \in u <=> s.old \in u
           /\ t.outer \in u <=> s.outer \in u
           /\ s.kind # "rename" => (t.inner \in u <=> s.inner \in u)
<1>1. s.old \in Involves(s) /\ s.outer \in Involves(s) /\ (s.kind # "rename" => s.inner \in Involves(s))
  BY DEF Involves, Makes, Takes
<1>2. /\ t.old = Swap(path, to, s.old) /\ t.outer = Swap(path, to, s.outer)
      /\ s.kind # "rename" => t.inner = Swap(path, to, s.inner)
  BY DEF Like
<1> QED BY <1>1, <1>2 DEF Alike

\* The rules of t hold of values that agree with those that the rules of s hold of.
LEMMA LikeSize ==
    ASSUME NEW s, s.kind \in {"split", "fuse", "rename"}, NEW t, NEW path, NEW to, Like(s, t, path, to),
           NEW e, Agreeing(s, path, to, e, e)
    PROVE  SizeRule(t, e) <=> SizeRule(s, e)
<1>1. t.kind = s.kind /\ t.factor = s.factor
  BY DEF Like
<1>2. e[t.old] = e[s.old] /\ e[t.outer] = e[s.outer] /\ (s.kind # "rename" => e[t.inner] = e[s.inner])
  BY LikeAgrees
<1>3. CASE s.kind = "split"
  BY <1>1, <1>2, <1>3 DEF SizeRule
<1>4. CASE s.kind = "fuse"
  BY <1>1, <1>2, <1>4 DEF SizeRule
<1>5. CASE s.kind = "rename"
  BY <1>1, <1>2, <1>5 DEF SizeRule
<1> QED BY <1>3, <1>4, <1>5

LEMMA LikeInner ==
    ASSUME NEW s, s.kind \in {"split", "fuse", "rename"}, NEW t, NEW path, NEW to, Like(s, t, path, to),
           NEW u, Alike(s, path, to, u)
    PROVE  InnerRule(t, u) <=> InnerRule(s, u)
<1>1. t.kind = s.kind
  BY DEF Like
<1>2. (t.old \in u <=> s.old \in u) /\ (t.outer \in u <=> s.outer \in u)
      /\ (s.kind # "rename" => (t.inner \in u <=> s.inner \in u))
  BY LikeAlike
<1>3. CASE s.kind = "split"
  BY <1>1, <1>2, <1>3 DEF InnerRule
<1>4. CASE s.kind = "fuse"
  BY <1>1, <1>2, <1>4 DEF InnerRule
<1>5. CASE s.kind = "rename"
  BY <1>1, <1>2, <1>5 DEF InnerRule
<1> QED BY <1>3, <1>4, <1>5

LEMMA LikeShift ==
    ASSUME NEW s, s.kind \in {"split", "fuse", "rename"}, NEW t, NEW path, NEW to, Like(s, t, path, to),
           NEW u, Alike(s, path, to, u)
    PROVE  ShiftRule(t, u) <=> ShiftRule(s, u)
<1>1. t.kind = s.kind /\ t.tail = s.tail
  BY DEF Like
<1>2. (t.old \in u <=> s.old \in u) /\ (t.outer \in u <=> s.outer \in u)
      /\ (s.kind # "rename" => (t.inner \in u <=> s.inner \in u))
  BY LikeAlike
<1>3. CASE s.kind = "split"
  BY <1>1, <1>2, <1>3 DEF ShiftRule
<1>4. CASE s.kind = "fuse"
  BY <1>1, <1>2, <1>4 DEF ShiftRule
<1>5. CASE s.kind = "rename"
  BY <1>1, <1>2, <1>5 DEF ShiftRule
<1> QED BY <1>3, <1>4, <1>5

LEMMA LikeFollows ==
    ASSUME NEW s, s.kind \in {"split", "fuse", "rename"}, NEW t, NEW path, NEW to, Like(s, t, path, to),
           NEW e, Agreeing(s, path, to, e, e), NEW a, NEW b, Agreeing(s, path, to, a, b)
    PROVE  (Follows(t, e, b) <=> Follows(s, e, a)) /\ (GuardOf(t, e, b) <=> GuardOf(s, e, a))
<1>1. t.kind = s.kind /\ t.factor = s.factor /\ t.tail = s.tail
  BY DEF Like
<1>2. e[t.old] = e[s.old] /\ e[t.outer] = e[s.outer] /\ (s.kind # "rename" => e[t.inner] = e[s.inner])
  BY LikeAgrees
<1>3. b[t.old] = a[s.old] /\ b[t.outer] = a[s.outer] /\ (s.kind # "rename" => b[t.inner] = a[s.inner])
  BY LikeAgrees
<1>4. CASE s.kind = "split"
  <2>1. SplitBase(t, e, b) = SplitBase(s, e, a)
    BY <1>1, <1>2, <1>3, <1>4 DEF SplitBase
  <2> QED BY <1>1, <1>2, <1>3, <1>4, <2>1 DEF Follows, GuardOf
<1>5. CASE s.kind = "fuse"
  BY <1>1, <1>2, <1>3, <1>5 DEF Follows, GuardOf
<1>6. CASE s.kind = "rename"
  BY <1>1, <1>2, <1>3, <1>6 DEF Follows, GuardOf
<1> QED BY <1>4, <1>5, <1>6

LEMMA WithinKnown ==
    ASSUME NEW st \in StageRec, Shape(st), NEW new, NEW at, NEW to, NEW n, RenamedWithin(st, new, at, to, n)
    PROVE  LET path == st.dims[at].var
           IN /\ \A m \in 0 .. Len(st.splits) : \A p \in KnownAt(st, m) : Swap(path, to, p) \in KnownAt(new, m)
              /\ \A m \in 0 .. Len(st.splits) : \A q \in KnownAt(new, m) : \E p \in KnownAt(st, m) : q = Swap(path, to, p)
              /\ \A p, q \in Known(st) : Swap(path, to, p) = Swap(path, to, q) => p = q
              /\ to \notin Known(st) /\ path \in Known(st) /\ Known(new) = {Swap(path, to, p) : p \in Known(st)}
<1> DEFINE path == st.dims[at].var
           N == Len(st.splits)
<1>1. /\ Same(st, new) /\ at \in 1 .. Len(st.dims) /\ path \notin Base(st) /\ Len(new.splits) = N
      /\ \A i \in 1 .. N : Like(st.splits[i], new.splits[i], path, to)
  BY DEF RenamedWithin
<1>2. N \in Nat /\ \A i \in 1 .. N : st.splits[i].kind \in {"split", "fuse", "rename"}
  BY StageTyped
<1>3. Base(new) = Base(st)
  BY <1>1, SameRoots
<1>4. to \notin Known(st) /\ path \in Known(st)
  <2>1. MadeOf(st, path, to, n)
    BY DEF RenamedWithin
  <2> QED BY <2>1 DEF MadeOf
<1> HIDE DEF path, N
<1>5. \A i \in 1 .. N : /\ \A p \in Makes(st.splits[i]) : Swap(path, to, p) \in Makes(new.splits[i])
                        /\ \A q \in Makes(new.splits[i]) : \E p \in Makes(st.splits[i]) : q = Swap(path, to, p)
  BY <1>1, <1>2, LikeInvolves
<1>6. \A p \in Base(st) : Swap(path, to, p) = p
  BY <1>1 DEF Swap
<1>7. ASSUME NEW m \in 0 .. N, NEW p \in KnownAt(st, m) PROVE Swap(path, to, p) \in KnownAt(new, m)
  <2>1. CASE p \in Base(st)
    BY <1>3, <1>6, <2>1 DEF KnownAt
  <2>2. CASE p \notin Base(st)
    <3>1. PICK i \in 1 .. m : p \in Makes(st.splits[i])
      BY <2>2 DEF KnownAt
    <3>2. i \in 1 .. N
      BY <1>2
    <3>3. Swap(path, to, p) \in Makes(new.splits[i])
      BY <1>5, <3>1, <3>2
    <3> QED BY <3>3 DEF KnownAt
  <2> QED BY <2>1, <2>2
<1>8. ASSUME NEW m \in 0 .. N, NEW q \in KnownAt(new, m) PROVE \E p \in KnownAt(st, m) : q = Swap(path, to, p)
  <2>1. CASE q \in Base(st)
    BY <1>6, <2>1 DEF KnownAt
  <2>2. CASE q \notin Base(st)
    <3>1. PICK i \in 1 .. m : q \in Makes(new.splits[i])
      BY <1>3, <2>2 DEF KnownAt
    <3>2. i \in 1 .. N
      BY <1>2
    <3>3. PICK p \in Makes(st.splits[i]) : q = Swap(path, to, p)
      BY <1>5, <3>1, <3>2
    <3>4. p \in KnownAt(st, m)
      BY DEF KnownAt
    <3> QED BY <3>3, <3>4
  <2> QED BY <2>1, <2>2
<1>9. \A p, q \in Known(st) : Swap(path, to, p) = Swap(path, to, q) => p = q
  BY <1>4 DEF Swap
<1>10. Known(new) = {Swap(path, to, p) : p \in Known(st)}
  <2>1. Known(new) = KnownAt(new, N) /\ Known(st) = KnownAt(st, N) /\ N \in 0 .. N
    BY <1>1, <1>2 DEF Known, N
  <2> QED BY <1>7, <1>8, <2>1
<1> QED BY <1>4, <1>7, <1>8, <1>9, <1>10 DEF path, N

LEMMA WithinProper ==
    ASSUME NEW st \in StageRec, Shape(st), NEW new, NEW at, NEW to, NEW n, RenamedWithin(st, new, at, to, n)
    PROVE  Proper(new) /\ \A q : IsLeaf(new, q) <=> \E p : IsLeaf(st, p) /\ q = Swap(st.dims[at].var, to, p)
<1> DEFINE path == st.dims[at].var
           N == Len(st.splits)
           sw(p) == Swap(path, to, p)
<1>1. Len(new.splits) = N /\ \A i \in 1 .. N : Like(st.splits[i], new.splits[i], path, to)
  BY DEF RenamedWithin
<1>2. N \in Nat /\ \A i \in 1 .. N : st.splits[i].kind \in {"split", "fuse", "rename"}
  BY StageTyped
<1>3. /\ \A m \in 0 .. N : \A q \in KnownAt(new, m) : \E p \in KnownAt(st, m) : q = sw(p)
      /\ \A m \in 0 .. N : \A p \in KnownAt(st, m) : sw(p) \in KnownAt(new, m)
  BY WithinKnown
<1>4. \A p, q \in Known(st) : sw(p) = sw(q) => p = q
  BY WithinKnown
<1>5. Known(new) = {sw(p) : p \in Known(st)}
  BY WithinKnown
<1>6. Proper(st)
  BY DEF Shape
<1>7. \A i \in 1 .. N : Makes(st.splits[i]) \subseteq Known(st) /\ Takes(st.splits[i]) \subseteq Known(st)
  BY <1>2, <1>6, MadeOnce
<1>20. ASSUME NEW m \in 0 .. N PROVE KnownAt(st, m) \subseteq Known(st)
  <2>1. 1 .. m \subseteq 1 .. N
    BY <1>2
  <2> QED BY <2>1 DEF Known, KnownAt
<1> HIDE DEF path, N, sw
<1>8. \A i \in 1 .. N : /\ \A q \in Makes(new.splits[i]) : \E p \in Makes(st.splits[i]) : q = sw(p)
                        /\ \A q \in Takes(new.splits[i]) : \E p \in Takes(st.splits[i]) : q = sw(p)
                        /\ \A p \in Takes(st.splits[i]) : sw(p) \in Takes(new.splits[i])
                        /\ new.splits[i].kind = st.splits[i].kind
  BY <1>1, <1>2, LikeInvolves DEF sw
<1>9. ASSUME NEW i \in 1 .. N
      PROVE  /\ Makes(new.splits[i]) \cap KnownAt(new, i - 1) = {}
             /\ Takes(new.splits[i]) \subseteq KnownAt(new, i - 1)
             /\ \A m \in 1 .. i - 1 : Takes(new.splits[i]) \cap Takes(new.splits[m]) = {}
             /\ new.splits[i].kind # "rename" => new.splits[i].inner # new.splits[i].outer
             /\ new.splits[i].kind = "split" => new.splits[i].factor # 0
  <2>0. i - 1 \in 0 .. N /\ \A m \in 1 .. i - 1 : m \in 1 .. N
    BY <1>2
  <2>1. /\ Makes(st.splits[i]) \cap KnownAt(st, i - 1) = {}
        /\ Takes(st.splits[i]) \subseteq KnownAt(st, i - 1)
        /\ st.splits[i].kind # "rename" => st.splits[i].inner # st.splits[i].outer
        /\ st.splits[i].kind = "split" => st.splits[i].factor # 0
    BY <1>6 DEF Proper, N
  <2>9. \A m \in 1 .. i - 1 : Takes(st.splits[i]) \cap Takes(st.splits[m]) = {}
    BY <1>6 DEF Proper, N
  <2>2. Makes(new.splits[i]) \cap KnownAt(new, i - 1) = {}
    <3> SUFFICES ASSUME NEW q \in Makes(new.splits[i]), q \in KnownAt(new, i - 1) PROVE FALSE
      OBVIOUS
    <3>1. PICK p \in Makes(st.splits[i]) : q = sw(p)
      BY <1>8
    <3>2. PICK r \in KnownAt(st, i - 1) : q = sw(r)
      BY <1>3, <2>0
    <3>3. p \in Known(st) /\ r \in Known(st)
      BY <1>7, <1>20, <2>0
    <3>4. p = r
      BY <1>4, <3>1, <3>2, <3>3
    <3> QED BY <2>1, <3>4
  <2>3. Takes(new.splits[i]) \subseteq KnownAt(new, i - 1)
    <3> SUFFICES ASSUME NEW q \in Takes(new.splits[i]) PROVE q \in KnownAt(new, i - 1)
      OBVIOUS
    <3>1. PICK p \in Takes(st.splits[i]) : q = sw(p)
      BY <1>8
    <3> QED BY <1>3, <2>0, <2>1, <3>1
  <2>4. \A m \in 1 .. i - 1 : Takes(new.splits[i]) \cap Takes(new.splits[m]) = {}
    <3> SUFFICES ASSUME NEW m \in 1 .. i - 1, NEW q \in Takes(new.splits[i]), q \in Takes(new.splits[m]) PROVE FALSE
      OBVIOUS
    <3>1. PICK p \in Takes(st.splits[i]) : q = sw(p)
      BY <1>8
    <3>2. PICK r \in Takes(st.splits[m]) : q = sw(r)
      BY <1>8, <2>0
    <3>3. p \in Known(st) /\ r \in Known(st)
      BY <1>7, <2>0
    <3>4. p = r
      BY <1>4, <3>1, <3>2, <3>3
    <3> QED BY <2>9, <3>4
  <2>5. new.splits[i].kind # "rename" => new.splits[i].inner # new.splits[i].outer
    <3> HAVE new.splits[i].kind # "rename"
    <3>1. st.splits[i].kind \in {"split", "fuse"}
      BY <1>2, <1>8
    <3>2. new.splits[i].inner = sw(st.splits[i].inner) /\ new.splits[i].outer = sw(st.splits[i].outer)
      BY <1>1, <3>1 DEF Like, sw
    <3>3. st.splits[i].inner \in Makes(st.splits[i]) \cup Takes(st.splits[i])
      BY <3>1 DEF Makes, Takes
    <3>4. st.splits[i].outer \in Makes(st.splits[i]) \cup Takes(st.splits[i])
      BY <3>1 DEF Makes, Takes
    <3>5. st.splits[i].inner \in Known(st) /\ st.splits[i].outer \in Known(st)
      BY <1>7, <3>3, <3>4
    <3> QED BY <1>4, <2>1, <3>1, <3>2, <3>5
  <2>6. new.splits[i].kind = "split" => new.splits[i].factor # 0
    BY <1>1, <2>1 DEF Like
  <2> QED BY <2>2, <2>3, <2>4, <2>5, <2>6
<1>10. Proper(new)
  BY <1>1, <1>9 DEF Proper
<1>11. ASSUME NEW q, IsLeaf(new, q) PROVE \E p : IsLeaf(st, p) /\ q = sw(p)
  <2>1. PICK p \in Known(st) : q = sw(p)
    BY <1>5, <1>11 DEF IsLeaf
  <2>2. \A m \in 1 .. N : p \notin Takes(st.splits[m])
    BY <1>1, <1>8, <1>11, <2>1 DEF IsLeaf
  <2>3. IsLeaf(st, p)
    BY <2>2 DEF IsLeaf, N
  <2> QED BY <2>1, <2>3
<1>12. ASSUME NEW p, IsLeaf(st, p) PROVE IsLeaf(new, sw(p))
  <2>1. p \in Known(st) /\ \A m \in 1 .. N : p \notin Takes(st.splits[m])
    BY <1>12 DEF IsLeaf, N
  <2>2. sw(p) \in Known(new)
    BY <1>5, <2>1
  <2>3. \A m \in 1 .. N : sw(p) \notin Takes(new.splits[m])
    <3> SUFFICES ASSUME NEW m \in 1 .. N, sw(p) \in Takes(new.splits[m]) PROVE FALSE
      OBVIOUS
    <3>1. PICK r \in Takes(st.splits[m]) : sw(p) = sw(r)
      BY <1>8
    <3>2. r \in Known(st)
      BY <1>7
    <3>3. p = r
      BY <1>4, <2>1, <3>1, <3>2
    <3> QED BY <2>1, <3>3
  <2> QED BY <1>1, <2>2, <2>3 DEF IsLeaf
<1>13. \A q : IsLeaf(new, q) <=> \E p : IsLeaf(st, p) /\ q = sw(p)
  BY <1>11, <1>12
<1> QED BY <1>10, <1>13 DEF sw, path

LEMMA WithinShape ==
    ASSUME NEW st \in StageRec, Shape(st), NEW new, NEW at, NEW to, NEW n, RenamedWithin(st, new, at, to, n)
    PROVE  Shape(new)
<1> DEFINE path == st.dims[at].var
           N == Len(st.dims)
<1>1. /\ at \in 1 .. N /\ Len(new.dims) = N /\ new.dims[at].var = to
      /\ \A i \in 1 .. N : i # at => new.dims[i].var = st.dims[i].var
      /\ \A i \in 1 .. N : new.dims[i].type = st.dims[i].type
  BY DEF RenamedWithin, OnlyRenamed
<1>2. /\ to \in Path /\ to # << >> /\ Last(to) = n /\ path \in Path /\ Len(path) \in Nat
      /\ Len(to) = Len(path) + 1 /\ (\A k \in 1 .. Len(path) : to[k] = path[k])
  BY DEF RenamedWithin, MadeOf
<1>3. Proper(new) /\ \A q : IsLeaf(new, q) <=> \E p : IsLeaf(st, p) /\ q = Swap(path, to, p)
  BY WithinProper
<1>4. /\ to \notin Known(st) /\ path \in Known(st) /\ Known(new) = {Swap(path, to, p) : p \in Known(st)}
  BY WithinKnown
<1>5. \A i, j \in 1 .. N : Last(st.dims[i].var) = Last(st.dims[j].var) => i = j
  BY DEF Shape
<1>6. /\ \A i \in 1 .. N : Last(st.dims[i].var) # n
      /\ n # OutermostName /\ Last(path) # OutermostName /\ (n \in RVarNames <=> Last(path) \in RVarNames)
  BY DEF RenamedWithin
<1>7. N \in Nat
  BY StageTyped
<1>8. \A p : (\E i \in 1 .. N : p = st.dims[i].var) <=> IsLeaf(st, p)
  BY DEF Shape
<1>9. \A p \in Known(st) : \A q : (\E i \in 1 .. N : q = st.dims[i].var) => ~Under(p, q)
  BY DEF Shape
<1>10. \A p \in Known(st) : p \in Path /\ p # << >>
  BY DEF Shape
<1>11. st.dims[at].var = path
  OBVIOUS
<1>12. N > 0 /\ st.dims[N].type = "PureVar" /\ Last(st.dims[N].var) = OutermostName
  BY DEF Shape
<1>13. \A i \in 1 .. N : st.dims[i].type # "PureVar" => Last(st.dims[i].var) \in RVarNames
  BY DEF Shape
<1> HIDE DEF path, N
<1>14. \A i \in 1 .. N : new.dims[i].var = Swap(path, to, st.dims[i].var)
  BY <1>1, <1>5, <1>11 DEF Swap
<1>15. \A q : (\E i \in 1 .. N : q = new.dims[i].var) <=> IsLeaf(new, q)
  <2> TAKE q
  <2>1. ASSUME NEW i \in 1 .. N, q = new.dims[i].var PROVE IsLeaf(new, q)
    <3>1. IsLeaf(st, st.dims[i].var)
      BY <1>8
    <3> QED BY <1>3, <1>14, <2>1, <3>1
  <2>2. ASSUME IsLeaf(new, q) PROVE \E i \in 1 .. N : q = new.dims[i].var
    <3>1. PICK p : IsLeaf(st, p) /\ q = Swap(path, to, p)
      BY <1>3, <2>2
    <3>2. PICK i \in 1 .. N : p = st.dims[i].var
      BY <1>8, <3>1
    <3> QED BY <1>14, <3>1, <3>2
  <2> QED BY <2>1, <2>2
<1>16. \A i, j \in 1 .. N : Last(new.dims[i].var) = Last(new.dims[j].var) => i = j
  BY <1>1, <1>2, <1>5, <1>6
<1>17. ASSUME NEW i \in 1 .. N, NEW q \in Known(new), Under(q, new.dims[i].var) PROVE FALSE
  <2>1. PICK p \in Known(st) : q = Swap(path, to, p)
    BY <1>4
  <2> DEFINE l == st.dims[i].var
  <2>2. ~Under(p, l)
    BY <1>9
  <2>3. l \in Path /\ Len(l) \in Nat /\ IsLeaf(st, l)
    <3>1. IsLeaf(st, l)
      BY <1>8
    <3>2. l \in Path
      BY <1>10, <3>1 DEF IsLeaf
    <3> QED BY <3>1, <3>2 DEF Path
  <2>4. new.dims[i].var = Swap(path, to, l)
    BY <1>14
  <2>10. \E j \in 1 .. N : l = st.dims[j].var
    OBVIOUS
  <2> HIDE DEF l
  <2>5. Under(Swap(path, to, p), Swap(path, to, l))
    BY <1>17, <2>1, <2>4
  <2>6. CASE l # path /\ p # path
    BY <2>2, <2>5, <2>6 DEF Swap
  <2>7. CASE l = path /\ p # path
    <3>1. Len(p) > Len(to) /\ \A k \in 1 .. Len(to) : p[k] = to[k]
      BY <2>5, <2>7 DEF Swap, Under
    <3>2. Len(p) \in Nat
      BY <1>10 DEF Path
    <3>3. Under(p, path)
      BY <1>2, <3>1, <3>2 DEF Under
    <3> QED BY <2>2, <2>7, <3>3
  <2>8. CASE l # path /\ p = path
    <3>1. Len(to) > Len(l) /\ \A k \in 1 .. Len(l) : to[k] = l[k]
      BY <2>5, <2>8 DEF Swap, Under
    <3>2. Len(l) <= Len(path) /\ \A k \in 1 .. Len(l) : path[k] = l[k]
      BY <1>2, <2>3, <3>1
    <3>3. CASE Len(l) < Len(path)
      <4>1. Under(path, l)
        BY <1>2, <2>3, <3>2, <3>3 DEF Under
      <4> QED BY <2>2, <2>8, <4>1
    <3>4. CASE Len(l) = Len(path)
      <4>1. l = path
        BY <1>2, <2>3, <3>2, <3>4, SeqEqual DEF Path
      <4> QED BY <2>8, <4>1
    <3> QED BY <1>2, <2>3, <3>2, <3>3, <3>4
  <2>9. CASE l = path /\ p = path
    <3>1. Len(to) > Len(to) /\ Len(to) \in Nat
      BY <1>2, <2>5, <2>9 DEF Swap, Under
    <3> QED BY <3>1
  <2> QED BY <2>6, <2>7, <2>8, <2>9
<1>18. \A q \in Known(new) : q \in Path /\ q # << >>
  BY <1>2, <1>4, <1>10 DEF Swap
<1>19. new.dims[N].type = "PureVar" /\ Last(new.dims[N].var) = OutermostName
  <2>1. N \in 1 .. N /\ N # at
    BY <1>6, <1>7, <1>11, <1>12
  <2> QED BY <1>1, <1>12, <2>1
<1>20. \A i \in 1 .. N : new.dims[i].type # "PureVar" => Last(new.dims[i].var) \in RVarNames
  <2> TAKE i \in 1 .. N
  <2>1. CASE i = at
    BY <1>1, <1>2, <1>6, <1>11, <1>13, <2>1
  <2>2. CASE i # at
    BY <1>1, <1>13, <2>2
  <2> QED BY <2>1, <2>2
<1>21. /\ \A i \in 1 .. Len(new.rvars) : new.rvars[i] \in Roots(new)
       /\ new.init => new.order = << >>
       /\ new.impure \subseteq ToSet(new.order)
  <2>1. Same(st, new) /\ Roots(new) = Roots(st)
    BY SameRoots DEF RenamedWithin
  <2> QED BY <2>1 DEF Shape, Same
<1>22. Len(new.dims) = N
  BY <1>1
<1> QED BY <1>3, <1>12, <1>15, <1>16, <1>17, <1>18, <1>19, <1>20, <1>21, <1>22 DEF Shape

\* Values of the new names that are those of the old ones.
LEMMA WithinAllowed ==
    ASSUME NEW st \in StageRec, Shape(st), NEW new, NEW at, NEW to, NEW n, RenamedWithin(st, new, at, to, n),
           NEW e, \A p \in Known(st) : e[Swap(st.dims[at].var, to, p)] = e[p],
           NEW a \in Valuation, NEW b \in Valuation, \A p \in Known(st) : b[Swap(st.dims[at].var, to, p)] = a[p]
    PROVE  Allowed(new, e, b) <=> Allowed(st, e, a)
<1> DEFINE path == st.dims[at].var
           N == Len(st.splits)
<1>1. /\ new \in StageRec /\ Len(new.splits) = N
      /\ \A i \in 1 .. N : Like(st.splits[i], new.splits[i], path, to)
  BY DEF RenamedWithin
<1>2. N \in Nat /\ \A i \in 1 .. N : st.splits[i].kind \in {"split", "fuse", "rename"}
  BY StageTyped
<1>3. \A i \in 1 .. N : Involves(st.splits[i]) \subseteq Known(st)
  BY <1>2, MadeOnce DEF Shape, Involves
<1> HIDE DEF path, N
<1>4. \A i \in 1 .. N : /\ Follows(new.splits[i], e, b) <=> Follows(st.splits[i], e, a)
                        /\ GuardOf(new.splits[i], e, b) <=> GuardOf(st.splits[i], e, a)
  <2> TAKE i \in 1 .. N
  <2> DEFINE s == st.splits[i]
             t == new.splits[i]
  <2>1. s.kind \in {"split", "fuse", "rename"} /\ Like(s, t, path, to)
    BY <1>1, <1>2
  <2>2. Agreeing(s, path, to, e, e)
    BY <1>3 DEF path, Agreeing
  <2>3. Agreeing(s, path, to, a, b)
    BY <1>3 DEF path, Agreeing
  <2> HIDE DEF s, t
  <2>4. (Follows(t, e, b) <=> Follows(s, e, a)) /\ (GuardOf(t, e, b) <=> GuardOf(s, e, a))
    BY <2>1, <2>2, <2>3, LikeFollows
  <2> QED BY <2>4 DEF s, t
<1>5. Solves(new, e, b) <=> Solves(st, e, a)
  BY <1>1, <1>4 DEF Solves, N
<1>6. Guarded(new.splits, e, b) <=> Guarded(st.splits, e, a)
  <2>1. Guarded(new.splits, e, b) <=> \A i \in 1 .. N : GuardOf(new.splits[i], e, b)
    BY <1>1, GuardsAre
  <2>2. Guarded(st.splits, e, a) <=> \A i \in 1 .. N : GuardOf(st.splits[i], e, a)
    BY GuardsAre DEF N
  <2> QED BY <1>4, <2>1, <2>2
<1> QED BY <1>5, <1>6 DEF Allowed, Valuation

\* Both names have one extent, and are inner or clamped alike.
BothNames(st, path, to, e, inner, shifted) ==
    /\ Meaning(st, e, inner, shifted)
    /\ e[to] = e[path] /\ (to \in inner <=> path \in inner) /\ (to \in shifted <=> path \in shifted)

LEMMA BothNamesExist ==
    ASSUME NEW st, StageInv(st), NEW path \in Path, NEW to \in Path, path \in Known(st), to \notin Known(st)
    PROVE  \E e, inner, shifted : BothNames(st, path, to, e, inner, shifted)
<1>1. st \in StageRec /\ Shape(st)
  BY DEF StageInv
<1>2. PICK e, inner, shifted : Meaning(st, e, inner, shifted)
  BY DEF StageInv
<1>3. e \in [Path -> Positive]
  BY <1>2 DEF Meaning, Sizes
<1> DEFINE f == [p \in Path |-> IF p = to THEN e[path] ELSE e[p]]
           u == {p \in Path : IF p = to THEN path \in inner ELSE p \in inner}
           v == {p \in Path : IF p = to THEN path \in shifted ELSE p \in shifted}
<1>4. f \in [Path -> Positive] /\ u \in SUBSET Path /\ v \in SUBSET Path
  BY <1>3
<1>5. \A p \in Known(st) : p \in Path /\ p # to
  BY <1>1 DEF Shape
<1>6. \A p \in Known(st) : e[p] = f[p] /\ (p \in inner <=> p \in u) /\ (p \in shifted <=> p \in v)
  BY <1>5
<1>7. f[to] = f[path] /\ (to \in u <=> path \in u) /\ (to \in v <=> path \in v)
  BY <1>5
<1> HIDE DEF f, u, v
<1>8. Meaning(st, f, u, v)
  BY <1>1, <1>2, <1>4, <1>6, Rebase
<1> QED BY <1>7, <1>8 DEF BothNames

LEMMA WithinRules ==
    ASSUME NEW st \in StageRec, Shape(st), NEW new, NEW at, NEW to, NEW n, RenamedWithin(st, new, at, to, n),
           NEW e, NEW inner, NEW shifted, BothNames(st, st.dims[at].var, to, e, inner, shifted)
    PROVE  Sizes(new, e) /\ Inners(new, inner) /\ Shifts(new, shifted)
<1> DEFINE path == st.dims[at].var
           N == Len(st.splits)
<1>1. /\ Same(st, new) /\ Len(new.splits) = N
      /\ \A i \in 1 .. N : Like(st.splits[i], new.splits[i], path, to)
  BY DEF RenamedWithin
<1>2. N \in Nat /\ \A i \in 1 .. N : st.splits[i].kind \in {"split", "fuse", "rename"}
  BY StageTyped
<1>3. /\ Sizes(st, e) /\ Inners(st, inner) /\ Shifts(st, shifted)
      /\ e[to] = e[path] /\ (to \in inner <=> path \in inner) /\ (to \in shifted <=> path \in shifted)
  BY DEF BothNames, Meaning
<1> HIDE DEF path, N
<1>4. \A i \in 1 .. N : /\ SizeRule(new.splits[i], e) <=> SizeRule(st.splits[i], e)
                        /\ InnerRule(new.splits[i], inner) <=> InnerRule(st.splits[i], inner)
                        /\ ShiftRule(new.splits[i], shifted) <=> ShiftRule(st.splits[i], shifted)
  <2> TAKE i \in 1 .. N
  <2> DEFINE s == st.splits[i]
             t == new.splits[i]
  <2>1. s.kind \in {"split", "fuse", "rename"} /\ Like(s, t, path, to)
    BY <1>1, <1>2
  <2>2. Agreeing(s, path, to, e, e)
    BY <1>3 DEF Swap, Agreeing
  <2>3. Alike(s, path, to, inner) /\ Alike(s, path, to, shifted)
    BY <1>3 DEF Swap, Alike
  <2> HIDE DEF s, t
  <2>4. SizeRule(t, e) <=> SizeRule(s, e)
    BY <2>1, <2>2, LikeSize
  <2>5. InnerRule(t, inner) <=> InnerRule(s, inner)
    BY <2>1, <2>3, LikeInner
  <2>6. ShiftRule(t, shifted) <=> ShiftRule(s, shifted)
    BY <2>1, <2>3, LikeShift
  <2> QED BY <2>4, <2>5, <2>6 DEF s, t
<1>5. Base(new) = Base(st)
  BY <1>1, SameRoots
<1>6. \A i \in 1 .. Len(new.dims) : Last(new.dims[i].var) = OutermostName => e[new.dims[i].var] = 1
  <2> TAKE i \in 1 .. Len(new.dims)
  <2> HAVE Last(new.dims[i].var) = OutermostName
  <2>1. /\ Len(new.dims) = Len(st.dims) /\ new.dims[at].var = to
        /\ i # at => new.dims[i].var = st.dims[i].var
    BY DEF RenamedWithin, OnlyRenamed
  <2>2. Last(to) # OutermostName
    BY DEF RenamedWithin, MadeOf
  <2>3. \A k \in 1 .. Len(st.dims) : Last(st.dims[k].var) = OutermostName => e[st.dims[k].var] = 1
    BY <1>3 DEF Sizes
  <2>4. i # at
    BY <2>1, <2>2
  <2> QED BY <2>1, <2>3, <2>4
<1>7. Sizes(new, e)
  BY <1>1, <1>3, <1>4, <1>5, <1>6 DEF Sizes, Same, N
<1>8. Inners(new, inner) /\ Shifts(new, shifted)
  BY <1>1, <1>3, <1>4, <1>5 DEF Inners, Shifts, N
<1> QED BY <1>7, <1>8

LEMMA WithinCarries ==
    ASSUME NEW st \in StageRec, Shape(st), NEW new, NEW at, NEW to, NEW n, RenamedWithin(st, new, at, to, n),
           NEW e, NEW inner, NEW shifted, BothNames(st, st.dims[at].var, to, e, inner, shifted)
    PROVE  \E back : Carries(st, new, e, inner, shifted, back)
<1> DEFINE path == st.dims[at].var
           N == Len(st.dims)
           back == [a \in Valuation |-> [p \in Path |-> IF p = path THEN a[to] ELSE a[p]]]
<1>1. /\ at \in 1 .. N /\ Len(new.dims) = N /\ new.dims[at].var = to
      /\ \A i \in 1 .. N : i # at => new.dims[i].var = st.dims[i].var
      /\ \A i \in 1 .. N : new.dims[i].type = st.dims[i].type
  BY DEF RenamedWithin, OnlyRenamed
<1>2. to \in Path /\ Last(to) = n /\ path \in Path /\ path \in Known(st) /\ to \notin Known(st) /\ path \notin Base(st)
  BY DEF RenamedWithin, MadeOf
<1>3. e[to] = e[path] /\ (to \in inner <=> path \in inner) /\ (to \in shifted <=> path \in shifted)
  BY DEF BothNames
<1>4. n # OutermostName /\ Last(path) # OutermostName /\ (n \in RVarNames <=> Last(path) \in RVarNames)
  BY DEF RenamedWithin
<1>5. \A i \in 1 .. N : st.dims[i].var \in Known(st)
  BY DEF Shape, IsLeaf
<1>6. \A i, j \in 1 .. N : Last(st.dims[i].var) = Last(st.dims[j].var) => i = j
  BY DEF Shape
<1>7. \A p \in Known(st) : p \in Path
  BY DEF Shape
<1>8. \A p \in Known(st) : e[Swap(path, to, p)] = e[p]
  BY <1>3 DEF Swap
<1>9. \A a \in Valuation : back[a] \in Valuation
  BY <1>2 DEF Valuation
<1>10. \A a \in Valuation : \A p \in Path : back[a][p] = a[Swap(path, to, p)]
  BY DEF Swap
<1>31. back \in [Valuation -> Valuation]
  BY <1>9
<1>11. st.dims[at].var = path
  OBVIOUS
<1> HIDE DEF back
<1>12. \A a \in Valuation, b \in Valuation : (\A p \in Known(st) : b[Swap(path, to, p)] = a[p]) =>
            (Allowed(new, e, b) <=> Allowed(st, e, a))
  BY <1>8, WithinAllowed
<1>32. \A i \in 1 .. N : i \in Impure(new) <=> i \in Impure(st)
  BY <1>1 DEF Impure, IsPure
<1> HIDE DEF path, N
<1>13. \A i \in 1 .. N : new.dims[i].var = Swap(path, to, st.dims[i].var)
  BY <1>1, <1>6, <1>11 DEF Swap
<1>14. \A a \in Valuation : Allowed(new, e, a) => Allowed(st, e, back[a])
  <2> TAKE a \in Valuation
  <2>1. \A p \in Known(st) : a[Swap(path, to, p)] = back[a][p]
    BY <1>7, <1>10
  <2> QED BY <1>9, <1>12, <2>1
<1>15. \A a \in Valuation : \A i \in 1 .. N : back[a][st.dims[i].var] = a[new.dims[i].var]
  BY <1>5, <1>7, <1>10, <1>13
<1>16. \A i \in 1 .. N : /\ Bounded(new.dims[i].var, inner) <=> Bounded(st.dims[i].var, inner)
                         /\ new.dims[i].var \in shifted <=> st.dims[i].var \in shifted
                         /\ e[new.dims[i].var] = e[st.dims[i].var]
  <2> TAKE i \in 1 .. N
  <2>1. CASE i = at
    <3>1. new.dims[i].var = to /\ st.dims[i].var = path
      BY <1>1, <1>11, <2>1
    <3>2. Bounded(to, inner) <=> Bounded(path, inner)
      BY <1>2, <1>3, <1>4 DEF Bounded
    <3> QED BY <1>3, <3>1, <3>2
  <2>2. CASE i # at
    BY <1>1, <2>2
  <2> QED BY <2>1, <2>2
<1>17. \A a \in Valuation, r \in Roots(st) : back[a][r] = a[r]
  <2>1. \A r \in Roots(st) : r \in Path /\ r # path
    BY <1>2, <1>7 DEF Known, KnownAt, Base
  <2> QED BY <1>10, <2>1 DEF Swap
<1>18. CarriesPoints(st, new, e)
  <2> SUFFICES ASSUME NEW a, Allowed(st, e, a), InRange(st, e, a)
               PROVE  \E b : Allowed(new, e, b) /\ InRange(new, e, b) /\ \A r \in Roots(st) : b[r] = a[r]
    BY DEF CarriesPoints
  <2> DEFINE b == [p \in Path |-> IF p = to THEN a[path] ELSE a[p]]
  <2>1. a \in Valuation /\ b \in Valuation
    BY <1>2 DEF Allowed, Valuation
  <2>2. \A p \in Known(st) : b[Swap(path, to, p)] = a[p]
    BY <1>2, <1>7 DEF Swap
  <2>3. \A r \in Roots(st) : b[r] = a[r]
    <3>1. Roots(st) \subseteq Known(st)
      BY DEF Known, KnownAt, Base
    <3> QED BY <1>2, <1>7, <3>1
  <2> HIDE DEF b
  <2>4. Allowed(new, e, b)
    BY <1>12, <2>1, <2>2
  <2>5. \A i \in 1 .. N : b[new.dims[i].var] = a[st.dims[i].var]
    BY <1>5, <1>13, <2>2
  <2>6. InRange(new, e, b)
    BY <1>1, <1>16, <2>5 DEF InRange, N
  <2> QED BY <2>3, <2>4, <2>6
<1>19. CarriesFine(st, new, e, inner, back)
  <2> SUFFICES ASSUME NEW a, Fine(new, e, inner, a) PROVE Fine(st, e, inner, back[a])
    BY DEF CarriesFine
  <2>1. a \in Valuation /\ Allowed(new, e, a)
    BY DEF Fine, Allowed, Valuation
  <2>2. Allowed(st, e, back[a])
    BY <1>14, <2>1
  <2>3. \A i \in 1 .. N : /\ a[new.dims[i].var] >= 0
                          /\ Bounded(new.dims[i].var, inner) => a[new.dims[i].var] < e[new.dims[i].var]
    BY <1>1 DEF Fine
  <2>4. \A i \in 1 .. N : back[a][st.dims[i].var] = a[new.dims[i].var]
    BY <1>15, <2>1
  <2> QED BY <1>16, <2>2, <2>3, <2>4 DEF Fine, N
<1>20. \A a, b \in Valuation : TellsApart(st, new, back[a], back[b], a, b)
  <2> TAKE a, b \in Valuation
  <2>1. Len(new.dims) = Len(st.dims)
    BY <1>1 DEF N
  <2>2. Impure(new) = Impure(st)
    <3>1. (\A i \in Impure(st) : i \in 1 .. N) /\ (\A i \in Impure(new) : i \in 1 .. N)
      BY <1>1, ImpureLoops DEF N
    <3> QED BY <1>32, <3>1
  <2>3. \A i \in 1 .. Len(st.dims) : a[new.dims[i].var] = back[a][st.dims[i].var]
    BY <1>15 DEF N
  <2>4. \A i \in 1 .. Len(st.dims) : b[new.dims[i].var] = back[b][st.dims[i].var]
    BY <1>15 DEF N
  <2> QED BY <2>1, <2>2, <2>3, <2>4, PlaceByPlace
<1>21. \A a : Fine(new, e, inner, a) => a \in Valuation
  BY DEF Fine, Allowed, Valuation
<1>22. CarriesLoops(st, new, e, inner, back) /\ CarriesOrder(st, new, e, inner, back)
  BY <1>20, <1>21 DEF CarriesLoops, CarriesOrder, TellsApart
<1>23. CarriesCalm(st, new, e, shifted, back)
  <2> SUFFICES ASSUME new.inwards, Fits(new, e)
               PROVE  st.inwards /\ Fits(st, e) /\ \A a : Calm(new, e, shifted, a) => Calm(st, e, shifted, back[a])
    BY DEF CarriesCalm
  <2>1. st.inwards
    BY DEF RenamedWithin
  <2>2. Fits(st, e)
    <3> SUFFICES ASSUME NEW i \in 1 .. Len(st.splits), st.splits[i].kind = "split", st.splits[i].tail = "ShiftInwards"
                 PROVE  e[st.splits[i].old] >= st.splits[i].factor
      BY DEF Fits
    <3>1. Like(st.splits[i], new.splits[i], path, to) /\ i \in 1 .. Len(new.splits)
      BY DEF RenamedWithin, path
    <3>2. /\ new.splits[i].kind = "split" /\ new.splits[i].tail = "ShiftInwards"
          /\ new.splits[i].factor = st.splits[i].factor /\ new.splits[i].old = Swap(path, to, st.splits[i].old)
      BY <3>1 DEF Like
    <3>3. e[new.splits[i].old] >= new.splits[i].factor
      BY <3>1, <3>2 DEF Fits
    <3> QED BY <1>3, <3>2, <3>3 DEF Swap
  <2>3. ASSUME NEW a, Calm(new, e, shifted, a) PROVE Calm(st, e, shifted, back[a])
    <3>1. a \in Valuation /\ Allowed(new, e, a)
      BY <2>3 DEF Calm, Allowed, Valuation
    <3>2. Allowed(st, e, back[a])
      BY <1>14, <3>1
    <3>3. \A i \in 1 .. N : /\ a[new.dims[i].var] >= 0
                            /\ new.dims[i].var \notin shifted => a[new.dims[i].var] < e[new.dims[i].var]
      BY <1>1, <2>3 DEF Calm
    <3>4. \A i \in 1 .. N : back[a][st.dims[i].var] = a[new.dims[i].var]
      BY <1>15, <3>1
    <3> QED BY <1>16, <3>2, <3>3, <3>4 DEF Calm, N
  <2> QED BY <2>1, <2>2, <2>3
<1>24. Carries(st, new, e, inner, shifted, back)
  BY <1>17, <1>18, <1>19, <1>22, <1>23, <1>31 DEF Carries
<1> QED BY <1>24

LEMMA WithinInv ==
    ASSUME NEW st, StageInv(st), NEW new, NEW at, NEW to, NEW n, RenamedWithin(st, new, at, to, n), Serial(new)
    PROVE  StageInv(new)
<1>1. st \in StageRec /\ Shape(st)
  BY DEF StageInv
<1>2. new \in StageRec /\ Same(st, new)
  BY DEF RenamedWithin
<1>3. st.dims[at].var \in Path /\ to \in Path /\ st.dims[at].var \in Known(st) /\ to \notin Known(st)
  BY DEF RenamedWithin, MadeOf
<1>4. PICK e, inner, shifted : BothNames(st, st.dims[at].var, to, e, inner, shifted)
  BY <1>3, BothNamesExist
<1>5. Sizes(new, e) /\ Inners(new, inner) /\ Shifts(new, shifted)
  BY <1>1, <1>4, WithinRules
<1>6. PICK back : Carries(st, new, e, inner, shifted, back)
  BY <1>1, <1>4, WithinCarries
<1>7. Meaning(st, e, inner, shifted)
  BY <1>4 DEF BothNames
<1>8. Meaning(new, e, inner, shifted)
  BY <1>1, <1>2, <1>5, <1>6, <1>7, Carried
<1>9. Shape(new)
  BY <1>1, WithinShape
<1> QED BY <1>2, <1>8, <1>9 DEF StageInv

MakesLoop(s, path) == IF s.kind = "fuse" THEN s.old = path ELSE path \in {s.inner, s.outer}
UsesLoop(s, path) == IF s.kind = "fuse" THEN path \in {s.inner, s.outer} ELSE s.old = path
LastAbout(splits, path) == SelectLastInSeq(splits, LAMBDA s : MakesLoop(s, path) \/ UsesLoop(s, path))
Defining(s, path, to) ==
    IF s.kind = "fuse" THEN [s EXCEPT !.old = to]
    ELSE [s EXCEPT !.inner = IF @ = path THEN to ELSE @,
                   !.outer = IF s.inner = path THEN @ ELSE IF @ = path THEN to ELSE @]

LEMMA LoopMakers ==
    ASSUME NEW st \in StageRec, Shape(st), NEW path, IsLeaf(st, path)
    PROVE  \/ LastAbout(st.splits, path) = 0 /\ \A i \in 1 .. Len(st.splits) : path \notin Makes(st.splits[i])
           \/ /\ LastAbout(st.splits, path) \in 1 .. Len(st.splits)
              /\ path \in Makes(st.splits[LastAbout(st.splits, path)])
<1> DEFINE I == {i \in 1 .. Len(st.splits) : MakesLoop(st.splits[i], path) \/ UsesLoop(st.splits[i], path)}
<1>1. LastAbout(st.splits, path) = IF I # {} THEN Max(I) ELSE 0
  BY DEF LastAbout, SelectLastInSeq
<1>2. path # << >> /\ Proper(st) /\ \A i \in 1 .. Len(st.splits) : path \notin Takes(st.splits[i])
  BY DEF Shape, IsLeaf
<1>3. Len(st.splits) \in Nat /\ \A i \in 1 .. Len(st.splits) : st.splits[i] \in SplitRec
  BY StageTyped
<1>4. \A i \in 1 .. Len(st.splits) : MakesLoop(st.splits[i], path) \/ UsesLoop(st.splits[i], path)
                                        <=> path \in Makes(st.splits[i])
  <2> TAKE i \in 1 .. Len(st.splits)
  <2> DEFINE s == st.splits[i]
  <2>1. s.kind \in {"split", "fuse", "rename"} /\ (s.kind = "rename" => s.inner = << >>) /\ path \notin Takes(s)
    BY <1>2, <1>3 DEF SplitRec, SplitFields
  <2> HIDE DEF s
  <2>2. MakesLoop(s, path) \/ UsesLoop(s, path) <=> path \in Makes(s)
    <3>1. CASE s.kind = "split"
      BY <2>1, <3>1 DEF MakesLoop, UsesLoop, Makes, Takes
    <3>2. CASE s.kind = "fuse"
      BY <2>1, <3>2 DEF MakesLoop, UsesLoop, Makes, Takes
    <3>3. CASE s.kind = "rename"
      BY <1>2, <2>1, <3>3 DEF MakesLoop, UsesLoop, Makes, Takes
    <3> QED BY <2>1, <3>1, <3>2, <3>3
  <2> QED BY <2>2 DEF s
<1>5. ASSUME NEW i \in I PROVE Max(I) = i
  <2>1. I = {i}
    <3>1. \A j \in 1 .. Len(st.splits) : path \in Makes(st.splits[j]) => j = i
      BY <1>2, <1>3, <1>4, MadeOnce
    <3> QED BY <1>4, <3>1
  <2>2. Max({i}) = i
    BY DEF Max
  <2> QED BY <2>1, <2>2
<1>6. I = {} => \A i \in 1 .. Len(st.splits) : path \notin Makes(st.splits[i])
  BY <1>4
<1>7. \A i \in I : i \in 1 .. Len(st.splits) /\ path \in Makes(st.splits[i])
  BY <1>4
<1> HIDE DEF I
<1> QED BY <1>1, <1>5, <1>6, <1>7

LEMMA DefiningLike ==
    ASSUME NEW s \in SplitRec, NEW path \in Path, path \in Makes(s), path \notin Takes(s), path # << >>, NEW to \in Path,
           s.kind # "rename" => s.inner # s.outer
    PROVE  Defining(s, path, to) \in SplitRec /\ Like(s, Defining(s, path, to), path, to)
<1> DEFINE t == Defining(s, path, to)
<1>1. /\ s \in SplitFields /\ s.kind \in {"split", "fuse", "rename"} /\ (s.kind = "rename" => s.inner = << >>)
  BY DEF SplitRec, SplitFields
<1>2. CASE s.kind = "fuse"
  <2>1. s.old = path /\ s.inner # path /\ s.outer # path
    BY <1>2 DEF Makes, Takes
  <2>2. t = [s EXCEPT !.old = to]
    BY <1>2 DEF Defining
  <2>3. t \in SplitRec
    BY <1>1, <1>2, <2>2 DEF SplitRec, SplitFields
  <2>4. /\ t.kind = s.kind /\ t.factor = s.factor /\ t.tail = s.tail
        /\ t.old = to /\ t.outer = s.outer /\ t.inner = s.inner
    BY <1>1, <2>2 DEF SplitFields
  <2> HIDE DEF t
  <2>5. Like(s, t, path, to)
    BY <1>2, <2>1, <2>4 DEF Like, Swap
  <2> QED BY <2>3, <2>5 DEF t
<1>3. CASE s.kind = "split"
  <2>1. s.old # path /\ (s.inner = path \/ s.outer = path) /\ s.inner # s.outer
    BY <1>3 DEF Makes, Takes
  <2>2. t = [s EXCEPT !.inner = Swap(path, to, s.inner), !.outer = Swap(path, to, s.outer)]
    <3>1. (IF s.inner = path THEN s.outer ELSE IF s.outer = path THEN to ELSE s.outer) = Swap(path, to, s.outer)
      BY <2>1 DEF Swap
    <3>2. t = [s EXCEPT !.inner = IF s.inner = path THEN to ELSE s.inner,
                        !.outer = IF s.inner = path THEN s.outer ELSE IF s.outer = path THEN to ELSE s.outer]
      BY <1>3 DEF Defining
    <3> QED BY <3>1, <3>2 DEF Swap
  <2>3. Swap(path, to, s.inner) \in Path /\ Swap(path, to, s.outer) \in Path
    BY <1>1 DEF Swap, SplitFields
  <2>4. t \in SplitRec
    BY <1>1, <1>3, <2>2, <2>3 DEF SplitRec, SplitFields
  <2>5. /\ t.kind = s.kind /\ t.factor = s.factor /\ t.tail = s.tail
        /\ t.old = s.old /\ t.outer = Swap(path, to, s.outer) /\ t.inner = Swap(path, to, s.inner)
    BY <1>1, <2>2 DEF SplitFields
  <2>6. Swap(path, to, s.old) = s.old
    BY <2>1 DEF Swap
  <2> HIDE DEF t
  <2>7. Like(s, t, path, to)
    BY <1>3, <2>5, <2>6 DEF Like
  <2> QED BY <2>4, <2>7 DEF t
<1>4. CASE s.kind = "rename"
  <2>1. s.old # path /\ s.outer = path /\ s.inner # path
    BY <1>1, <1>4 DEF Makes, Takes
  <2>2. t = [s EXCEPT !.inner = s.inner, !.outer = to]
    BY <1>4, <2>1 DEF Defining
  <2>3. t \in SplitRec
    BY <1>1, <1>4, <2>2 DEF SplitRec, SplitFields
  <2>4. /\ t.kind = s.kind /\ t.factor = s.factor /\ t.tail = s.tail
        /\ t.old = s.old /\ t.outer = to
    BY <1>1, <2>2 DEF SplitFields
  <2> HIDE DEF t
  <2>5. Like(s, t, path, to)
    BY <1>4, <2>1, <2>4 DEF Like, Swap
  <2> QED BY <2>3, <2>5 DEF t
<1> QED BY <1>1, <1>2, <1>3, <1>4

RenamedInPlace(st, at, to, last, new) ==
    new = [st EXCEPT !.dims = Renamed(st, at, to),
                     !.splits = [@ EXCEPT ![last] = Defining(st.splits[last], st.dims[at].var, to)]]

LEMMA RenameWithin ==
    ASSUME NEW st, StageInv(st), NEW at \in 1 .. Len(st.dims), NEW n \in Name,
           n # OutermostName, Last(st.dims[at].var) # OutermostName,
           n \in RVarNames <=> Last(st.dims[at].var) \in RVarNames,
           \A i \in 1 .. Len(st.dims) : Last(st.dims[i].var) # n,
           NEW to, to = Append(st.dims[at].var, n),
           NEW last \in 1 .. Len(st.splits), st.dims[at].var \in Makes(st.splits[last]),
           NEW new, RenamedInPlace(st, at, to, last, new)
    PROVE  StageInv(new)
<1> DEFINE path == st.dims[at].var
           s == st.splits[last]
           t == Defining(s, path, to)
           N == Len(st.splits)
<1>1. st \in StageRec /\ Shape(st) /\ Serial(st) /\ Proper(st)
  BY DEF StageInv, Shape
<1>2. MadeOf(st, path, to, n)
  BY <1>1, FreshPath
<1>3. path \in Path /\ path \in Known(st) /\ to \in Path /\ to \notin Known(st) /\ path # << >> /\ IsLeaf(st, path)
  BY <1>1, <1>2 DEF MadeOf, Shape
<1>4. /\ N \in Nat /\ st.splits \in Seq(SplitRec) /\ DOMAIN st.splits = 1 .. N
      /\ Len(st.dims) \in Nat
  BY <1>1, StageTyped
<1>5. \A i \in 1 .. N : st.splits[i] \in SplitRec /\ path \notin Takes(st.splits[i])
  BY <1>3, <1>4 DEF IsLeaf
<1>6. t \in SplitRec /\ Like(s, t, path, to)
  <2>1. s \in SplitRec /\ path \in Makes(s) /\ path \notin Takes(s) /\ (s.kind # "rename" => s.inner # s.outer)
    BY <1>1, <1>5 DEF Proper
  <2> HIDE DEF s, path
  <2> QED BY <1>3, <2>1, DefiningLike
<1>7. \A i \in 1 .. N : i # last => path \notin Makes(st.splits[i])
  BY <1>1, <1>4, MadeOnce
<1>8. path \notin Base(st)
  BY <1>1, <1>4, MadeOnce
<1>9. new.dims = Renamed(st, at, to) /\ new.splits = [st.splits EXCEPT ![last] = t]
      /\ Same(st, new) /\ new.race = st.race /\ new.atomic = st.atomic /\ new.inwards = st.inwards
  BY <1>1 DEF StageRec, Same, RenamedInPlace
<1>10. OnlyRenamed(st, at, to, new.dims)
  BY <1>1, <1>3, <1>9, RenamedDims
<1> HIDE DEF t
<1>11. new.splits \in Seq(SplitRec) /\ Len(new.splits) = N /\ new.splits[last] = t
       /\ \A i \in 1 .. N : i # last => new.splits[i] = st.splits[i]
  BY <1>4, <1>6, <1>9
<1>12. new \in StageRec
  <2>1. new.dims \in Seq(DimRec)
    BY <1>10 DEF OnlyRenamed
  <2>2. new = [st EXCEPT !.dims = new.dims, !.splits = new.splits]
    BY <1>1, <1>9 DEF StageRec, RenamedInPlace
  <2> QED BY <1>1, <1>11, <2>1, <2>2 DEF StageRec
<1> HIDE DEF path, s, N
<1>13. \A i \in 1 .. N : Like(st.splits[i], new.splits[i], path, to)
  <2> TAKE i \in 1 .. N
  <2>1. CASE i = last
    BY <1>6, <1>11, <2>1 DEF s
  <2>2. CASE i # last
    <3> DEFINE r == st.splits[i]
    <3>1. new.splits[i] = r /\ r \in SplitRec /\ path \notin Makes(r) /\ path \notin Takes(r)
      BY <1>5, <1>7, <1>11, <2>2
    <3>2. r.kind \in {"split", "fuse", "rename"}
      BY <3>1 DEF SplitRec, SplitFields
    <3> HIDE DEF r
    <3>3. r.old # path /\ r.outer # path /\ (r.kind # "rename" => r.inner # path)
      BY <3>1, <3>2 DEF Makes, Takes
    <3>4. Like(r, r, path, to)
      BY <3>3 DEF Like, Swap
    <3> QED BY <3>1, <3>4 DEF r
  <2> QED BY <2>1, <2>2
<1>14. Serial(new)
  <2>1. Impure(new) = Impure(st) /\ \A i \in Impure(st) : new.dims[i].for = st.dims[i].for
    BY <1>10 DEF Impure, IsPure, OnlyRenamed
  <2> QED BY <1>1, <1>9, <2>1 DEF Serial
<1>15. RenamedWithin(st, new, at, to, n)
  <2>1. /\ \A i \in 1 .. Len(st.dims) : Last(st.dims[i].var) # n
        /\ n \in RVarNames <=> Last(st.dims[at].var) \in RVarNames
    OBVIOUS
  <2> QED BY <1>2, <1>8, <1>9, <1>10, <1>11, <1>12, <1>13, <2>1 DEF RenamedWithin, path, N
<1> QED BY <1>14, <1>15, WithinInv

LEMMA RenameKeeps ==
    ASSUME NEW st, StageInv(st), NEW old, old # OutermostName, NEW n \in Name, n # OutermostName,
           n \notin DimNames(st)
    PROVE  Rename(st, old, n) = Refused \/ StageInv(Rename(st, old, n))
<1> DEFINE at == Find(st.dims, old)
           path == st.dims[at].var
           to == Append(path, n)
           last == LastAbout(st.splits, path)
           new == Rename(st, old, n)
           splits == IF last # 0 THEN [st.splits EXCEPT ![last] = Defining(st.splits[last], path, to)]
                     ELSE Append(st.splits, Renaming(path, to))
<1> SUFFICES ASSUME new # Refused PROVE StageInv(new)
  OBVIOUS
<1>1. st \in StageRec /\ Shape(st)
  BY DEF StageInv
<1>2. /\ IsRVar(old) = IsRVar(n) /\ at # 0 /\ (last # 0 => MakesLoop(st.splits[last], path))
      /\ new = [st EXCEPT !.dims[at].var = to, !.splits = splits]
  BY DEF Rename, Try, LastAbout, MakesLoop, UsesLoop, Defining, Renaming
<1>10. new = [st EXCEPT !.dims = Renamed(st, at, to), !.splits = splits]
  <2> HIDE DEF new, at, path, to, last, splits
  <2>1. Renamed(st, at, to) = [st.dims EXCEPT ![at].var = to]
    BY DEF Renamed
  <2> QED BY <1>2, <2>1
<1>3. at \in 1 .. Len(st.dims) /\ Last(path) = old
  BY <1>1, <1>2, NameFound
<1>4. \A i \in 1 .. Len(st.dims) : Last(st.dims[i].var) # n
  BY <1>1, NameFound
<1>5. n \in RVarNames <=> Last(path) \in RVarNames
  BY <1>2, <1>3 DEF IsRVar
<1>6. IsLeaf(st, path)
  BY <1>1, <1>3 DEF Shape
<1>7. st.dims = [i \in 1 .. Len(st.dims) |-> st.dims[i]] /\ DOMAIN st.splits = 1 .. Len(st.splits)
  BY <1>1, StageTyped
<1>8. CASE last = 0
  <2>1. RenamedLater(st, at, to, Renaming(path, to), new)
    <3>1. splits = Append(st.splits, Renaming(path, to))
      BY <1>8
    <3> HIDE DEF splits, new, at, path, to
    <3> QED BY <1>10, <3>1 DEF RenamedLater
  <2> HIDE DEF at, new
  <2> QED BY <1>3, <1>4, <1>5, <2>1, RenameAppends
<1>9. CASE last # 0
  <2>1. last \in 1 .. Len(st.splits) /\ path \in Makes(st.splits[last])
    <3> HIDE DEF path, last
    <3> QED BY <1>1, <1>6, <1>9, LoopMakers DEF last
  <2>2. RenamedInPlace(st, at, to, last, new)
    <3>1. splits = [st.splits EXCEPT ![last] = Defining(st.splits[last], path, to)]
      BY <1>9
    <3> HIDE DEF splits, new, at, to, last
    <3> QED BY <1>10, <3>1 DEF RenamedInPlace
  <2> HIDE DEF at, new, last
  <2> QED BY <1>3, <1>4, <1>5, <2>1, <2>2, RenameWithin
<1> QED BY <1>8, <1>9

-----------------------------------------------------------------------------
(* Directives that are made of others.                                      *)
Marks(blocks, threads) == [i \in DOMAIN blocks |-> <<blocks[i], "gpu_block">>]
                          \o [i \in DOMAIN threads |-> <<threads[i], "gpu_thread">>]
MarkedOn(st, mark) == SetDimType(SetDimDeviceAPI(st, mark[1], "gpu"), mark[1], mark[2])

LEMMA CutsChain ==
    ASSUME NEW st, NEW xs, NEW os, NEW is, NEW fs, NEW tail, Len(xs) \in Nat
    PROVE  \E g : /\ g = [n \in 0 .. Len(xs) |-> IF n = 0 THEN st ELSE Split(g[n - 1], xs[n], os[n], is[n], fs[n], tail)]
                  /\ SplitAll(st, xs, os, is, fs, tail) = g[Len(xs)]
<1> DEFINE Up(g, k) == g = [n \in 0 .. k |-> IF n = 0 THEN st ELSE Split(g[n - 1], xs[n], os[n], is[n], fs[n], tail)]
           T == {k \in 0 .. Len(xs) : \E g : Up(g, k)}
<1>1. Len(xs) \in Nat /\ T \in SUBSET (0 .. Len(xs))
  OBVIOUS
<1>2. 0 \in T
  <2>1. Up([n \in 0 .. 0 |-> st], 0)
    OBVIOUS
  <2> HIDE DEF Up
  <2> QED BY <2>1, <1>1
<1>3. ASSUME NEW k \in 1 .. Len(xs), k - 1 \in T PROVE k \in T
  <2>1. PICK g : Up(g, k - 1)
    BY <1>3
  <2> DEFINE h == [n \in 0 .. k |-> IF n = k THEN Split(g[k - 1], xs[k], os[k], is[k], fs[k], tail) ELSE g[n]]
  <2>2. h[k] = Split(g[k - 1], xs[k], os[k], is[k], fs[k], tail) /\ \A n \in 0 .. k - 1 : h[n] = g[n]
    OBVIOUS
  <2>3. \A n \in 0 .. k - 1 : g[n] = IF n = 0 THEN st ELSE Split(g[n - 1], xs[n], os[n], is[n], fs[n], tail)
    BY <2>1
  <2>4. \A n \in 0 .. k : h[n] = IF n = 0 THEN st ELSE Split(h[n - 1], xs[n], os[n], is[n], fs[n], tail)
    <3> TAKE n \in 0 .. k
    <3>1. (n = 0 \/ (n - 1 \in 0 .. k - 1 /\ (n = k \/ n \in 0 .. k - 1))) /\ k # 0
      OBVIOUS
    <3> HIDE DEF h
    <3> QED BY <2>2, <2>3, <3>1
  <2>5. Up(h, k)
    <3>1. h = [n \in 0 .. k |-> h[n]]
      OBVIOUS
    <3> HIDE DEF h
    <3> QED BY <2>4, <3>1
  <2> HIDE DEF Up
  <2> QED BY <2>5
<1>4. Len(xs) \in T
  <2> HIDE DEF T
  <2>1. T = 0 .. Len(xs)
    BY <1>1, <1>2, <1>3, IndexInduction
  <2> QED BY <1>1, <2>1
<1>5. \E g : Up(g, Len(xs))
  BY <1>4
<1>6. SplitAll(st, xs, os, is, fs, tail) = (CHOOSE g : Up(g, Len(xs)))[Len(xs)]
  BY DEF SplitAll
<1> HIDE DEF Up
<1>7. Up(CHOOSE g : Up(g, Len(xs)), Len(xs))
  BY <1>5
<1> QED BY <1>6, <1>7 DEF Up

OnSteps(g, st, blocks, threads) ==
    /\ g = [n \in 0 .. Len(Marks(blocks, threads)) |-> IF n = 0 THEN st ELSE MarkedOn(g[n - 1], Marks(blocks, threads)[n])]
    /\ OnGpu(st, blocks, threads) = g[Len(Marks(blocks, threads))]

LEMMA OnChain ==
    ASSUME NEW st, NEW blocks, NEW threads, Len(Marks(blocks, threads)) \in Nat
    PROVE  \E g : OnSteps(g, st, blocks, threads)
<1> DEFINE Up(g, k) == g = [n \in 0 .. k |-> IF n = 0 THEN st ELSE MarkedOn(g[n - 1], Marks(blocks, threads)[n])]
           T == {k \in 0 .. Len(Marks(blocks, threads)) : \E g : Up(g, k)}
<1>1. Len(Marks(blocks, threads)) \in Nat /\ T \in SUBSET (0 .. Len(Marks(blocks, threads)))
  OBVIOUS
<1>2. 0 \in T
  <2>1. Up([n \in 0 .. 0 |-> st], 0)
    OBVIOUS
  <2> HIDE DEF Up
  <2> QED BY <2>1, <1>1
<1>3. ASSUME NEW k \in 1 .. Len(Marks(blocks, threads)), k - 1 \in T PROVE k \in T
  <2>1. PICK g : Up(g, k - 1)
    BY <1>3
  <2> DEFINE h == [n \in 0 .. k |-> IF n = k THEN MarkedOn(g[k - 1], Marks(blocks, threads)[k]) ELSE g[n]]
  <2>2. h[k] = MarkedOn(g[k - 1], Marks(blocks, threads)[k]) /\ \A n \in 0 .. k - 1 : h[n] = g[n]
    OBVIOUS
  <2>3. \A n \in 0 .. k - 1 : g[n] = IF n = 0 THEN st ELSE MarkedOn(g[n - 1], Marks(blocks, threads)[n])
    BY <2>1
  <2>4. \A n \in 0 .. k : h[n] = IF n = 0 THEN st ELSE MarkedOn(h[n - 1], Marks(blocks, threads)[n])
    <3> TAKE n \in 0 .. k
    <3>1. (n = 0 \/ (n - 1 \in 0 .. k - 1 /\ (n = k \/ n \in 0 .. k - 1))) /\ k # 0
      OBVIOUS
    <3> HIDE DEF h
    <3> QED BY <2>2, <2>3, <3>1
  <2>5. Up(h, k)
    <3>1. h = [n \in 0 .. k |-> h[n]]
      OBVIOUS
    <3> HIDE DEF h
    <3> QED BY <2>4, <3>1
  <2> HIDE DEF Up
  <2> QED BY <2>5
<1>4. Len(Marks(blocks, threads)) \in T
  <2> HIDE DEF T
  <2>1. T = 0 .. Len(Marks(blocks, threads))
    BY <1>1, <1>2, <1>3, IndexInduction
  <2> QED BY <1>1, <2>1
<1>5. \E g : Up(g, Len(Marks(blocks, threads)))
  BY <1>4
<1>6. OnGpu(st, blocks, threads) = (CHOOSE g : Up(g, Len(Marks(blocks, threads))))[Len(Marks(blocks, threads))]
  BY DEF OnGpu, Marks, MarkedOn
<1> HIDE DEF Up
<1>7. Up(CHOOSE g : Up(g, Len(Marks(blocks, threads))), Len(Marks(blocks, threads)))
  BY <1>5
<1> QED BY <1>6, <1>7 DEF Up, OnSteps

\* A directive leaves a stage as it must be, or refuses.
Kept(st) == st = Refused \/ StageInv(st)

LEMMA RefusedStays ==
    /\ \A old, outer, inner, factor, tail : Split(Refused, old, outer, inner, factor, tail) = Refused
    /\ \A name, t : SetDimType(Refused, name, t) = Refused
    /\ \A name : SetDimDeviceAPI(Refused, name, "gpu") = Refused
    /\ \A names : Reorder(Refused, names) = Refused
<1>1. \A old, outer, inner, factor, tail : Split(Refused, old, outer, inner, factor, tail) = Refused
  BY DEF Split, Try
<1>2. \A name, t : SetDimType(Refused, name, t) = Refused
  BY DEF SetDimType, Try
<1>3. \A name : SetDimDeviceAPI(Refused, name, "gpu") = Refused
  BY DEF SetDimDeviceAPI, Try
<1>4. \A names : Reorder(Refused, names) = Refused
  BY DEF Reorder, Try
<1> QED BY <1>1, <1>2, <1>3, <1>4

LEMMA KeptSplit ==
    ASSUME NEW st, Kept(st), NEW old, NEW outer, NEW inner, NEW factor, NEW asked,
           SplitNamed(old, outer, inner, factor, asked)
    PROVE  Kept(Split(st, old, outer, inner, factor, asked))
BY RefusedStays, SplitKeeps DEF Kept

LEMMA KeptType ==
    ASSUME NEW st, Kept(st), NEW name, NEW t \in Forms
    PROVE  Kept(SetDimType(st, name, t))
BY RefusedStays, SetDimTypeKeeps DEF Kept

LEMMA KeptApi ==
    ASSUME NEW st, Kept(st), NEW name
    PROVE  Kept(SetDimDeviceAPI(st, name, "gpu"))
BY RefusedStays, SetDimDeviceAPIKeeps DEF Kept

LEMMA KeptOnGpu ==
    ASSUME NEW st, Kept(st), NEW blocks, NEW threads, NEW B, blocks \in Seq(B), threads \in Seq(B)
    PROVE  Kept(OnGpu(st, blocks, threads))
<1> DEFINE all == Marks(blocks, threads)
           N == Len(all)
<1>1. all \in Seq(B \X {"gpu_block", "gpu_thread"})
  BY DEF Marks
<1>2. N \in Nat
  BY <1>1
<1>9. \A i \in 1 .. N : all[i][2] \in Forms
  BY <1>1 DEF Forms
<1>3. PICK g : OnSteps(g, st, blocks, threads)
  BY <1>2, OnChain
<1>4. g[0] = st /\ (\A n \in 1 .. N : g[n] = MarkedOn(g[n - 1], all[n])) /\ OnGpu(st, blocks, threads) = g[N]
  <2>1. g = [n \in 0 .. N |-> IF n = 0 THEN st ELSE MarkedOn(g[n - 1], all[n])]
        /\ OnGpu(st, blocks, threads) = g[N]
    BY <1>3 DEF OnSteps
  <2> HIDE DEF all, N
  <2>2. 0 \in 0 .. N /\ \A n \in 1 .. N : n \in 0 .. N /\ n # 0
    BY <1>2
  <2>3. g[0] = st
    BY <2>1, <2>2
  <2>4. ASSUME NEW n \in 1 .. N PROVE g[n] = MarkedOn(g[n - 1], all[n])
    BY <2>1, <2>2
  <2> QED BY <2>1, <2>3, <2>4
<1> HIDE DEF all, N
<1> DEFINE T == {n \in 0 .. N : Kept(g[n])}
<1>5. 0 \in T
  BY <1>2, <1>4
<1>6. \A n \in 1 .. N : n - 1 \in T => n \in T
  <2> SUFFICES ASSUME NEW n \in 1 .. N, n - 1 \in T PROVE n \in T
    OBVIOUS
  <2>1. Kept(SetDimDeviceAPI(g[n - 1], all[n][1], "gpu"))
    BY KeptApi
  <2>2. Kept(MarkedOn(g[n - 1], all[n]))
    BY <1>9, <2>1, KeptType DEF MarkedOn
  <2> QED BY <1>4, <2>2
<1>7. T \in SUBSET (0 .. N)
  OBVIOUS
<1> HIDE DEF T
<1>8. T = 0 .. N
  BY <1>2, <1>5, <1>6, <1>7, IndexInduction
<1>10. N \in T
  BY <1>2, <1>8
<1> QED BY <1>4, <1>10 DEF T

LEMMA KeptCuts ==
    ASSUME NEW st, Kept(st), NEW xs, NEW os, NEW is, NEW fs, NEW tail, Len(xs) \in Nat,
           \A n \in 1 .. Len(xs) : SplitNamed(xs[n], os[n], is[n], fs[n], tail)
    PROVE  Kept(SplitAll(st, xs, os, is, fs, tail))
<1> DEFINE N == Len(xs)
<1>3. PICK g : /\ g = [n \in 0 .. N |-> IF n = 0 THEN st ELSE Split(g[n - 1], xs[n], os[n], is[n], fs[n], tail)]
               /\ SplitAll(st, xs, os, is, fs, tail) = g[N]
  BY CutsChain
<1> DEFINE T == {n \in 0 .. N : Kept(g[n])}
<1>2. N \in Nat
  OBVIOUS
<1>4. g[0] = st /\ \A n \in 1 .. N : g[n] = Split(g[n - 1], xs[n], os[n], is[n], fs[n], tail)
  <2> HIDE DEF N
  <2> QED BY <1>2, <1>3
<1>5. 0 \in T
  BY <1>2, <1>4
<1>6. \A n \in 1 .. N : n - 1 \in T => n \in T
  <2> SUFFICES ASSUME NEW n \in 1 .. N, n - 1 \in T PROVE n \in T
    OBVIOUS
  <2>1. Kept(Split(g[n - 1], xs[n], os[n], is[n], fs[n], tail))
    BY KeptSplit
  <2> QED BY <1>4, <2>1
<1>7. T \in SUBSET (0 .. N)
  OBVIOUS
<1> HIDE DEF T, N
<1>8. T = 0 .. N
  BY <1>2, <1>5, <1>6, <1>7, IndexInduction
<1> QED BY <1>2, <1>3, <1>8 DEF T, N

LEMMA StageNames ==
    ASSUME NEW st, StageInv(st)
    PROVE  /\ \A old \in LoopNames(st) : old \in Name /\ old # OutermostName
           /\ \A old \in LoopNames(st) : \A n \in NewNames(st, old) : n \in Name /\ n # OutermostName
<1>1. st \in StageRec /\ Shape(st)
  BY DEF StageInv
<1>2. ASSUME NEW old \in LoopNames(st) PROVE old \in Name /\ old # OutermostName
  <2>1. old \in DimNames(st) /\ old # OutermostName
    BY DEF LoopNames
  <2>2. PICK i \in 1 .. Len(st.dims) : Last(st.dims[i].var) = old
    BY <1>1, <2>1, NameFound
  <2>3. st.dims[i].var \in Seq(Name) /\ st.dims[i].var # << >>
    BY <1>1 DEF Shape, IsLeaf, Path
  <2>4. Last(st.dims[i].var) \in Name
    BY <2>3 DEF Last
  <2> QED BY <2>1, <2>2, <2>4
<1>3. ASSUME NEW old \in LoopNames(st), NEW n \in NewNames(st, old) PROVE n \in Name /\ n # OutermostName
  <2>1. n \in FreshNames \/ n = old
    BY DEF NewNames
  <2>2. n \in FreshNames => n \in Name /\ n # OutermostName
    BY OutermostAssumption DEF Name
  <2> QED BY <1>2, <2>1, <2>2
<1> QED BY <1>2, <1>3

LEMMA SplitsNamed ==
    ASSUME NEW st, StageInv(st), NEW old \in LoopNames(st), NEW outer \in NewNames(st, old), NEW inner \in NewNames(st, old),
           outer # inner, NEW f \in Factors, NEW tail \in Tails
    PROVE  SplitNamed(old, outer, inner, f, tail)
<1>1. /\ old # OutermostName
      /\ outer \in Name /\ outer # OutermostName
      /\ inner \in Name /\ inner # OutermostName
  BY StageNames
<1>2. f \in Positive /\ tail \in {"Auto", "RoundUp", "GuardWithIf", "ShiftInwards"}
  BY FactorsAssumption, TailsAssumption DEF Positive
<1> QED BY <1>1, <1>2 DEF SplitNamed

LEMMA ReorderRefuses ==
    ASSUME NEW st, NEW names, NEW i \in DOMAIN names, NEW j \in DOMAIN names, i # j, names[i] = names[j]
    PROVE  Reorder(st, names) = Refused
<1> DEFINE idx == [k \in DOMAIN names |-> LastNamed(st.dims, names[k])]
<1>1. idx[i] = idx[j] /\ i \in DOMAIN idx /\ j \in DOMAIN idx
  OBVIOUS
<1> HIDE DEF idx
<1>2. ~IsInjective(idx)
  BY <1>1 DEF IsInjective
<1>3. Reorder(st, names) # Refused => IsInjective(idx)
  BY DEF Reorder, Try, LastNamed, idx
<1> QED BY <1>2, <1>3

LEMMA ToSetJoined ==
    ASSUME NEW S, NEW T, NEW s \in Seq(S), NEW t \in Seq(T)
    PROVE  ToSet(s \o t) = ToSet(s) \cup ToSet(t) /\ ToSet(t \o s) = ToSet(s) \cup ToSet(t)
<1>1. ASSUME NEW A, NEW B, NEW a \in Seq(A), NEW b \in Seq(B) PROVE ToSet(a \o b) = ToSet(a) \cup ToSet(b)
  <2> DEFINE c == a \o b
             M == Len(a)
             N == Len(b)
  <2>1. /\ M \in Nat /\ N \in Nat /\ DOMAIN c = 1 .. M + N /\ DOMAIN a = 1 .. M /\ DOMAIN b = 1 .. N
        /\ \A n \in 1 .. M : c[n] = a[n]
        /\ \A n \in M + 1 .. M + N : c[n] = b[n - M]
    OBVIOUS
  <2> HIDE DEF c, M, N
  <2>2. \A n \in 1 .. N : c[M + n] = b[n] /\ M + n \in 1 .. M + N
    BY <2>1
  <2>3. ASSUME NEW x \in ToSet(c) PROVE x \in ToSet(a) \cup ToSet(b)
    <3>1. PICK n \in 1 .. M + N : x = c[n]
      BY <2>1 DEF ToSet
    <3>2. CASE n \in 1 .. M
      BY <2>1, <3>1, <3>2 DEF ToSet
    <3>3. CASE n \notin 1 .. M
      <4>1. n \in M + 1 .. M + N /\ n - M \in 1 .. N
        BY <2>1, <3>3
      <4> QED BY <2>1, <3>1, <4>1 DEF ToSet
    <3> QED BY <3>2, <3>3
  <2>4. ASSUME NEW x \in ToSet(a) PROVE x \in ToSet(c)
    <3>1. PICK n \in 1 .. M : x = a[n]
      BY <2>1 DEF ToSet
    <3>2. n \in 1 .. M + N
      BY <2>1
    <3> QED BY <2>1, <3>1, <3>2 DEF ToSet
  <2>5. ASSUME NEW x \in ToSet(b) PROVE x \in ToSet(c)
    <3>1. PICK n \in 1 .. N : x = b[n]
      BY <2>1 DEF ToSet
    <3> QED BY <2>1, <2>2, <3>1 DEF ToSet
  <2>6. ToSet(c) = ToSet(a) \cup ToSet(b)
    BY <2>3, <2>4, <2>5
  <2> QED BY <2>6 DEF c
<1> QED BY <1>1

LEMMA KeptTile ==
    ASSUME NEW st, StageInv(st), Overlooked = {}, NEW xs \in Seq(LoopNames(st)), NEW is \in [DOMAIN xs -> FreshNames],
           NEW f \in Factors, NEW tail \in Tails,
           NEW fs, fs = [i \in DOMAIN xs |-> f],
           NamesAllReductions(SplitAll(st, xs, xs, is, fs, tail), xs \o is)
    PROVE  Kept(Tile(st, xs, xs, is, fs, tail))
<1> DEFINE N == Len(xs)
           cut == SplitAll(st, xs, xs, is, fs, tail)
           names == is \o xs
<1>1. N \in Nat /\ DOMAIN xs = 1 .. N /\ is \in Seq(FreshNames) /\ Len(is) = N
  OBVIOUS
<1>2. /\ \A n \in 1 .. N : xs[n] \in LoopNames(st) /\ is[n] \in FreshNames /\ fs[n] = f
  OBVIOUS
<1>3. \A n \in 1 .. N : xs[n] \in Name /\ xs[n] # OutermostName /\ is[n] \in Name /\ is[n] # OutermostName
  BY <1>2, StageNames, OutermostAssumption DEF Name
<1>4. /\ Len(names) = N + N /\ DOMAIN names = 1 .. N + N
      /\ \A n \in 1 .. N : names[n] = is[n]
      /\ \A n \in 1 .. N : names[N + n] = xs[n]
  <2>1. Len(is) = N /\ Len(xs) = N /\ is \in Seq(FreshNames) /\ xs \in Seq(LoopNames(st))
    BY <1>1
  <2> HIDE DEF N
  <2>2. /\ Len(names) = N + N /\ DOMAIN names = 1 .. N + N
        /\ \A n \in 1 .. N + N : names[n] = IF n <= N THEN is[n] ELSE xs[n - N]
    BY ONLY <1>1, <2>1
  <2> HIDE DEF names
  <2>3. \A n \in 1 .. N : n \in 1 .. N + N /\ N + n \in 1 .. N + N /\ n <= N /\ ~(N + n <= N) /\ (N + n) - N = n
    BY <1>1
  <2> QED BY <2>2, <2>3
<1>5. xs \o is \in Seq(Name) /\ names \in Seq(Name)
  BY <1>1, <1>3
<1>6. ToSet(names) = ToSet(xs) \cup ToSet(is) /\ ToSet(xs \o is) = ToSet(xs) \cup ToSet(is)
  BY <1>1, ToSetJoined
<1>7. OutermostName \notin ToSet(names)
  BY <1>1, <1>3, <1>6 DEF ToSet
<1>8. NamesAllReductions(cut, names)
  BY <1>6 DEF NamesAllReductions
<1>9. Tile(st, xs, xs, is, fs, tail) = Reorder(cut, names)
  BY DEF Tile
<1> HIDE DEF N, cut, names
<1>10. CASE \A n \in 1 .. N : is[n] # xs[n]
  <2>1. f \in Positive /\ tail \in {"Auto", "RoundUp", "GuardWithIf", "ShiftInwards"}
    BY FactorsAssumption, TailsAssumption DEF Positive
  <2>2. \A n \in 1 .. N : SplitNamed(xs[n], xs[n], is[n], fs[n], tail)
    BY <1>2, <1>3, <1>10, <2>1 DEF SplitNamed
  <2>3. Kept(cut)
    <3>1. Kept(st)
      BY DEF Kept
    <3> QED BY <1>1, <2>2, <3>1, KeptCuts DEF N, cut
  <2>4. CASE cut = Refused
    BY <1>9, <2>4, RefusedStays DEF Kept
  <2>5. CASE StageInv(cut)
    BY <1>5, <1>7, <1>8, <1>9, <2>5, ReorderKeeps DEF Kept
  <2> QED BY <2>3, <2>4, <2>5 DEF Kept
<1>11. CASE \E n \in 1 .. N : is[n] = xs[n]
  <2>1. PICK n \in 1 .. N : is[n] = xs[n]
    BY <1>11
  <2>2. n \in DOMAIN names /\ N + n \in DOMAIN names /\ n # N + n /\ names[n] = names[N + n]
    BY <1>1, <1>4, <2>1
  <2>3. Reorder(cut, names) = Refused
    BY <2>2, ReorderRefuses
  <2> QED BY <1>9, <2>3 DEF Kept
<1> QED BY <1>10, <1>11

LEMMA NamesInSequence ==
    ASSUME NEW st, StageInv(st), NEW xs \in SetToAllKPermutations(LoopNames(st))
    PROVE  xs \in Seq(LoopNames(st))
<1>1. st \in StageRec /\ Len(st.dims) \in Nat /\ DOMAIN st.dims = 1 .. Len(st.dims)
  BY StageTyped DEF StageInv
<1>2. IsFiniteSet(LoopNames(st))
  <2> DEFINE f == [i \in 1 .. Len(st.dims) |-> Last(st.dims[i].var)]
  <2>1. f \in Surjection(1 .. Len(st.dims), DimNames(st))
    <3>1. DimNames(st) = {f[i] : i \in 1 .. Len(st.dims)}
      BY <1>1 DEF DimNames
    <3>2. f \in [1 .. Len(st.dims) -> DimNames(st)]
      BY <1>1 DEF DimNames
    <3>3. \A n \in DimNames(st) : \E i \in 1 .. Len(st.dims) : f[i] = n
      BY <3>1
    <3> HIDE DEF f
    <3> QED BY <3>2, <3>3 DEF Surjection
  <2>2. IsFiniteSet(1 .. Len(st.dims))
    BY <1>1, FS_Interval
  <2> HIDE DEF f
  <2>3. IsFiniteSet(DimNames(st))
    BY <2>1, <2>2, FS_Surjection
  <2> QED BY <2>3, FS_Subset DEF LoopNames
<1>3. PICK s \in SUBSET LoopNames(st) : xs \in SetToSeqs(s)
  BY DEF SetToAllKPermutations
<1>4. xs \in [1 .. Cardinality(s) -> s]
  BY <1>3 DEF SetToSeqs
<1>5. Cardinality(s) \in Nat
  BY <1>2, FS_Subset, FS_CardinalityType
<1> QED BY <1>4, <1>5

-----------------------------------------------------------------------------
(* The steps of one stage. *)
Single(st) == StageInv(st) /\ stages = <<st>> /\ left \in Nat
SingleAfter == \E st : StageInv(st) /\ stages' = <<st>> /\ left' \in Nat

LEMMA AppliedOnce ==
    ASSUME NEW st, Single(st), left > 0, NEW k \in DOMAIN stages, NEW new, Apply(k, new), Kept(new)
    PROVE  SingleAfter
<1>1. stages = <<st>> /\ left \in Nat /\ k = 1
  BY DEF Single
<1>2. new # Refused /\ stages' = [stages EXCEPT ![k] = new] /\ left' = left - 1
  BY DEF Apply
<1>3. stages' = <<new>>
  BY <1>1, <1>2
<1>4. left' \in Nat
  BY <1>1, <1>2
<1> QED BY <1>2, <1>3, <1>4 DEF Kept, SingleAfter

LEMMA OneStage ==
    ASSUME NEW st, Single(st), NEW k \in DOMAIN stages
    PROVE  stages[k] = st /\ StageInv(st)
BY DEF Single

LEMMA SplitDimKeeps ==
    ASSUME NEW st, Single(st), Overlooked = {}, SplitDim PROVE SingleAfter
<1>1. left > 0
  BY DEF SplitDim, May
<1>2. PICK k \in DOMAIN stages : \E old \in LoopNames(stages[k]) :
           \E p \in SplitNames(stages[k], old), f \in Factors, tail \in Tails :
               Apply(k, Split(stages[k], old, p[1], p[2], f, tail))
  BY DEF SplitDim
<1>3. stages[k] = st /\ StageInv(st)
  BY OneStage
<1>8. PICK old \in LoopNames(st) : \E p \in SplitNames(st, old), f \in Factors, tail \in Tails :
           Apply(k, Split(st, old, p[1], p[2], f, tail))
  BY <1>2, <1>3
<1>4. PICK p \in SplitNames(st, old), f \in Factors, tail \in Tails : Apply(k, Split(st, old, p[1], p[2], f, tail))
  BY <1>8
<1>5. p[1] \in NewNames(st, old) /\ p[2] \in NewNames(st, old) /\ p[1] # p[2]
  BY DEF SplitNames
<1>6. SplitNamed(old, p[1], p[2], f, tail)
  BY <1>3, <1>5, SplitsNamed
<1>7. Kept(Split(st, old, p[1], p[2], f, tail))
  BY <1>3, <1>6, KeptSplit DEF Kept
<1> QED BY <1>1, <1>4, <1>7, AppliedOnce

LEMMA FuseDimsKeeps ==
    ASSUME NEW st, Single(st), Overlooked = {}, FuseDims PROVE SingleAfter
<1>1. left > 0
  BY DEF FuseDims, May
<1>2. PICK k \in DOMAIN stages : \E inner, outer \in LoopNames(stages[k]) : \E fused \in FreshNames :
           /\ inner # outer
           /\ \A d \in ToSet(stages[k].dims) : Last(d.var) \in {inner, outer} => IsPure(d)
           /\ fused \notin DimNames(stages[k]) \ {inner, outer}
           /\ Apply(k, Fuse(stages[k], inner, outer, fused))
  BY DEF FuseDims
<1>3. stages[k] = st /\ StageInv(st)
  BY OneStage
<1>4. PICK inner \in LoopNames(st), outer \in LoopNames(st), fused \in FreshNames :
           /\ inner # outer
           /\ \A d \in ToSet(st.dims) : Last(d.var) \in {inner, outer} => IsPure(d)
           /\ fused \notin DimNames(st) \ {inner, outer}
           /\ Apply(k, Fuse(st, inner, outer, fused))
  BY <1>2, <1>3
<1>5. inner # OutermostName /\ outer # OutermostName
  BY <1>3, StageNames
<1>6. Kept(Fuse(st, inner, outer, fused))
  BY <1>3, <1>4, <1>5, FuseKeeps DEF Kept
<1> QED BY <1>1, <1>4, <1>6, AppliedOnce

LEMMA RenameDimKeeps ==
    ASSUME NEW st, Single(st), RenameDim PROVE SingleAfter
<1>1. left > 0
  BY DEF RenameDim, May
<1>2. PICK k \in DOMAIN stages : \E old \in LoopNames(stages[k]) :
           \E new \in NewNames(stages[k], old) \ DimNames(stages[k]) : Apply(k, Rename(stages[k], old, new))
  BY DEF RenameDim
<1>3. stages[k] = st /\ StageInv(st)
  BY OneStage
<1>7. PICK old \in LoopNames(st) : \E new \in NewNames(st, old) \ DimNames(st) : Apply(k, Rename(st, old, new))
  BY <1>2, <1>3
<1>4. PICK new \in NewNames(st, old) \ DimNames(st) : Apply(k, Rename(st, old, new))
  BY <1>7
<1>5. old # OutermostName /\ new \in Name /\ new # OutermostName
  BY <1>3, <1>4, StageNames
<1>6. Kept(Rename(st, old, new))
  BY <1>3, <1>5, RenameKeeps DEF Kept
<1> QED BY <1>1, <1>4, <1>6, AppliedOnce

LEMMA ReorderDimsKeeps ==
    ASSUME NEW st, Single(st), Overlooked = {}, ReorderDims PROVE SingleAfter
<1>1. left > 0
  BY DEF ReorderDims, May
<1>2. PICK k \in DOMAIN stages : \E names \in SetToAllKPermutations(LoopNames(stages[k])) :
           NamesAllReductions(stages[k], names) /\ Apply(k, Reorder(stages[k], names))
  BY DEF ReorderDims
<1>3. stages[k] = st /\ StageInv(st)
  BY OneStage
<1>4. PICK names \in SetToAllKPermutations(LoopNames(st)) :
           NamesAllReductions(st, names) /\ Apply(k, Reorder(st, names))
  BY <1>2, <1>3
<1>5. names \in Seq(LoopNames(st))
  BY <1>3, NamesInSequence
<1>6. names \in Seq(Name) /\ OutermostName \notin ToSet(names)
  <2>1. \A n \in LoopNames(st) : n \in Name /\ n # OutermostName
    BY <1>3, StageNames
  <2>2. names \in Seq(Name) /\ \A i \in DOMAIN names : names[i] \in LoopNames(st)
    BY <1>5, <2>1
  <2> QED BY <2>1, <2>2 DEF ToSet
<1>7. Kept(Reorder(st, names))
  BY <1>3, <1>4, <1>6, ReorderKeeps DEF Kept
<1> QED BY <1>1, <1>4, <1>7, AppliedOnce

LEMMA MarkDimKeeps ==
    ASSUME NEW st, Single(st), MarkDim PROVE SingleAfter
<1>1. left > 0
  BY DEF MarkDim, May
<1>5. PICK k \in DOMAIN stages : \E name \in LoopNames(stages[k]), t \in ForTypes :
           Apply(k, SetDimType(stages[k], name, t))
  BY DEF MarkDim
<1>2. PICK name \in LoopNames(stages[k]), t \in ForTypes : Apply(k, SetDimType(stages[k], name, t))
  BY <1>5
<1>3. stages[k] = st /\ StageInv(st) /\ t \in Forms
  BY OneStage DEF Forms
<1>4. Kept(SetDimType(stages[k], name, t))
  BY <1>3, KeptType DEF Kept
<1> QED BY <1>1, <1>2, <1>4, AppliedOnce

LEMMA SplitAndMarkDimKeeps ==
    ASSUME NEW st, Single(st), SplitAndMarkDim PROVE SingleAfter
<1>1. left > 0
  BY DEF SplitAndMarkDim, May
<1>2. PICK k \in DOMAIN stages : \E name \in LoopNames(stages[k]) :
           \E tmp \in NewNames(stages[k], name), t \in ForTypes \ {"serial"}, f \in Factors, tail \in Tails :
               tmp # name /\ Apply(k, SplitAndMark(stages[k], name, tmp, f, t, tail))
  BY DEF SplitAndMarkDim
<1>3. stages[k] = st /\ StageInv(st)
  BY OneStage
<1>9. PICK name \in LoopNames(st) :
           \E tmp \in NewNames(st, name), t \in ForTypes \ {"serial"}, f \in Factors, tail \in Tails :
               tmp # name /\ Apply(k, SplitAndMark(st, name, tmp, f, t, tail))
  BY <1>2, <1>3
<1>4. PICK tmp \in NewNames(st, name), t \in ForTypes \ {"serial"}, f \in Factors, tail \in Tails :
           tmp # name /\ Apply(k, SplitAndMark(st, name, tmp, f, t, tail))
  BY <1>9
<1>5. name \in NewNames(st, name) /\ t \in Forms
  BY DEF NewNames, Forms
<1>6. SplitNamed(name, name, tmp, f, tail)
  BY <1>3, <1>4, <1>5, SplitsNamed
<1>7. Kept(Split(st, name, name, tmp, f, tail))
  BY <1>3, <1>6, KeptSplit DEF Kept
<1>8. Kept(SplitAndMark(st, name, tmp, f, t, tail))
  BY <1>5, <1>7, KeptType DEF SplitAndMark
<1> QED BY <1>1, <1>4, <1>8, AppliedOnce

LEMMA AllowRacesKeeps ==
    ASSUME NEW st, Single(st), AllowRaces PROVE SingleAfter
<1>1. left > 0
  BY DEF AllowRaces, May
<1>2. PICK k \in DOMAIN stages :
         \/ Apply(k, [stages[k] EXCEPT !.race = TRUE])
         \/ \E override \in BOOLEAN : Apply(k, [stages[k] EXCEPT !.atomic = TRUE, !.override = override])
  BY DEF AllowRaces
<1>3. stages[k] = st /\ StageInv(st)
  BY OneStage
<1>4. CASE Apply(k, [stages[k] EXCEPT !.race = TRUE])
  BY <1>1, <1>3, <1>4, AllowKeeps, AppliedOnce DEF Kept
<1>5. CASE \E override \in BOOLEAN : Apply(k, [stages[k] EXCEPT !.atomic = TRUE, !.override = override])
  <2>1. PICK override \in BOOLEAN : Apply(k, [stages[k] EXCEPT !.atomic = TRUE, !.override = override])
    BY <1>5
  <2> DEFINE new == [stages[k] EXCEPT !.atomic = TRUE, !.override = override]
  <2>2. Kept(new)
    BY <1>3, AllowKeeps DEF Kept
  <2>3. Apply(k, new)
    BY <2>1
  <2> HIDE DEF new
  <2> QED BY <1>1, <2>2, <2>3, AppliedOnce
<1> QED BY <1>2, <1>4, <1>5

LEMMA TileDimsKeeps ==
    ASSUME NEW st, Single(st), Overlooked = {}, TileDims PROVE SingleAfter
<1>1. left > 0
  BY DEF TileDims, May
<1>2. PICK k \in DOMAIN stages : \E xs \in SetToAllKPermutations(LoopNames(stages[k])) :
         \E is \in [DOMAIN xs -> FreshNames], f \in Factors, tail \in Tails :
            \E fs : /\ fs = [i \in DOMAIN xs |-> f]
                    /\ NamesAllReductions(SplitAll(stages[k], xs, xs, is, fs, tail), xs \o is)
                    /\ \/ Apply(k, Tile(stages[k], xs, xs, is, fs, tail))
                       \/ Apply(k, GpuTile(stages[k], xs, xs, is, fs, tail))
  BY DEF TileDims
<1>3. stages[k] = st /\ StageInv(st)
  BY OneStage
<1>4. PICK xs \in SetToAllKPermutations(LoopNames(st)) :
         \E is \in [DOMAIN xs -> FreshNames], f \in Factors, tail \in Tails :
            \E fs : /\ fs = [i \in DOMAIN xs |-> f]
                    /\ NamesAllReductions(SplitAll(st, xs, xs, is, fs, tail), xs \o is)
                    /\ \/ Apply(k, Tile(st, xs, xs, is, fs, tail))
                       \/ Apply(k, GpuTile(st, xs, xs, is, fs, tail))
  BY <1>2, <1>3
<1>5. PICK is \in [DOMAIN xs -> FreshNames], f \in Factors, tail \in Tails :
            \E fs : /\ fs = [i \in DOMAIN xs |-> f]
                    /\ NamesAllReductions(SplitAll(st, xs, xs, is, fs, tail), xs \o is)
                    /\ \/ Apply(k, Tile(st, xs, xs, is, fs, tail))
                       \/ Apply(k, GpuTile(st, xs, xs, is, fs, tail))
  BY <1>4
<1>6. PICK fs : /\ fs = [i \in DOMAIN xs |-> f]
                /\ NamesAllReductions(SplitAll(st, xs, xs, is, fs, tail), xs \o is)
                /\ \/ Apply(k, Tile(st, xs, xs, is, fs, tail))
                   \/ Apply(k, GpuTile(st, xs, xs, is, fs, tail))
  BY <1>5
<1>7. xs \in Seq(LoopNames(st))
  BY <1>3, NamesInSequence
<1>8. Kept(Tile(st, xs, xs, is, fs, tail))
  BY <1>3, <1>6, <1>7, KeptTile
<1>9. Kept(GpuTile(st, xs, xs, is, fs, tail))
  <2>1. xs \in Seq(LoopNames(st) \cup FreshNames) /\ is \in Seq(LoopNames(st) \cup FreshNames)
    BY <1>7
  <2>2. Kept(OnGpu(Tile(st, xs, xs, is, fs, tail), xs, is))
    BY <1>8, <2>1, KeptOnGpu
  <2> QED BY <2>2 DEF GpuTile
<1>10. CASE Apply(k, Tile(st, xs, xs, is, fs, tail))
  BY <1>1, <1>8, <1>10, AppliedOnce
<1>11. CASE Apply(k, GpuTile(st, xs, xs, is, fs, tail))
  BY <1>1, <1>9, <1>11, AppliedOnce
<1> QED BY <1>6, <1>10, <1>11

LEMMA SingleThreadKeeps ==
    ASSUME NEW st, Single(st), SingleThread PROVE SingleAfter
<1>1. left > 0
  BY DEF SingleThread, May
<1>2. PICK k \in DOMAIN stages, b \in FreshNames \ RVarNames, t \in FreshNames \ RVarNames :
           Apply(k, GpuSingleThread(stages[k], b, t))
  BY DEF SingleThread
<1>3. stages[k] = st /\ StageInv(st)
  BY OneStage
<1>4. \A n \in {b, t} : SplitNamed(OutermostName, OutermostName, n, 1, "Auto")
  BY OutermostAssumption DEF SplitNamed, Name, Positive
<1>5. Kept(Split(st, OutermostName, OutermostName, t, 1, "Auto"))
  BY <1>3, <1>4, KeptSplit DEF Kept
<1>6. Kept(Split(Split(st, OutermostName, OutermostName, t, 1, "Auto"), OutermostName, OutermostName, b, 1, "Auto"))
  BY <1>4, <1>5, KeptSplit
<1>7. <<b>> \in Seq(FreshNames) /\ <<t>> \in Seq(FreshNames)
  OBVIOUS
<1>8. Kept(GpuSingleThread(st, b, t))
  BY <1>6, <1>7, KeptOnGpu DEF GpuSingleThread
<1> QED BY <1>1, <1>2, <1>3, <1>8, AppliedOnce

-----------------------------------------------------------------------------
(* The invariant: until rfactor is applied, the one stage is as it must be. *)
Factored == \E f, g : stages = <<f, g>> /\ left \in Nat
StageSafe == (\E st : Single(st)) \/ Factored

LEMMA StartsSafe ==
    ASSUME StageInit PROVE StageSafe
<1>1. PICK def \in Definitions : stages = <<NewStage(def)>> /\ left = def.directives
  BY DEF StageInit
<1>2. left \in Nat
  BY <1>1, DefinitionsAssumption
<1>3. Single(NewStage(def))
  BY <1>1, <1>2, NewStageInv DEF Single
<1> QED BY <1>3 DEF StageSafe

LEMMA SingleSteps ==
    ASSUME Overlooked = {}, NEW st, Single(st), StageNext
    PROVE  StageSafe'
<1>1. SingleAfter => StageSafe'
  BY DEF SingleAfter, StageSafe, Single
<1>2. CASE Rfactor
  <2>2. left > 0 /\ left' = left - 1 /\ left \in Nat
    BY <1>2 DEF Rfactor, May, Single
  <2>3. \E f, g : stages' = <<f, g>>
    BY <1>2 DEF Rfactor
  <2>4. left' \in Nat
    BY <2>2
  <2> QED BY <2>3, <2>4 DEF StageSafe, Factored
<1>3. CASE SplitDim
  BY <1>1, <1>3, SplitDimKeeps
<1>4. CASE FuseDims
  BY <1>1, <1>4, FuseDimsKeeps
<1>5. CASE RenameDim
  BY <1>1, <1>5, RenameDimKeeps
<1>6. CASE ReorderDims
  BY <1>1, <1>6, ReorderDimsKeeps
<1>7. CASE MarkDim
  BY <1>1, <1>7, MarkDimKeeps
<1>8. CASE SplitAndMarkDim
  BY <1>1, <1>8, SplitAndMarkDimKeeps
<1>9. CASE AllowRaces
  BY <1>1, <1>9, AllowRacesKeeps
<1>10. CASE TileDims
  BY <1>1, <1>10, TileDimsKeeps
<1>11. CASE SingleThread
  BY <1>1, <1>11, SingleThreadKeeps
<1> QED BY <1>2, <1>3, <1>4, <1>5, <1>6, <1>7, <1>8, <1>9, <1>10, <1>11 DEF StageNext

\* What every directive but rfactor does.
OneChanges == left > 0 /\ \E k \in DOMAIN stages : \E new : stages' = [stages EXCEPT ![k] = new] /\ left' = left - 1

LEMMA DirectivesChangeOne ==
    ASSUME StageNext PROVE Rfactor \/ OneChanges
<1>1. \A new : \A k \in DOMAIN stages : left > 0 /\ Apply(k, new) => OneChanges
  BY DEF Apply, OneChanges
<1>2. SplitDim => OneChanges
  BY <1>1 DEF SplitDim, May
<1>3. FuseDims => OneChanges
  BY <1>1 DEF FuseDims, May
<1>4. RenameDim => OneChanges
  BY <1>1 DEF RenameDim, May
<1>5. ReorderDims => OneChanges
  BY <1>1 DEF ReorderDims, May
<1>6. MarkDim => OneChanges
  BY <1>1 DEF MarkDim, May
<1>7. SplitAndMarkDim => OneChanges
  BY <1>1 DEF SplitAndMarkDim, May
<1>8. AllowRaces => OneChanges
  BY <1>1 DEF AllowRaces, May
<1>9. TileDims => OneChanges
  BY <1>1 DEF TileDims, May
<1>10. SingleThread => OneChanges
  BY <1>1 DEF SingleThread, May
<1> QED BY <1>2, <1>3, <1>4, <1>5, <1>6, <1>7, <1>8, <1>9, <1>10 DEF StageNext

LEMMA FactoredSteps ==
    ASSUME Factored, StageNext PROVE StageSafe'
<1>1. PICK f, g : stages = <<f, g>> /\ left \in Nat
  BY DEF Factored
<1>2. ~Rfactor
  BY <1>1 DEF Rfactor
<1>3. left > 0 /\ \E k \in DOMAIN stages : \E new : stages' = [stages EXCEPT ![k] = new] /\ left' = left - 1
  BY <1>2, DirectivesChangeOne DEF OneChanges
<1>8. PICK k \in DOMAIN stages : \E new : stages' = [stages EXCEPT ![k] = new] /\ left' = left - 1
  BY <1>3
<1>4. PICK new : stages' = [stages EXCEPT ![k] = new] /\ left' = left - 1
  BY <1>8
<1>5. k \in {1, 2}
  BY <1>1
<1>6. stages' = <<new, g>> \/ stages' = <<f, new>>
  BY <1>1, <1>4, <1>5
<1>7. left' \in Nat
  BY <1>1, <1>3, <1>4
<1> QED BY <1>6, <1>7 DEF Factored, StageSafe

\* As long as every check that the code leaves to the user is made, a stage that
\* no rfactor was applied to satisfies the invariant of its loops and its splits.
THEOREM StagesSafe == ASSUME Overlooked = {} PROVE StageSpec => []StageSafe
<1>1. StageInit => StageSafe
  BY StartsSafe
<1>2. StageSafe /\ [StageNext]_stageVars => StageSafe'
  <2> SUFFICES ASSUME StageSafe, [StageNext]_stageVars PROVE StageSafe'
    OBVIOUS
  <2>1. CASE StageNext
    BY <2>1, SingleSteps, FactoredSteps DEF StageSafe
  <2>2. CASE UNCHANGED stageVars
    BY <2>2 DEF stageVars, StageSafe, Single, Factored
  <2> QED BY <2>1, <2>2
<1> QED BY <1>1, <1>2, PTL DEF StageSpec

LEMMA SafeStage ==
    ASSUME StageSafe, Len(stages) = 1
    PROVE  \E st : stages = <<st>> /\ ToSet(stages) = {st} /\ Last(stages) = st /\ StageInv(st) /\ left \in Nat
<1>1. PICK st : Single(st)
  BY DEF StageSafe, Factored
<1>2. stages = <<st>> /\ StageInv(st) /\ left \in Nat
  BY <1>1 DEF Single
<1>3. ToSet(stages) = {st} /\ Last(stages) = st
  BY <1>2 DEF ToSet, Last
<1> QED BY <1>2, <1>3

\* Until rfactor, the loops of the stage are what the splits leave of its
\* variables, each once.
THEOREM LoopsStayLeaves == ASSUME Overlooked = {} PROVE StageSpec => [](Len(stages) = 1 => LoopsAreLeaves)
<1>1. StageSafe => (Len(stages) = 1 => LoopsAreLeaves)
  <2> SUFFICES ASSUME StageSafe, Len(stages) = 1 PROVE LoopsAreLeaves
    OBVIOUS
  <2>1. PICK st : ToSet(stages) = {st} /\ StageInv(st) /\ left \in Nat
    BY SafeStage
  <2>2. StageTypeOK
    <3>1. TypedStage(st)
      BY <2>1, InvTyped
    <3> QED BY <2>1, <3>1 DEF StageTypeOK, TypedStage
  <2>3. {d.var : d \in ToSet(st.dims)} = Leaves(st) /\ Cardinality(Leaves(st)) = Len(st.dims)
    BY <2>1, InvLoops
  <2> QED BY <2>1, <2>2, <2>3 DEF LoopsAreLeaves
<1> QED BY <1>1, StagesSafe, PTL

\* Until rfactor, whatever was split, fused, renamed and reordered, the loops
\* compute every point of the definition.
THEOREM PointsStayComputed == ASSUME Overlooked = {} PROVE StageSpec => [](Len(stages) = 1 => EveryPointComputed)
<1>1. StageSafe => (Len(stages) = 1 => EveryPointComputed)
  BY SafeStage, InvCovers DEF EveryPointComputed
<1> QED BY <1>1, StagesSafe, PTL

\* Until rfactor, an update computes no point twice.
THEOREM NothingIsRecomputed == ASSUME Overlooked = {} PROVE StageSpec => [](Len(stages) = 1 => NothingRecomputed)
<1>1. StageSafe => (Len(stages) = 1 => NothingRecomputed)
  <2> SUFFICES ASSUME StageSafe, Len(stages) = 1 PROVE NothingRecomputed
    OBVIOUS
  <2>1. PICK st : ToSet(stages) = {st} /\ StageInv(st)
    BY SafeStage
  <2>2. ~st.init => \A a, b \in Runs(st) : a.point = b.point => a = b
    BY <2>1, InvOnce
  <2> QED BY <2>1, <2>2 DEF NothingRecomputed
<1> QED BY <1>1, StagesSafe, PTL

\* Until rfactor, a reduction stays in the domain it was given, and a pure stage
\* in what is asked of it, with the tails that Auto selects or ShiftInwards.
THEOREM StagesStayInDomain == ASSUME Overlooked = {} PROVE StageSpec => [](Len(stages) = 1 => StaysInDomain)
<1>1. StageSafe => (Len(stages) = 1 => StaysInDomain)
  <2> SUFFICES ASSUME StageSafe, Len(stages) = 1 PROVE StaysInDomain
    OBVIOUS
  <2>1. PICK st : ToSet(stages) = {st} /\ StageInv(st)
    BY SafeStage
  <2>2. ReductionInDomain
    <3>1. \A r \in Runs(st) : \A v \in ToSet(st.order) : r.point[v] < st.ext[v]
      BY <2>1, InvBounds
    <3> QED BY <2>1, <3>1 DEF ReductionInDomain
  <2>3. PureStageInDomain
    <3>1. ASSUME st.init, st.inwards,
                 \A i \in DOMAIN st.splits : st.splits[i].tail = "ShiftInwards" =>
                     Extents(st)[st.splits[i].old] >= st.splits[i].factor,
                 NEW r \in Runs(st)
          PROVE  r.point \in Domain(st)
      BY <2>1, <3>1, InvBounds
    <3> QED BY <2>1, <3>1 DEF PureStageInDomain
  <2> QED BY <2>2, <2>3 DEF StaysInDomain
<1> QED BY <1>1, StagesSafe, PTL

\* Until rfactor, two points that update one value are computed in the order of
\* the definition, or in any order if the update is associative and commutative,
\* and never at one time unless the user took responsibility.
THEOREM ReductionsStayInOrder == ASSUME Overlooked = {} PROVE StageSpec => [](Len(stages) = 1 => ReductionOrderKept)
<1>1. StageSafe => (Len(stages) = 1 => ReductionOrderKept)
  <2> SUFFICES ASSUME StageSafe, Len(stages) = 1 PROVE ReductionOrderKept
    OBVIOUS
  <2>1. PICK st : ToSet(stages) = {st} /\ StageInv(st)
    BY SafeStage
  <2>2. ASSUME ~st.init, ~st.race, ~st.atomic, NEW a \in Runs(st), NEW b \in Runs(st),
               a.site = b.site, Precedes(st, a.point, b.point)
        PROVE  Before(st, a.it, b.it) \/ (st.assoc /\ st.comm /\ Before(st, b.it, a.it))
    BY <2>1, <2>2, InvOrder
  <2> QED BY <2>1, <2>2 DEF ReductionOrderKept
<1> QED BY <1>1, StagesSafe, PTL
=============================================================================
