------------------------------- MODULE SetSums -------------------------------
(***************************************************************************)
(* Facts about the sum of a function over a finite set, and about the      *)
(* largest element of a bounded set of numbers, for the proofs of the      *)
(* modules that add up times and counters.  The induction is that over     *)
(* the subsets of a finite set: a nonempty family of them has a smallest.  *)
(***************************************************************************)
EXTENDS Integers, FiniteSetsExt, FiniteSetTheorems, WellFoundedInduction, TLAPS

Less == {ss \in Nat \X Nat : ss[1] < ss[2]}
LEMMA LessWellFounded == IsWellFoundedOn(Less, Nat)
BY NatLessThanWellFounded DEF OpToRel, Less

LEMMA LeastNumber ==
    ASSUME NEW T \in SUBSET Nat, T # {}
    PROVE  \E n \in T : \A m \in T : n <= m
<1>1. PICK n \in T : \A m \in T : ~(<<m, n>> \in Less)
  BY LessWellFounded, WFMin
<1>2. \A m \in T : n <= m
  <2> TAKE m \in T
  <2>1. m \in Nat /\ n \in Nat /\ <<m, n>> \notin Less
    BY <1>1
  <2> QED BY <2>1 DEF Less
<1> QED BY <1>2

LEMMA SmallestSubset ==
    ASSUME NEW S, IsFiniteSet(S), NEW Q \in SUBSET SUBSET S, Q # {}
    PROVE  \E s \in Q : \A t \in SUBSET s : t # s => t \notin Q
<1> DEFINE C == {Cardinality(s) : s \in Q}
<1>1. \A s \in SUBSET S : IsFiniteSet(s) /\ Cardinality(s) \in Nat
  BY FS_Subset, FS_CardinalityType
<1>2. C \in SUBSET Nat /\ C # {}
  BY <1>1
<1>3. PICK n \in C : \A m \in C : n <= m
  <2> HIDE DEF C
  <2> QED BY <1>2, LeastNumber
<1>4. PICK s \in Q : n = Cardinality(s)
  OBVIOUS
<1>5. ASSUME NEW t \in SUBSET s, t # s, t \in Q PROVE FALSE
  <2>1. Cardinality(t) < Cardinality(s)
    BY <1>1, <1>5, FS_Subset
  <2>2. Cardinality(s) <= Cardinality(t)
    BY <1>3, <1>4, <1>5
  <2>3. Cardinality(s) \in Nat /\ Cardinality(t) \in Nat
    BY <1>1, <1>5
  <2> QED BY <2>1, <2>2, <2>3
<1> QED BY <1>4, <1>5

-----------------------------------------------------------------------------
(* The function that the fold of a sum chooses.                            *)

Some(s) == CHOOSE x \in s : TRUE
Steps(g, f, S) ==
    g = [s \in SUBSET S |-> IF s = {} THEN 0 ELSE f[Some(s)] + g[s \ {Some(s)}]]
Sum(f, S) == SumFunctionOnSet(f, S)

LEMMA SumChosen ==
    ASSUME NEW f, NEW S
    PROVE  Sum(f, S) = (CHOOSE g : Steps(g, f, S))[S]
BY DEF Sum, SumFunctionOnSet, FoldFunctionOnSet, MapThenFoldSet, Steps, Some

LEMMA SomeIn ==
    ASSUME NEW s, s # {} PROVE Some(s) \in s
BY DEF Some

LEMMA StepsOf ==
    ASSUME NEW g, NEW f, NEW S
    PROVE  Steps(g, f, S) <=>
             /\ g = [s \in SUBSET S |-> g[s]]
             /\ \A s \in SUBSET S :
                   g[s] = IF s = {} THEN 0 ELSE f[Some(s)] + g[s \ {Some(s)}]
BY DEF Steps

LEMMA StepsUnique ==
    ASSUME NEW f, NEW S, IsFiniteSet(S), NEW g, Steps(g, f, S), NEW h, Steps(h, f, S)
    PROVE  g = h
<1>1. \A s \in SUBSET S : g[s] = h[s]
  <2> DEFINE Q == {s \in SUBSET S : g[s] # h[s]}
  <2> SUFFICES ASSUME Q # {} PROVE FALSE
    OBVIOUS
  <2>1. PICK s \in Q : \A t \in SUBSET s : t # s => t \notin Q
    <3>1. Q \in SUBSET SUBSET S
      OBVIOUS
    <3> HIDE DEF Q
    <3> QED BY <3>1, SmallestSubset
  <2>2. s \in SUBSET S /\ g[s] # h[s]
    OBVIOUS
  <2>3. CASE s = {}
    BY <2>2, <2>3, StepsOf
  <2>4. CASE s # {}
    <3>1. Some(s) \in s
      BY <2>4, SomeIn
    <3> DEFINE r == s \ {Some(s)}
    <3>2. r \in SUBSET S /\ r \in SUBSET s /\ r # s
      BY <2>2, <3>1
    <3>3. g[r] = h[r]
      BY <2>1, <3>2
    <3>4. g[s] = f[Some(s)] + g[r] /\ h[s] = f[Some(s)] + h[r]
      BY <2>2, <2>4, StepsOf
    <3> QED BY <2>2, <3>3, <3>4
  <2> QED BY <2>3, <2>4
<1>2. g = [s \in SUBSET S |-> g[s]] /\ h = [s \in SUBSET S |-> h[s]]
  BY StepsOf
<1> QED BY <1>1, <1>2

(* Where the function exists, the sum over S is a value more than that     *)
(* over the rest.                                                          *)
LEMMA SumOfSteps ==
    ASSUME NEW f, NEW S, IsFiniteSet(S), NEW g, Steps(g, f, S)
    PROVE  \A s \in SUBSET S : Sum(f, s) = g[s]
<1> TAKE s \in SUBSET S
<1> DEFINE h == [t \in SUBSET s |-> g[t]]
<1>1. Steps(h, f, s)
  <2>1. h = [t \in SUBSET s |-> h[t]]
    OBVIOUS
  <2>2. \A t \in SUBSET s : h[t] = IF t = {} THEN 0 ELSE f[Some(t)] + h[t \ {Some(t)}]
    <3> TAKE t \in SUBSET s
    <3>1. t \in SUBSET S /\ h[t] = g[t] /\ t \ {Some(t)} \in SUBSET s
          /\ h[t \ {Some(t)}] = g[t \ {Some(t)}]
      OBVIOUS
    <3>2. g[t] = IF t = {} THEN 0 ELSE f[Some(t)] + g[t \ {Some(t)}]
      BY <3>1, StepsOf
    <3> HIDE DEF h
    <3> QED BY <3>1, <3>2
  <2> HIDE DEF h
  <2> QED BY <2>1, <2>2, StepsOf
<1>2. h[s] = g[s]
  OBVIOUS
<1> HIDE DEF h
<1>3. Steps(CHOOSE k : Steps(k, f, s), f, s)
  BY <1>1
<1>4. IsFiniteSet(s)
  BY FS_Subset
<1>5. (CHOOSE k : Steps(k, f, s)) = h
  BY <1>1, <1>3, <1>4, StepsUnique
<1> QED BY <1>2, <1>5, SumChosen

LEMMA StepsExist ==
    ASSUME NEW f, NEW S, IsFiniteSet(S)
    PROVE  \E g : Steps(g, f, S)
<1> DEFINE Q == {s \in SUBSET S : ~\E g : Steps(g, f, s)}
<1> SUFFICES ASSUME Q # {} PROVE FALSE
  OBVIOUS
<1>1. PICK s \in Q : \A t \in SUBSET s : t # s => t \notin Q
  <2>1. Q \in SUBSET SUBSET S
    OBVIOUS
  <2> HIDE DEF Q
  <2> QED BY <2>1, SmallestSubset
<1>2. s \in SUBSET S /\ IsFiniteSet(s) /\ ~\E g : Steps(g, f, s)
  BY FS_Subset
<1>3. ASSUME NEW t \in SUBSET s, t # s
      PROVE  /\ t # {} => Sum(f, t) = f[Some(t)] + Sum(f, t \ {Some(t)})
             /\ t = {} => Sum(f, t) = 0
  <2>1. t \notin Q /\ t \in SUBSET S
    BY <1>1, <1>2, <1>3
  <2>2. PICK g : Steps(g, f, t)
    BY <2>1
  <2>3. IsFiniteSet(t)
    BY <2>1, FS_Subset
  <2>4. \A u \in SUBSET t : Sum(f, u) = g[u]
    BY <2>2, <2>3, SumOfSteps
  <2>5. g[t] = IF t = {} THEN 0 ELSE f[Some(t)] + g[t \ {Some(t)}]
    BY <2>2, StepsOf
  <2> QED BY <2>4, <2>5
<1> DEFINE top == IF s = {} THEN 0 ELSE f[Some(s)] + Sum(f, s \ {Some(s)})
           h == [t \in SUBSET s |-> IF t = s THEN top ELSE Sum(f, t)]
<1>4. h = [t \in SUBSET s |-> h[t]]
  OBVIOUS
<1>5. ASSUME NEW t \in SUBSET s
      PROVE  h[t] = IF t = {} THEN 0 ELSE f[Some(t)] + h[t \ {Some(t)}]
  <2> DEFINE r == t \ {Some(t)}
  <2>1. t # {} => r \in SUBSET s /\ r # s /\ r # t
    BY SomeIn
  <2>2. t # {} => h[r] = Sum(f, r)
    BY <2>1
  <2>3. CASE t = s
    BY <2>2, <2>3
  <2>4. CASE t # s
    <3>1. h[t] = Sum(f, t)
      BY <2>4
    <3> HIDE DEF h
    <3> QED BY <1>3, <2>2, <2>4, <3>1
  <2> QED BY <2>3, <2>4
<1> HIDE DEF h
<1>6. Steps(h, f, s)
  BY <1>4, <1>5, StepsOf
<1> QED BY <1>2, <1>6

-----------------------------------------------------------------------------
(* How sums are computed.                                                  *)

LEMMA SumEmpty ==
    ASSUME NEW f PROVE Sum(f, {}) = 0
<1>1. IsFiniteSet({})
  BY FS_EmptySet
<1>2. PICK g : Steps(g, f, {})
  BY <1>1, StepsExist
<1>3. Sum(f, {}) = g[{}]
  BY <1>1, <1>2, SumOfSteps
<1>4. g[{}] = 0
  BY <1>2, StepsOf
<1> QED BY <1>3, <1>4

LEMMA SumOfSome ==
    ASSUME NEW f, NEW S, IsFiniteSet(S), S # {}
    PROVE  Sum(f, S) = f[Some(S)] + Sum(f, S \ {Some(S)})
<1>1. PICK g : Steps(g, f, S)
  BY StepsExist
<1>2. \A s \in SUBSET S : Sum(f, s) = g[s]
  BY <1>1, SumOfSteps
<1>3. g[S] = f[Some(S)] + g[S \ {Some(S)}]
  BY <1>1, StepsOf
<1> QED BY <1>2, <1>3

(* Any element may be the one that is added last.                          *)
LEMMA SumRemove ==
    ASSUME NEW f, NEW S, IsFiniteSet(S), \A x \in S : f[x] \in Nat
    PROVE  /\ Sum(f, S) \in Nat
           /\ \A x \in S : /\ Sum(f, S \ {x}) \in Nat
                           /\ Sum(f, S) = f[x] + Sum(f, S \ {x})
<1> DEFINE Right(s) == /\ Sum(f, s) \in Nat
                       /\ \A x \in s : Sum(f, s) = f[x] + Sum(f, s \ {x})
           Q == {s \in SUBSET S : ~Right(s)}
<1>1. ASSUME Q # {} PROVE FALSE
  <2>1. PICK s \in Q : \A t \in SUBSET s : t # s => t \notin Q
    <3>1. Q \in SUBSET SUBSET S
      OBVIOUS
    <3> HIDE DEF Q
    <3> QED BY <1>1, <3>1, SmallestSubset
  <2>2. s \in SUBSET S /\ ~Right(s) /\ IsFiniteSet(s)
    BY FS_Subset
  <2>3. \A t \in SUBSET s : t # s => Right(t)
    BY <2>1, <2>2
  <2>4. CASE s = {}
    BY <2>2, <2>4, SumEmpty
  <2>5. CASE s # {}
    <3> DEFINE y == Some(s)
    <3>1. y \in s /\ Sum(f, s) = f[y] + Sum(f, s \ {y})
      BY <2>2, <2>5, SomeIn, SumOfSome
    <3>2. Sum(f, s \ {y}) \in Nat /\ f[y] \in Nat
      <4>1. s \ {y} \in SUBSET s /\ s \ {y} # s /\ y \in S
        BY <2>2, <3>1
      <4> QED BY <2>3, <4>1
    <3>3. ASSUME NEW x \in s, x # y PROVE Sum(f, s) = f[x] + Sum(f, s \ {x})
      <4> DEFINE r == s \ {x, y}
      <4>1. Sum(f, s \ {y}) = f[x] + Sum(f, r)
        <5>1. Right(s \ {y}) /\ x \in s \ {y} /\ (s \ {y}) \ {x} = r
          BY <2>3, <3>1, <3>3
        <5> HIDE DEF r
        <5> QED BY <5>1
      <4>2. Sum(f, s \ {x}) = f[y] + Sum(f, r)
        <5>1. Right(s \ {x}) /\ y \in s \ {x} /\ (s \ {x}) \ {y} = r
          BY <2>3, <3>1, <3>3
        <5> HIDE DEF r
        <5> QED BY <5>1
      <4>3. Sum(f, r) \in Nat /\ f[x] \in Nat
        <5>1. r \in SUBSET s /\ r # s /\ x \in S
          BY <2>2
        <5> HIDE DEF r
        <5> QED BY <2>3, <5>1
      <4> HIDE DEF r, y
      <4> QED BY <3>1, <3>2, <4>1, <4>2, <4>3
    <3>4. Right(s)
      <4> HIDE DEF y
      <4> QED BY <3>1, <3>2, <3>3
    <3> QED BY <2>2, <3>4
  <2> QED BY <2>4, <2>5
<1>2. Right(S) /\ \A x \in S : Right(S \ {x})
  <2>1. \A s \in SUBSET S : Right(s)
    BY <1>1
  <2> HIDE DEF Right
  <2> QED BY <2>1
<1> QED BY <1>2

LEMMA SumAdd ==
    ASSUME NEW f, NEW S, IsFiniteSet(S), NEW x, x \notin S,
           \A y \in S \cup {x} : f[y] \in Nat
    PROVE  Sum(f, S \cup {x}) = f[x] + Sum(f, S)
<1>1. IsFiniteSet(S \cup {x}) /\ (S \cup {x}) \ {x} = S /\ x \in S \cup {x}
  BY FS_AddElement
<1> QED BY <1>1, SumRemove

(* What holds of the sum over the empty set, and of a sum when it holds of *)
(* all smaller ones, holds: the form in which the lemmas below use it.     *)
LEMMA SmallestFails ==
    ASSUME NEW S, IsFiniteSet(S), NEW Q \in SUBSET SUBSET S, {} \notin Q, Q # {}
    PROVE  \E s \in Q : \E x \in s :
              s \in SUBSET S /\ s \ {x} \notin Q /\ IsFiniteSet(s) /\ IsFiniteSet(s \ {x})
<1>1. PICK s \in Q : \A t \in SUBSET s : t # s => t \notin Q
  BY SmallestSubset
<1>2. PICK x \in s : TRUE
  OBVIOUS
<1>3. IsFiniteSet(s) /\ IsFiniteSet(s \ {x})
  BY FS_Subset
<1> QED BY <1>1, <1>2, <1>3

LEMMA SumMonotone ==
    ASSUME NEW S, IsFiniteSet(S), NEW f, NEW g,
           \A x \in S : f[x] \in Nat /\ g[x] \in Nat /\ f[x] <= g[x]
    PROVE  Sum(f, S) <= Sum(g, S)
<1> DEFINE Q == {s \in SUBSET S : ~(Sum(f, s) <= Sum(g, s))}
<1> SUFFICES ASSUME Q # {} PROVE FALSE
  OBVIOUS
<1>1. {} \notin Q
  BY SumEmpty
<1>2. PICK s \in Q : \E x \in s :
        s \in SUBSET S /\ s \ {x} \notin Q /\ IsFiniteSet(s) /\ IsFiniteSet(s \ {x})
  <2> HIDE DEF Q
  <2>1. Q \in SUBSET SUBSET S
    BY DEF Q
  <2> QED BY <1>1, <2>1, SmallestFails
<1>3. PICK x \in s :
        s \in SUBSET S /\ s \ {x} \notin Q /\ IsFiniteSet(s) /\ IsFiniteSet(s \ {x})
  BY <1>2
<1>4. Sum(f, s \ {x}) <= Sum(g, s \ {x})
  BY <1>3
<1>5. /\ Sum(f, s) = f[x] + Sum(f, s \ {x}) /\ Sum(f, s \ {x}) \in Nat
      /\ Sum(g, s) = g[x] + Sum(g, s \ {x}) /\ Sum(g, s \ {x}) \in Nat
  BY <1>3, SumRemove
<1>6. f[x] \in Nat /\ g[x] \in Nat /\ f[x] <= g[x]
  BY <1>3
<1>7. ~(Sum(f, s) <= Sum(g, s))
  OBVIOUS
<1> QED BY <1>4, <1>5, <1>6, <1>7

LEMMA SumSame ==
    ASSUME NEW S, IsFiniteSet(S), NEW f, NEW g, \A x \in S : f[x] \in Nat /\ f[x] = g[x]
    PROVE  Sum(f, S) = Sum(g, S)
<1>1. Sum(f, S) <= Sum(g, S) /\ Sum(g, S) <= Sum(f, S)
  BY SumMonotone
<1>2. Sum(f, S) \in Nat /\ Sum(g, S) \in Nat
  BY SumRemove
<1> QED BY <1>1, <1>2

LEMMA SumMember ==
    ASSUME NEW S, IsFiniteSet(S), NEW f, \A x \in S : f[x] \in Nat
    PROVE  \A x \in S : f[x] <= Sum(f, S)
<1>1. \A y \in S : Sum(f, S \ {y}) \in Nat /\ Sum(f, S) = f[y] + Sum(f, S \ {y})
  BY SumRemove
<1> TAKE x \in S
<1>2. /\ Sum(f, S \ {x}) \in Nat /\ f[x] \in Nat
      /\ Sum(f, S) = f[x] + Sum(f, S \ {x})
  BY <1>1
<1> QED BY <1>2

LEMMA SumTogether ==
    ASSUME NEW S, IsFiniteSet(S), NEW f, NEW g, NEW h,
           \A x \in S : f[x] \in Nat /\ g[x] \in Nat /\ h[x] = f[x] + g[x]
    PROVE  Sum(h, S) = Sum(f, S) + Sum(g, S)
<1> DEFINE Q == {s \in SUBSET S : Sum(h, s) # Sum(f, s) + Sum(g, s)}
<1> SUFFICES ASSUME Q # {} PROVE FALSE
  OBVIOUS
<1>1. {} \notin Q
  BY SumEmpty
<1>2. PICK s \in Q : \E x \in s :
        s \in SUBSET S /\ s \ {x} \notin Q /\ IsFiniteSet(s) /\ IsFiniteSet(s \ {x})
  <2> HIDE DEF Q
  <2>1. Q \in SUBSET SUBSET S
    BY DEF Q
  <2> QED BY <1>1, <2>1, SmallestFails
<1>3. PICK x \in s :
        s \in SUBSET S /\ s \ {x} \notin Q /\ IsFiniteSet(s) /\ IsFiniteSet(s \ {x})
  BY <1>2
<1>4. Sum(h, s \ {x}) = Sum(f, s \ {x}) + Sum(g, s \ {x})
  BY <1>3
<1>5. /\ Sum(f, s) = f[x] + Sum(f, s \ {x}) /\ Sum(f, s \ {x}) \in Nat
      /\ Sum(g, s) = g[x] + Sum(g, s \ {x}) /\ Sum(g, s \ {x}) \in Nat
      /\ Sum(h, s) = h[x] + Sum(h, s \ {x}) /\ Sum(h, s \ {x}) \in Nat
  <2>1. \A y \in s : f[y] \in Nat /\ g[y] \in Nat /\ h[y] \in Nat
    BY <1>3
  <2> QED BY <1>3, <2>1, SumRemove
<1>6. f[x] \in Nat /\ g[x] \in Nat /\ h[x] = f[x] + g[x]
  BY <1>3
<1>7. Sum(h, s) # Sum(f, s) + Sum(g, s)
  OBVIOUS
<1> QED BY <1>4, <1>5, <1>6, <1>7

(* A value that changes for one element.                                   *)
LEMMA SumChange ==
    ASSUME NEW S, IsFiniteSet(S), NEW f, NEW g, NEW x \in S, f[x] \in Nat, g[x] \in Nat,
           \A y \in S \ {x} : f[y] \in Nat /\ g[y] = f[y]
    PROVE  /\ Sum(f, S) \in Nat /\ Sum(g, S) \in Nat
           /\ Sum(g, S) + f[x] = Sum(f, S) + g[x]
<1>1. IsFiniteSet(S \ {x})
  BY FS_Subset
<1>2. Sum(f, S \ {x}) = Sum(g, S \ {x})
  BY <1>1, SumSame
<1>3. \A y \in S : f[y] \in Nat /\ g[y] \in Nat
  OBVIOUS
<1>4. /\ Sum(f, S) \in Nat /\ Sum(g, S) \in Nat /\ Sum(f, S \ {x}) \in Nat
      /\ Sum(f, S) = f[x] + Sum(f, S \ {x}) /\ Sum(g, S) = g[x] + Sum(g, S \ {x})
  BY <1>3, SumRemove
<1> QED BY <1>2, <1>4

LEMMA Double ==
    ASSUME NEW a \in Nat, a + a = a PROVE a = 0
OBVIOUS

LEMMA SumZero ==
    ASSUME NEW S, IsFiniteSet(S), NEW f, \A x \in S : f[x] = 0
    PROVE  Sum(f, S) = 0
<1>1. \A x \in S : f[x] \in Nat /\ f[x] = f[x] + f[x]
  OBVIOUS
<1>2. Sum(f, S) = Sum(f, S) + Sum(f, S)
  BY <1>1, SumTogether
<1>3. Sum(f, S) \in Nat
  BY <1>1, SumRemove
<1> QED BY <1>2, <1>3, Double

(* Rows and columns.                                                       *)
LEMMA SumSwap ==
    ASSUME NEW S, IsFiniteSet(S), NEW T, IsFiniteSet(T), NEW F,
           \A t \in T : \A x \in S : F[t][x] \in Nat
    PROVE  Sum([x \in S |-> Sum([t \in T |-> F[t][x]], T)], S)
             = Sum([t \in T |-> Sum(F[t], S)], T)
<1> DEFINE col(x) == [t \in T |-> F[t][x]]
           cols == [x \in S |-> Sum(col(x), T)]
           rows(s) == [t \in T |-> Sum(F[t], s)]
           Q == {s \in SUBSET S : Sum(cols, s) # Sum(rows(s), T)}
<1> SUFFICES ASSUME Q # {} PROVE FALSE
  OBVIOUS
<1>1. \A x \in S : Sum(col(x), T) \in Nat /\ cols[x] = Sum(col(x), T)
  <2> TAKE x \in S
  <2>1. \A t \in T : col(x)[t] \in Nat
    OBVIOUS
  <2>2. Sum(col(x), T) \in Nat
    <3> HIDE DEF col
    <3> QED BY <2>1, SumRemove
  <2> QED BY <2>2
<1>2. ASSUME NEW s \in SUBSET S
      PROVE  \A t \in T : rows(s)[t] = Sum(F[t], s) /\ rows(s)[t] \in Nat
  <2> TAKE t \in T
  <2>1. IsFiniteSet(s) /\ \A x \in s : F[t][x] \in Nat
    BY FS_Subset
  <2>2. Sum(F[t], s) \in Nat
    BY <2>1, SumRemove
  <2> QED BY <2>2
<1>3. {} \notin Q
  <2>1. \A t \in T : rows({})[t] = 0
    BY SumEmpty
  <2>2. Sum(rows({}), T) = 0
    <3> HIDE DEF rows
    <3> QED BY <2>1, SumZero
  <2> HIDE DEF rows, cols
  <2> QED BY <2>2, SumEmpty
<1>4. PICK s \in Q : \E x \in s :
        s \in SUBSET S /\ s \ {x} \notin Q /\ IsFiniteSet(s) /\ IsFiniteSet(s \ {x})
  <2> HIDE DEF Q
  <2>1. Q \in SUBSET SUBSET S
    BY DEF Q
  <2> QED BY <1>3, <2>1, SmallestFails
<1>5. PICK x \in s :
        s \in SUBSET S /\ s \ {x} \notin Q /\ IsFiniteSet(s) /\ IsFiniteSet(s \ {x})
  BY <1>4
<1> DEFINE r == s \ {x}
<1>6. r \in SUBSET S /\ x \in S
  BY <1>5
<1>7. Sum(cols, r) = Sum(rows(r), T)
  <2> HIDE DEF cols, rows
  <2> QED BY <1>5, <1>6
<1>8. Sum(cols, s) = cols[x] + Sum(cols, r) /\ Sum(cols, r) \in Nat
  <2>1. \A y \in s : cols[y] \in Nat
    BY <1>1, <1>5
  <2>2. IsFiniteSet(s) /\ x \in s
    BY <1>5
  <2> HIDE DEF cols, rows, col, Q, r
  <2>3. \A y \in s : Sum(cols, s \ {y}) \in Nat /\ Sum(cols, s) = cols[y] + Sum(cols, s \ {y})
    BY <2>1, <2>2, SumRemove
  <2> QED BY <2>2, <2>3 DEF r
<1>9. \A t \in T : /\ rows(s)[t] = col(x)[t] + rows(r)[t]
                   /\ col(x)[t] \in Nat /\ rows(r)[t] \in Nat
  <2> TAKE t \in T
  <2>1. Sum(F[t], s) = F[t][x] + Sum(F[t], r)
    <3>1. s \in SUBSET S /\ IsFiniteSet(s) /\ x \in s
      BY <1>5
    <3>2. \A y \in s : F[t][y] \in Nat
      BY <3>1
    <3>3. \A y \in s : Sum(F[t], s) = F[t][y] + Sum(F[t], s \ {y})
      BY <3>1, <3>2, SumRemove
    <3> QED BY <3>1, <3>3
  <2>2. rows(r)[t] = Sum(F[t], r) /\ rows(r)[t] \in Nat /\ rows(s)[t] = Sum(F[t], s)
    BY <1>2, <1>5, <1>6
  <2>3. col(x)[t] = F[t][x] /\ F[t][x] \in Nat
    BY <1>6
  <2> HIDE DEF rows, col, r
  <2> QED BY <2>1, <2>2, <2>3
<1>10. Sum(rows(s), T) = Sum(col(x), T) + Sum(rows(r), T)
  <2> HIDE DEF rows, col, r
  <2> QED BY <1>9, SumTogether
<1>11. Sum(cols, s) # Sum(rows(s), T)
  <2> HIDE DEF rows, cols
  <2> QED BY <1>4
<1>12. cols[x] = Sum(col(x), T)
  BY <1>1, <1>6
<1> HIDE DEF rows, cols, col, r
<1> QED BY <1>7, <1>8, <1>10, <1>11, <1>12

-----------------------------------------------------------------------------
(* The largest element.                                                    *)

LEMMA MaxOfBounded ==
    ASSUME NEW n \in Nat, NEW S \in SUBSET (0 .. n), S # {}
    PROVE  Max(S) \in S /\ \A x \in S : Max(S) >= x
<1> DEFINE T == {n - x : x \in S}
<1>1. T \in SUBSET Nat /\ T # {}
  <2>1. \A x \in S : n - x \in Nat
    OBVIOUS
  <2> QED BY <2>1
<1>2. PICK y \in T : \A z \in T : y <= z
  <2> HIDE DEF T
  <2> QED BY <1>1, LeastNumber
<1>3. PICK m \in S : y = n - m
  BY <1>2
<1>4. \A x \in S : m >= x
  <2> TAKE x \in S
  <2>1. y <= n - x
    BY <1>2
  <2> QED BY <2>1, <1>3
<1> QED BY <1>4 DEF Max

(* A finite set of numbers has a bound.                                    *)
LEMMA MaxOfFinite ==
    ASSUME NEW S \in SUBSET Nat, IsFiniteSet(S), S # {}
    PROVE  Max(S) \in S /\ \A x \in S : Max(S) >= x
<1> DEFINE f == [x \in S |-> x]
           n == Sum(f, S)
<1>1. \A x \in S : f[x] \in Nat /\ f[x] = x
  OBVIOUS
<1>2. n \in Nat /\ \A x \in S : x <= n
  <2> HIDE DEF f
  <2> QED BY <1>1, SumRemove, SumMember
<1>3. S \in SUBSET (0 .. n)
  <2> HIDE DEF n
  <2> QED BY <1>2
<1> HIDE DEF n
<1> QED BY <1>2, <1>3, MaxOfBounded
=============================================================================
