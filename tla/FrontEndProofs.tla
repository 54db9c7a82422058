--------------------------- MODULE FrontEndProofs ---------------------------
(***************************************************************************)
(* Theorems about the front end: the graph of the Funcs a program defines, *)
(* and the cache of the code that a Pipeline compiles from such a graph.   *)
(***************************************************************************)
EXTENDS FuncGraph, JitPipeline, SetSums, TLAPS

-----------------------------------------------------------------------------
(***************************************************************************)
(* The graph of Funcs is sound for every number of Funcs, wrappers,        *)
(* dimensions, updates and calls, as long as an extern definition is given *)
(* only finished Funcs, which the code leaves to the author (Unchecked is  *)
(* empty).                                                                 *)
(*                                                                         *)
(* The argument is that of the code: a Func that is called is defined and  *)
(* frozen, and one that is frozen and defined keeps its values.  A wrapper *)
(* or clone is a Func that nothing has called yet, and frozen when it is   *)
(* used, also a clone of a Func without a definition, which can only get   *)
(* one that calls nothing.  That no Func depends on itself after lowering  *)
(* follows from an order of the Funcs, which the last part gives.          *)
(***************************************************************************)

CallMaps == UNION {[C -> 0 .. MaxDims] : C \in SUBSET Names}
DefType == [calls : CallMaps, used : 0 .. MaxDims, bound : 0 .. MaxDims, early : SUBSET Names]
Keyed == Names \cup {Global}
MadeType == [of : Names, clone : BOOLEAN, asked : SUBSET Keyed, askedClone : BOOLEAN,
             taken : {"undefined", "open", "final"}]

GraphType ==
    /\ kind \in [Names -> {"undefined", "pure", "extern"}]
    /\ dims \in [Names -> 0 .. MaxDims]
    /\ pure \in [Names -> DefType]
    /\ updates \in [Names -> Seq(DefType)]
    /\ frozen \in [Names -> BOOLEAN]
    /\ made \in [DOMAIN made -> MadeType] /\ DOMAIN made \subseteq WrapperFuncs
    /\ DOMAIN wrappers = Names
    /\ \A f \in Names : /\ wrappers[f] \in [DOMAIN wrappers[f] -> DOMAIN made]
                          /\ DOMAIN wrappers[f] \subseteq Keyed
    /\ piped \subseteq Names /\ calls \in 0 .. MaxCalls

(* What is called is defined, and called as it is defined unless by a      *)
(* reference that is older.                                                *)
Sound(d) == /\ \A c \in DOMAIN d.calls : Defined(c) /\ (c \notin d.early => d.calls[c] = dims[c])
            /\ d.early \subseteq DOMAIN d.calls /\ d.used <= d.bound
SoundFunc(g) == Sound(pure[g]) /\ \A i \in DOMAIN updates[g] : Sound(updates[g][i])
Blank(g) == ~Defined(g) => DOMAIN pure[g].calls = {} /\ updates[g] = <<>>
DefsInv == \A g \in Names : SoundFunc(g) /\ Blank(g)

(* What another Func or a pipeline uses is frozen.                         *)
UsedFrozen(g) == \A c \in Callees(g) \ {g} : frozen[c]
UsedInv == /\ \A g \in Names : UsedFrozen(g)
           /\ \A f \in piped : frozen[f]

(* The next wrapper is a Func that nobody knows.                           *)
FreshInv == \A w \in WrapperFuncs \ DOMAIN made : ~Defined(w) /\ ~frozen[w]

(* Who uses a wrapper.  The global one has no caller of its own.           *)
WrapInv ==
    /\ \A f \in Names : \A g \in DOMAIN wrappers[f] :
         /\ made[wrappers[f][g]].of = f /\ frozen[wrappers[f][g]]
         /\ Global \in DOMAIN wrappers[f] /\ g # Global => wrappers[f][g] # wrappers[f][Global]
    /\ \A w \in Returned : frozen[w]
    /\ WrapperNotShared

Finished(f) == Defined(f) /\ frozen[f]
Copied(w) == made[w].clone /\ made[w].taken # "undefined"
CloneInv ==
    /\ \A w \in DOMAIN made : Copied(w) =>
         /\ Defined(w) /\ Defined(made[w].of)
         /\ made[w].taken = "final" => frozen[made[w].of]
    /\ CloneIsCopy

GraphInv == GraphType /\ DefsInv /\ UsedInv /\ FreshInv /\ WrapInv /\ CloneInv

-----------------------------------------------------------------------------
(* What the helpers return.                                                *)

LEMMA NamesKnown ==
    ASSUME GraphType PROVE Known \subseteq Names
BY DEF GraphType, Known, Returned, Names

LEMMA FreshUnknown ==
    ASSUME GraphType, NEW w \in WrapperFuncs \ DOMAIN made PROVE w \notin Known /\ w \in Names
BY NamesAssumption DEF GraphType, Known, Returned, Names

LEMMA ImplicitNat ==
    ASSUME GraphType, NEW s \in Statement
    PROVE  CountImplicitVars(s) \in 0 .. MaxDims
<1> DEFINE S == {0} \cup {dims[c] : c \in s.callees}
<1>1. s.callees \subseteq Names
  BY NamesKnown DEF Statement
<1>2. S \in SUBSET (0 .. MaxDims) /\ S # {}
  BY <1>1, BoundsAssumption DEF GraphType
<1>3. Max(S) \in S
  <2> HIDE DEF S
  <2> QED BY <1>2, MaxOfBounded, BoundsAssumption
<1> QED BY <1>2, <1>3, BoundsAssumption DEF CountImplicitVars

LEMMA StatementFields ==
    ASSUME GraphType, NEW s \in Statement
    PROVE  /\ s.explicit \in 0 .. MaxDims /\ s.placeholder \in BOOLEAN
           /\ s.callees \subseteq Known /\ s.callees \subseteq Names
BY NamesKnown DEF Statement

(* What a statement adds to the definitions of a Func.                     *)
LEMMA AddedType ==
    ASSUME GraphType, NEW f, NEW s \in Statement, NEW C, C \subseteq Names, CanCall(C),
           NEW b \in 0 .. MaxDims, CountImplicitVars(s) <= b, NEW d \in DefinitionsOf(f, s, C, b)
    PROVE  /\ d \in DefType /\ d.used <= d.bound /\ DOMAIN d.calls = C /\ d.early \subseteq C
           /\ \A c \in C : Defined(c) /\ (c \notin d.early => d.calls[c] = dims[c])
<1> DEFINE n == CountImplicitVars(s)
<1>0. PICK E \in EarlyRefs(C) :
        \E a \in CallsOf(f, C, E) : d = [calls |-> a, used |-> n, bound |-> b, early |-> E]
  BY DEF DefinitionsOf
<1>1. PICK a \in CallsOf(f, C, E) : d = [calls |-> a, used |-> n, bound |-> b, early |-> E]
  BY <1>0
<1>2. n \in 0 .. MaxDims /\ n <= b
  BY ImplicitNat
<1>3. /\ a \in [C -> 0 .. MaxDims] /\ E \subseteq C
      /\ \A c \in C : c \notin E => a[c] = dims[c]
  BY DEF CallsOf, EarlyRefs
<1>4. a \in CallMaps
  BY <1>3 DEF CallMaps
<1> HIDE DEF n
<1>5. d.calls = a /\ d.used = n /\ d.bound = b /\ d.early = E /\ d \in DefType
  BY <1>1, <1>2, <1>3, <1>4 DEF DefType
<1> QED BY <1>2, <1>3, <1>5 DEF CanCall

LEMMA ExpandedType ==
    ASSUME GraphType, NEW s \in Statement, ImplicitOnLeft(s), ExpandedDims(s) <= MaxDims
    PROVE  /\ ExpandedDims(s) \in 0 .. MaxDims /\ Expanded(s) \in 0 .. MaxDims
           /\ CountImplicitVars(s) <= Expanded(s)
<1> DEFINE n == CountImplicitVars(s)
<1>1. n \in 0 .. MaxDims /\ s.explicit \in 0 .. MaxDims /\ s.placeholder \in BOOLEAN
  BY ImplicitNat, StatementFields
<1>2. n > 0 => s.placeholder
  BY DEF ImplicitOnLeft
<1>3. ExpandedDims(s) = s.explicit + (IF s.placeholder THEN n ELSE 0)
  BY DEF ExpandedDims
<1> HIDE DEF n
<1>4. Expanded(s) = IF s.placeholder THEN n ELSE 0
  BY <1>1, <1>3 DEF Expanded
<1> QED BY <1>1, <1>2, <1>3, <1>4, BoundsAssumption DEF n

LEMMA CalleesOf ==
    ASSUME GraphType, NEW g \in Names, NEW c \in Callees(g)
    PROVE  c \in Names
<1>1. /\ pure[g] \in DefType /\ \A i \in DOMAIN updates[g] : updates[g][i] \in DefType
  BY DEF GraphType
<1>2. \A d \in DefType : DOMAIN d.calls \subseteq Names
  BY DEF DefType, CallMaps
<1> QED BY <1>1, <1>2 DEF Callees

-----------------------------------------------------------------------------
(* A statement writes one Func, which nobody relies on yet.                *)

Kept(g) == /\ kind'[g] = kind[g] /\ dims'[g] = dims[g]
           /\ pure'[g] = pure[g] /\ updates'[g] = updates[g]

(* Nothing that a Func has is changed, and it may have got more updates.    *)
Grew(g) ==
    /\ Defined(g)' /\ dims'[g] = dims[g] /\ pure'[g] = pure[g]
    /\ Len(updates[g]) <= Len(updates'[g])
    /\ \A i \in DOMAIN updates[g] : updates'[g][i] = updates[g][i]

Written(f) ==
    /\ f \in Known /\ ~Finished(f)
    /\ GraphType'
    /\ \A g \in Names \ {f} : Kept(g)
    /\ Defined(f) => Grew(f)
    /\ \A g \in Names : frozen[g] => frozen'[g]
    /\ \A w \in WrapperFuncs \ DOMAIN made : ~frozen'[w]
    /\ SoundFunc(f)' /\ UsedFrozen(f)' /\ Blank(f)'
    /\ f \in DOMAIN made => Callees(f)' = {}
    /\ made' = made /\ wrappers' = wrappers /\ piped' = piped

(* A Func that was returned by in() or clone_in() is frozen.               *)
LEMMA OpenIsNew ==
    ASSUME GraphInv, NEW f \in Known, ~frozen[f] PROVE f \notin DOMAIN made
BY NamesAssumption DEF GraphInv, GraphType, WrapInv, Known

LEMMA MadeKnown ==
    ASSUME GraphInv, NEW f \in Known, f \in DOMAIN made PROVE f \in Returned
BY NamesAssumption DEF GraphInv, GraphType, Known

(* Definitions that are not written stay as sound as they were.            *)
LEMMA SoundKept ==
    ASSUME GraphType, NEW g \in Names, SoundFunc(g), pure'[g] = pure[g], updates'[g] = updates[g],
           \A c \in Names : Defined(c) => Defined(c)' /\ dims'[c] = dims[c]
    PROVE  SoundFunc(g)'
<1>1. \A c \in Callees(g) : c \in Names
  BY CalleesOf
<1> QED BY <1>1 DEF SoundFunc, Sound, Callees

(* What CloneInv says of one clone.                                        *)
CopyOf(f, w, taken) ==
    /\ Defined(w) /\ Defined(f) /\ (taken = "final" => frozen[f])
    /\ dims[w] = dims[f]
    /\ pure[w].calls = Cloned(pure[f], f, w).calls
    /\ Len(updates[w]) <= Len(updates[f])
    /\ taken = "final" => Len(updates[w]) = Len(updates[f])
    /\ \A i \in DOMAIN updates[w] : updates[w][i].calls = Cloned(updates[f][i], f, w).calls

LEMMA CopiesOf ==
    ASSUME GraphType, CloneInv, NEW w \in DOMAIN made, Copied(w)
    PROVE  made[w].of \in Names /\ CopyOf(made[w].of, w, made[w].taken)
<1>1. made[w].of \in Names
  BY DEF GraphType, MadeType
<1> QED BY <1>1 DEF CloneInv, CloneIsCopy, CopyOf, Copied

LEMMA CopiesAfter ==
    ASSUME \A w \in DOMAIN made' : Copied(w)' => CopyOf(made[w].of, w, made[w].taken)'
    PROVE  CloneInv'
BY DEF CloneInv, CloneIsCopy, CopyOf, Copied, Defined, Cloned

LEMMA CloneKept ==
    ASSUME CloneInv, GraphType, GraphType', made' = made,
           \A g \in Names : Defined(g) => Grew(g),
           \A g \in Names : Finished(g) => Finished(g)' /\ updates'[g] = updates[g],
           \A w \in DOMAIN made : Defined(w) => updates'[w] = updates[w]
    PROVE  CloneInv'
<1>1. ASSUME NEW w \in DOMAIN made, Copied(w)
      PROVE  CopyOf(made[w].of, w, made[w].taken)'
  <2>1. PICK f, k : f = made[w].of /\ k = made[w].taken
    OBVIOUS
  <2>2. w \in Names /\ f \in Names /\ CopyOf(f, w, k)
    BY <1>1, <2>1, CopiesOf DEF GraphType, Names
  <2>3. Grew(w) /\ Grew(f) /\ updates'[w] = updates[w]
    BY <2>2 DEF CopyOf
  <2>4. /\ updates[w] \in Seq(DefType) /\ updates[f] \in Seq(DefType)
        /\ updates'[f] \in Seq(DefType)
    BY <2>2 DEF GraphType
  <2>5. k = "final" => frozen'[f] /\ updates'[f] = updates[f]
    BY <2>2 DEF CopyOf, Finished
  <2>6. \A i \in DOMAIN updates'[w] : i \in DOMAIN updates[f] /\ updates'[f][i] = updates[f][i]
    BY <2>2, <2>3, <2>4 DEF CopyOf, Grew
  <2>8. Len(updates'[w]) <= Len(updates'[f])
    BY <2>2, <2>3, <2>4 DEF CopyOf, Grew
  <2>9. \A i \in DOMAIN updates'[w] :
           updates'[w][i].calls = Cloned(updates'[f][i], f, w).calls
    BY <2>2, <2>3, <2>6 DEF CopyOf
  <2>10. /\ Defined(w)' /\ Defined(f)' /\ dims'[w] = dims'[f]
         /\ pure'[w].calls = Cloned(pure'[f], f, w).calls
    BY <2>2, <2>3 DEF CopyOf, Grew
  <2>11. k = "final" => Len(updates'[w]) = Len(updates'[f])
    BY <2>2, <2>3, <2>5 DEF CopyOf
  <2>12. CopyOf(f, w, k)'
    BY <2>5, <2>8, <2>9, <2>10, <2>11 DEF CopyOf, Cloned
  <2> QED BY <2>1, <2>12
<1> QED BY <1>1, CopiesAfter DEF Copied

LEMMA WrittenKeeps ==
    ASSUME GraphInv, NEW f, Written(f)
    PROVE  GraphInv'
<1> USE DEF GraphInv
<1>1. f \in Names
  BY NamesKnown DEF Written
<1>0. \A g \in Names : Defined(g) => Grew(g)
  <2>1. \A g \in Names \ {f} : updates[g] \in Seq(DefType) /\ Kept(g)
    BY DEF Written, GraphType
  <2> QED BY <2>1 DEF Written, Kept, Grew, Defined
<1>2. \A c \in Names : Defined(c) => Defined(c)' /\ dims'[c] = dims[c]
  BY <1>0 DEF Grew
<1>3. DefsInv'
  <2>1. ASSUME NEW g \in Names \ {f} PROVE SoundFunc(g)' /\ Blank(g)'
    <3>1. Kept(g) /\ SoundFunc(g) /\ Blank(g)
      BY DEF Written, DefsInv
    <3> QED BY <1>2, <3>1, SoundKept DEF Kept, Blank, Defined
  <2> QED BY <2>1 DEF DefsInv, Written
<1>4. UsedInv'
  <2>1. ASSUME NEW g \in Names \ {f} PROVE UsedFrozen(g)'
    <3>1. Callees(g)' = Callees(g)
      BY DEF Written, Kept, Callees
    <3> QED BY <3>1, CalleesOf DEF UsedInv, UsedFrozen, Written
  <2> QED BY <2>1 DEF UsedInv, Written, GraphType
<1>5. FreshInv'
  BY FreshUnknown DEF FreshInv, Written, Kept, Defined
<1>6. WrapInv'
  <2>1. Returned' = Returned /\ Returned \subseteq Names
    BY DEF Written, Returned, GraphType, Names
  <2>2. \A h \in Names : \A g \in DOMAIN wrappers[h] : frozen'[wrappers[h][g]]
    BY DEF WrapInv, Written, GraphType, Names
  <2> QED BY <2>1, <2>2 DEF WrapInv, WrapperNotShared, Sharers, Written
<1>7. CloneInv'
  <2>1. \A g \in Names : Finished(g) => Finished(g)' /\ updates'[g] = updates[g]
    BY <1>0 DEF Written, Kept, Finished, Grew
  <2>2. ASSUME NEW w \in DOMAIN made, Defined(w) PROVE updates'[w] = updates[w]
    <3>1. w \in Names
      BY DEF GraphType, Names
    <3>2. CASE w = f
      <4>1. w \in Returned
        BY <3>2, MadeKnown DEF Written
      <4> QED BY <2>2, <3>2, <4>1 DEF WrapInv, Written, Finished
    <3>3. CASE w # f
      BY <3>1, <3>3 DEF Written, Kept
    <3> QED BY <3>2, <3>3
  <2> QED BY <1>0, <2>1, <2>2, CloneKept DEF Written
<1> QED BY <1>3, <1>4, <1>5, <1>6, <1>7 DEF Written

LEMMA FreezingFrozen ==
    ASSUME GraphType, FreshInv, NEW f, NEW C, C \subseteq Known, frozen' = FreezeFunctions(f, C)
    PROVE  /\ frozen' \in [Names -> BOOLEAN]
           /\ \A g \in Names : frozen[g] => frozen'[g]
           /\ \A c \in (C \cap Names) \ {f} : frozen'[c]
           /\ \A w \in WrapperFuncs \ DOMAIN made : ~frozen'[w]
<1>1. frozen' \in [Names -> BOOLEAN]
  BY DEF GraphType, FreezeFunctions
<1>2. \A w \in WrapperFuncs \ DOMAIN made : w \in Names /\ w \notin C
  BY FreshUnknown
<1> QED BY <1>1, <1>2 DEF GraphType, FreezeFunctions, FreshInv

(* What a statement adds to a Func is sound and freezes what it calls.     *)
Grown(d, C) == /\ DOMAIN d.calls \subseteq C
               /\ \A c \in DOMAIN d.calls :
                    Defined(c)' /\ (c \notin d.early => d.calls[c] = dims'[c])
               /\ d.early \subseteq DOMAIN d.calls /\ d.used <= d.bound

LEMMA AddedSound ==
    ASSUME GraphInv, NEW g \in Names, NEW C,
           \A c \in Names : Defined(c) => Defined(c)' /\ dims'[c] = dims[c]
                                           /\ (frozen[c] => frozen'[c]),
           \A c \in C \ {g} : frozen'[c],
           \A c \in Names : frozen[c] => frozen'[c],
           pure'[g] = pure[g] \/ Grown(pure'[g], C),
           \A i \in DOMAIN updates'[g] :
              \/ i \in DOMAIN updates[g] /\ updates'[g][i] = updates[g][i]
              \/ Grown(updates'[g][i], C)
    PROVE  SoundFunc(g)' /\ UsedFrozen(g)'
<1> USE DEF GraphInv
<1>1. \A c \in Callees(g) : c \in Names
  BY CalleesOf
<1>2. SoundFunc(g) /\ UsedFrozen(g)
  BY DEF DefsInv, UsedInv
<1>3. SoundFunc(g)'
  BY <1>1, <1>2 DEF SoundFunc, Sound, Callees, Grown
<1>4. Callees(g)' \subseteq Callees(g) \cup C
  BY DEF Callees, Grown
<1>5. UsedFrozen(g)'
  BY <1>1, <1>2, <1>4 DEF UsedFrozen
<1> QED BY <1>3, <1>5

LEMMA InitType ==
    ASSUME GraphType, NEW f \in Names, NEW s \in Statement, ExpandedDims(s) \in 0 .. MaxDims,
           NEW d \in DefType, InitDefinition(f, s, d)
    PROVE  /\ kind' \in [Names -> {"undefined", "pure", "extern"}]
           /\ dims' \in [Names -> 0 .. MaxDims] /\ pure' \in [Names -> DefType]
           /\ Defined(f)' /\ dims'[f] = ExpandedDims(s) /\ pure'[f] = d
           /\ \A g \in Names \ {f} : kind'[g] = kind[g] /\ dims'[g] = dims[g] /\ pure'[g] = pure[g]
BY DEF InitDefinition, GraphType, Defined

LEMMA DefineWrites ==
    ASSUME GraphInv, NEW f \in Names, Define(f)
    PROVE  Written(f)
<1> USE DEF GraphInv
<1>1. PICK s \in Statement :
        /\ CanDefine(f, s)
        /\ frozen' = FreezeFunctions(f, s.callees)
        /\ IF s.flaw = "late" THEN UNCHANGED <<kind, dims, pure>>
                              ELSE \E d \in DefinitionsOf(f, s, s.callees, Expanded(s)) :
                                     InitDefinition(f, s, d)
  BY DEF Define
<1>2. /\ f \in Known /\ calls' \in 0 .. MaxCalls /\ ~Defined(f) /\ ~frozen[f]
      /\ updates' = updates /\ wrappers' = wrappers /\ made' = made /\ piped' = piped
  BY BoundsAssumption DEF Define, Called, GraphType
<1>3. /\ s.callees \subseteq Known /\ s.callees \subseteq Names
      /\ CanCall(s.callees) /\ ImplicitOnLeft(s) /\ ExpandedDims(s) <= MaxDims
  BY <1>1, StatementFields DEF CanDefine
<1>4. /\ frozen' \in [Names -> BOOLEAN]
      /\ \A g \in Names : frozen[g] => frozen'[g]
      /\ \A c \in s.callees \ {f} : frozen'[c]
      /\ \A w \in WrapperFuncs \ DOMAIN made : ~frozen'[w]
  BY <1>1, <1>3, FreezingFrozen
<1>0. f \notin DOMAIN made
  BY <1>2, OpenIsNew
<1>5. CASE s.flaw = "late"
  <2>1. kind' = kind /\ dims' = dims /\ pure' = pure
    BY <1>1, <1>5
  <2>2. SoundFunc(f)' /\ UsedFrozen(f)'
    BY <1>2, <1>4, <2>1, AddedSound DEF Defined
  <2>3. GraphType'
    BY <1>2, <1>4, <2>1 DEF GraphType
  <2>4. Blank(f)'
    BY <1>2, <2>1 DEF DefsInv, Blank, Defined
  <2> QED BY <1>0, <1>2, <1>4, <2>1, <2>2, <2>3, <2>4 DEF Written, Kept, Finished, Defined
<1>6. CASE s.flaw # "late"
  <2>1. PICK d \in DefinitionsOf(f, s, s.callees, Expanded(s)) : InitDefinition(f, s, d)
    BY <1>1, <1>6
  <2>2. /\ ExpandedDims(s) \in 0 .. MaxDims /\ Expanded(s) \in 0 .. MaxDims
        /\ CountImplicitVars(s) <= Expanded(s)
    BY <1>3, ExpandedType
  <2>3. /\ d \in DefType /\ d.used <= d.bound /\ DOMAIN d.calls = s.callees /\ d.early \subseteq s.callees
        /\ \A c \in s.callees : Defined(c) /\ (c \notin d.early => d.calls[c] = dims[c])
    BY <1>3, <2>1, <2>2, AddedType
  <2>4. /\ kind' \in [Names -> {"undefined", "pure", "extern"}]
        /\ dims' \in [Names -> 0 .. MaxDims] /\ pure' \in [Names -> DefType]
        /\ Defined(f)' /\ pure'[f] = d
        /\ \A g \in Names \ {f} : kind'[g] = kind[g] /\ dims'[g] = dims[g] /\ pure'[g] = pure[g]
    BY <2>1, <2>2, <2>3, InitType
  <2>5. \A c \in Names : Defined(c) => c # f /\ Defined(c)' /\ dims'[c] = dims[c]
    BY <1>2, <2>4 DEF Defined
  <2>6. Grown(pure'[f], s.callees)
    BY <1>3, <2>3, <2>4, <2>5 DEF Grown
  <2>7. SoundFunc(f)' /\ UsedFrozen(f)'
    BY <1>2, <1>4, <2>5, <2>6, AddedSound
  <2>8. GraphType'
    BY <1>2, <1>4, <2>4 DEF GraphType
  <2>9. Blank(f)'
    BY <2>4 DEF Blank, Defined
  <2> QED BY <1>0, <1>2, <1>4, <2>4, <2>7, <2>8, <2>9 DEF Written, Kept, Finished
<1> QED BY <1>5, <1>6

LEMMA AppendWrites ==
    ASSUME GraphInv, NEW f \in Names, f \in Known, MayUpdate(f),
           NEW s \in Statement, NEW C, C \subseteq Known, AppendUpdate(f, s, C),
           calls' = calls + 1, calls < MaxCalls,
           UNCHANGED <<kind, dims, pure, wrappers, made, piped>>
    PROVE  Written(f)
<1> USE DEF GraphInv
<1> DEFINE n == CountImplicitVars(s)
           b == add_implicit_vars(f, s)
<1>1. /\ CanCall(C) /\ ArityFits(f, s) /\ n <= b /\ frozen' = FreezeFunctions(f, C)
  BY DEF AppendUpdate
<1>2. PICK d \in DefinitionsOf(f, s, C, b) : updates' = [updates EXCEPT ![f] = Append(updates[f], d)]
  BY DEF AppendUpdate
<1>3. C \subseteq Names
  BY NamesKnown
<1>5. b \in 0 .. MaxDims
  <2>1. dims[f] \in 0 .. MaxDims
    BY DEF GraphType
  <2>2. b = IF s.placeholder THEN dims[f] - s.explicit ELSE 0
    BY DEF add_implicit_vars
  <2>3. s.explicit = dims[f] \/ (s.placeholder /\ s.explicit <= dims[f])
    BY <1>1 DEF ArityFits
  <2>4. s.explicit \in 0 .. MaxDims
    BY StatementFields
  <2> HIDE DEF b
  <2> QED BY <2>1, <2>2, <2>3, <2>4, BoundsAssumption
<1>6. /\ d \in DefType /\ d.used <= d.bound /\ DOMAIN d.calls = C /\ d.early \subseteq C
      /\ \A c \in C : Defined(c) /\ (c \notin d.early => d.calls[c] = dims[c])
  BY <1>1, <1>2, <1>3, <1>5, AddedType
<1> HIDE DEF n, b
<1>8. /\ frozen' \in [Names -> BOOLEAN]
      /\ \A g \in Names : frozen[g] => frozen'[g]
      /\ \A c \in C \ {f} : frozen'[c]
      /\ \A w \in WrapperFuncs \ DOMAIN made : ~frozen'[w]
  BY <1>1, <1>3, FreezingFrozen
<1>9. /\ updates[f] \in Seq(DefType) /\ updates' \in [Names -> Seq(DefType)]
      /\ updates'[f] = Append(updates[f], d)
      /\ \A g \in Names \ {f} : updates'[g] = updates[g]
  BY <1>2, <1>6 DEF GraphType
<1>10. /\ \A i \in DOMAIN updates'[f] :
            (i \in DOMAIN updates[f] /\ updates'[f][i] = updates[f][i]) \/ updates'[f][i] = d
       /\ Len(updates[f]) <= Len(updates'[f])
       /\ \A i \in DOMAIN updates[f] : updates'[f][i] = updates[f][i]
  BY <1>6, <1>9
<1>11. Grown(d, C)
  BY <1>1, <1>6 DEF Grown, Defined
<1>12. SoundFunc(f)' /\ UsedFrozen(f)'
  BY <1>8, <1>10, <1>11, AddedSound DEF Defined
<1>13. GraphType'
  BY <1>8, <1>9, BoundsAssumption DEF GraphType
<1>14. Grew(f) /\ Blank(f)'
  BY <1>10 DEF Grew, Blank, Defined, MayUpdate
<1>15. f \notin DOMAIN made
  BY OpenIsNew DEF MayUpdate
<1> QED BY <1>8, <1>9, <1>12, <1>13, <1>14, <1>15 DEF Written, Kept, Finished, Defined, MayUpdate

LEMMA UpdateWrites ==
    ASSUME GraphInv, NEW f \in Names, Update(f) \/ Accumulate(f)
    PROVE  Written(f)
<1>1. f \in Known /\ MayUpdate(f) /\ calls' = calls + 1 /\ calls < MaxCalls
      /\ UNCHANGED <<kind, dims, pure, wrappers, made, piped>>
  BY DEF Update, Accumulate, Called
<1>2. PICK s \in Statement : AppendUpdate(f, s, s.callees) \/ AppendUpdate(f, s, s.callees \cup {f})
  BY DEF Update, Accumulate
<1>3. s.callees \subseteq Known /\ s.callees \cup {f} \subseteq Known
  BY <1>1, StatementFields DEF GraphInv
<1> QED BY <1>1, <1>2, <1>3, AppendWrites

LEMMA AccumulateFromBaseWrites ==
    ASSUME GraphInv, NEW f \in Names, AccumulateFromBase(f)
    PROVE  Written(f)
<1> USE DEF GraphInv
<1> DEFINE base(s) == [Nothing EXCEPT !.bound = Expanded(s)]
           m(s) == ExpandedDims(s)
<1>1. PICK s \in Statement :
        /\ CanDefine(f, s)
        /\ InitDefinition(f, s, base(s))
        /\ IF s.flaw = "stray_var"
             THEN UNCHANGED <<updates, frozen>>
             ELSE /\ \E d \in DefinitionsOf(f, s, s.callees, Expanded(s)) :
                       updates' = [updates EXCEPT ![f] =
                         <<[d EXCEPT !.calls = With(d.calls, OneCall(f, m(s)))]>>]
                  /\ frozen' = FreezeFunctions(f, s.callees)
  BY DEF AccumulateFromBase
<1>2. /\ f \in Known /\ calls' \in 0 .. MaxCalls /\ ~Defined(f) /\ ~frozen[f]
      /\ wrappers' = wrappers /\ made' = made /\ piped' = piped
  BY BoundsAssumption DEF AccumulateFromBase, Called, GraphType
<1>0. f \notin DOMAIN made
  BY <1>2, OpenIsNew
<1>3. /\ s.callees \subseteq Known /\ s.callees \subseteq Names
      /\ CanCall(s.callees) /\ ImplicitOnLeft(s) /\ m(s) <= MaxDims
  BY <1>1, StatementFields DEF CanDefine
<1>4. /\ m(s) \in 0 .. MaxDims /\ Expanded(s) \in 0 .. MaxDims
      /\ CountImplicitVars(s) <= Expanded(s)
  BY <1>3, ExpandedType
<1>5. PICK b : b = base(s)
  OBVIOUS
<1>6. b \in DefType /\ DOMAIN b.calls = {} /\ b.early = {} /\ b.used <= b.bound
  <2>1. b = [calls |-> NoCalls, used |-> 0, bound |-> Expanded(s), early |-> {}]
    BY <1>5 DEF Nothing
  <2>2. NoCalls \in CallMaps /\ DOMAIN NoCalls = {}
    <3>1. NoCalls \in [{} -> 0 .. MaxDims]
      BY DEF NoCalls
    <3> QED BY <3>1 DEF CallMaps, NoCalls
  <2> QED BY <1>4, <2>1, <2>2, BoundsAssumption DEF DefType
<1>7. /\ kind' \in [Names -> {"undefined", "pure", "extern"}]
      /\ dims' \in [Names -> 0 .. MaxDims] /\ pure' \in [Names -> DefType]
      /\ Defined(f)' /\ dims'[f] = m(s) /\ pure'[f] = b
      /\ \A g \in Names \ {f} : kind'[g] = kind[g] /\ dims'[g] = dims[g] /\ pure'[g] = pure[g]
  BY <1>1, <1>4, <1>5, <1>6, InitType
<1> HIDE DEF base
<1>8. \A c \in Names : Defined(c) => c # f /\ Defined(c)' /\ dims'[c] = dims[c]
  BY <1>2, <1>7 DEF Defined
<1>9. Grown(pure'[f], {})
  BY <1>6, <1>7 DEF Grown
<1>10. CASE s.flaw = "stray_var"
  <2>1. updates' = updates /\ frozen' = frozen
    BY <1>1, <1>10
  <2>2. SoundFunc(f)' /\ UsedFrozen(f)'
    BY <1>8, <1>9, <2>1, AddedSound
  <2>3. GraphType'
    BY <1>2, <1>7, <2>1 DEF GraphType
  <2>4. \A w \in WrapperFuncs \ DOMAIN made : ~frozen'[w]
    BY <2>1 DEF FreshInv
  <2> QED BY <1>0, <1>2, <1>7, <2>1, <2>2, <2>3, <2>4 DEF Written, Kept, Finished, Blank, Defined
<1>11. CASE s.flaw # "stray_var"
  <2>1. PICK d \in DefinitionsOf(f, s, s.callees, Expanded(s)) :
          updates' = [updates EXCEPT ![f] = <<[d EXCEPT !.calls = With(d.calls, OneCall(f, m(s)))]>>]
    BY <1>1, <1>11
  <2>2. /\ d \in DefType /\ d.used <= d.bound /\ DOMAIN d.calls = s.callees /\ d.early \subseteq s.callees
        /\ \A c \in s.callees : Defined(c) /\ (c \notin d.early => d.calls[c] = dims[c])
    BY <1>3, <1>4, <2>1, AddedType
  <2> DEFINE e == With(d.calls, OneCall(f, m(s)))
             k == [d EXCEPT !.calls = e]
  <2>3. f \notin s.callees
    BY <1>2, <2>2
  <2>4. /\ DOMAIN e = s.callees \cup {f}
        /\ \A c \in s.callees : e[c] = d.calls[c]
        /\ e[f] = m(s)
    BY <2>2, <2>3 DEF With, OneCall
  <2>5. e \in CallMaps
    <3>1. e \in [s.callees \cup {f} -> 0 .. MaxDims]
      <4>1. e = [x \in s.callees \cup {f} |-> IF x \in s.callees THEN d.calls[x] ELSE m(s)]
        BY <2>2 DEF With, OneCall
      <4>2. \A c \in s.callees : d.calls[c] \in 0 .. MaxDims
        BY <2>2 DEF DefType, CallMaps
      <4> HIDE DEF e, m
      <4> QED BY <4>1, <4>2, <1>4 DEF m
    <3> HIDE DEF e
    <3> QED BY <3>1, <1>3 DEF CallMaps
  <2> HIDE DEF e
  <2>6. /\ k \in DefType /\ k.calls = e /\ k.used = d.used /\ k.bound = d.bound /\ k.early = d.early
    BY <2>2, <2>5 DEF DefType
  <2>7. updates' = [updates EXCEPT ![f] = <<k>>]
    BY <2>1 DEF e
  <2> HIDE DEF k
  <2>9. Grown(k, s.callees \cup {f})
    <3>1. \A c \in s.callees : Defined(c)' /\ (c \notin d.early => e[c] = dims'[c])
      BY <1>3, <1>8, <2>2, <2>4
    <3>2. e[f] = dims'[f] /\ Defined(f)'
      BY <1>7, <2>4
    <3> QED BY <2>2, <2>4, <2>6, <3>1, <3>2 DEF Grown
  <2>10. /\ updates' \in [Names -> Seq(DefType)] /\ updates'[f] = <<k>>
         /\ \A g \in Names \ {f} : updates'[g] = updates[g]
    BY <2>6, <2>7 DEF GraphType
  <2>11. /\ frozen' \in [Names -> BOOLEAN]
         /\ \A g \in Names : frozen[g] => frozen'[g]
         /\ \A c \in (s.callees \cup {f}) \ {f} : frozen'[c]
         /\ \A w \in WrapperFuncs \ DOMAIN made : ~frozen'[w]
    BY <1>1, <1>3, <1>11, FreezingFrozen
  <2>12. \A i \in DOMAIN updates'[f] : updates'[f][i] = k
    BY <2>10
  <2>13. Grown(pure'[f], s.callees \cup {f})
    BY <1>9 DEF Grown
  <2>14. SoundFunc(f)' /\ UsedFrozen(f)'
    BY <1>8, <2>9, <2>11, <2>12, <2>13, AddedSound
  <2>15. GraphType'
    BY <1>2, <1>7, <2>10, <2>11 DEF GraphType
  <2> QED BY <1>0, <1>2, <1>7, <2>10, <2>11, <2>14, <2>15 DEF Written, Kept, Finished, Blank, Defined
<1> QED BY <1>10, <1>11

LEMMA ExternWrites ==
    ASSUME GraphInv, Unchecked = {}, NEW f \in Names, define_extern(f)
    PROVE  Written(f)
<1> USE DEF GraphInv
<1>1. PICK A \in SUBSET ExternArgs(f), n \in 0 .. MaxDims :
        /\ pure' = [pure EXCEPT ![f] = [Nothing EXCEPT !.calls = [a \in A |-> dims[a]]]]
        /\ dims' = [dims EXCEPT ![f] = n]
  BY DEF define_extern
<1>2. /\ f \in Known /\ calls' \in 0 .. MaxCalls /\ ~Defined(f)
      /\ kind' = [kind EXCEPT ![f] = "extern"] /\ frozen' = frozen
      /\ updates' = updates /\ wrappers' = wrappers /\ made' = made /\ piped' = piped
  BY BoundsAssumption DEF define_extern, Called, GraphType
<1>3. /\ A \subseteq Names \ {f} /\ \A a \in A : Defined(a) /\ frozen[a]
      /\ f \in DOMAIN made => A = {}
  BY <1>1, NamesKnown DEF ExternArgs
<1> DEFINE e == [a \in A |-> dims[a]]
           d == [calls |-> e, used |-> 0, bound |-> 0, early |-> {}]
<1>4. e \in CallMaps
  <2>1. e \in [A -> 0 .. MaxDims]
    BY <1>3 DEF GraphType
  <2> HIDE DEF e
  <2> QED BY <1>3, <2>1 DEF CallMaps
<1>5. d \in DefType /\ d.calls = e /\ d.used = 0 /\ d.bound = 0 /\ d.early = {}
  <2> HIDE DEF e
  <2> QED BY <1>4, BoundsAssumption DEF DefType
<1>6. pure' = [pure EXCEPT ![f] = d]
  <2>1. pure' = [pure EXCEPT ![f] = [Nothing EXCEPT !.calls = e]]
    BY <1>1
  <2>2. [Nothing EXCEPT !.calls = e] = d
    <3> HIDE DEF e
    <3> QED BY DEF Nothing
  <2> HIDE DEF d, e
  <2> QED BY <2>1, <2>2
<1>7. DOMAIN e = A /\ \A a \in A : e[a] = dims[a]
  OBVIOUS
<1> HIDE DEF d, e
<1>8. GraphType'
  BY <1>1, <1>2, <1>5, <1>6 DEF GraphType
<1>9. \A g \in Names \ {f} : Kept(g)
  BY <1>1, <1>2, <1>6 DEF Kept, GraphType
<1>10. pure'[f] = d /\ Defined(f)'
  BY <1>2, <1>6 DEF GraphType, Defined
<1>11. \A c \in Names : Defined(c) => c # f /\ Defined(c)' /\ dims'[c] = dims[c]
  BY <1>2, <1>9 DEF Defined, Kept
<1>12. Grown(d, A)
  BY <1>3, <1>5, <1>7, <1>11 DEF Grown
<1>13. SoundFunc(f)' /\ UsedFrozen(f)'
  BY <1>2, <1>3, <1>10, <1>11, <1>12, AddedSound
<1>14. \A w \in WrapperFuncs \ DOMAIN made : ~frozen'[w]
  BY <1>2 DEF FreshInv
<1>15. f \in DOMAIN made => Callees(f)' = {}
  <2>1. updates[f] = <<>>
    BY <1>2 DEF DefsInv, Blank
  <2> QED BY <1>2, <1>3, <1>5, <1>7, <1>10, <2>1 DEF Callees
<1> QED BY <1>2, <1>8, <1>9, <1>10, <1>13, <1>14, <1>15 DEF Written, Finished, Blank

LEMMA CopyKeeps ==
    ASSUME GraphInv, NEW f \in Names, copy_to_device(f)
    PROVE  GraphInv'
<1> USE DEF GraphInv
<1>1. /\ calls' \in 0 .. MaxCalls /\ Defined(f)
      /\ kind' = [kind EXCEPT ![f] = "extern"]
      /\ UNCHANGED <<dims, pure, updates, frozen, wrappers, made, piped>>
  BY BoundsAssumption DEF copy_to_device, Called, GraphType, Defined
<1>2. \A c \in Names : Defined(c)' = Defined(c)
  BY <1>1 DEF GraphType, Defined
<1>3. GraphType'
  BY <1>1 DEF GraphType
<1>4. DefsInv'
  BY <1>1, <1>2, SoundKept DEF DefsInv, Blank
<1>5. UsedInv'
  BY <1>1 DEF UsedInv, UsedFrozen, Callees
<1>6. FreshInv'
  BY <1>1, <1>2 DEF FreshInv, Names
<1>7. WrapInv'
  BY <1>1 DEF WrapInv, WrapperNotShared, Sharers, Returned
<1>8. CloneInv'
  <2>1. \A g \in Names : Defined(g) => Grew(g)
    BY <1>1, <1>2 DEF Grew, GraphType
  <2> QED BY <1>1, <1>2, <1>3, <2>1, CloneKept DEF Finished
<1> QED BY <1>3, <1>4, <1>5, <1>6, <1>7, <1>8

LEMMA PipelineKeeps ==
    ASSUME GraphInv, NEW f \in Names, MakePipeline(f)
    PROVE  GraphInv'
<1> USE DEF GraphInv
<1>1. /\ calls' \in 0 .. MaxCalls /\ f \in Known
      /\ piped' = piped \cup {f} /\ frozen' = [frozen EXCEPT ![f] = TRUE]
      /\ UNCHANGED <<kind, dims, pure, updates, wrappers, made>>
  BY BoundsAssumption DEF MakePipeline, Called, GraphType
<1>2. \A g \in Names : frozen[g] \/ g = f => frozen'[g]
  BY <1>1 DEF GraphType
<1>3. GraphType'
  BY <1>1 DEF GraphType
<1>4. DefsInv'
  BY <1>1 DEF DefsInv, SoundFunc, Sound, Defined, Blank
<1>5. UsedInv'
  <2>1. ASSUME NEW g \in Names PROVE UsedFrozen(g)'
    <3>1. Callees(g)' = Callees(g)
      BY <1>1 DEF Callees
    <3> QED BY <1>2, <3>1, CalleesOf DEF UsedInv, UsedFrozen
  <2> QED BY <1>1, <1>2, <2>1 DEF UsedInv, GraphType
<1>6. FreshInv'
  BY <1>1, FreshUnknown DEF FreshInv, Defined, GraphType
<1>7. WrapInv'
  <2>1. Returned' = Returned /\ Returned \subseteq Names
    BY <1>1 DEF Returned, GraphType, Names
  <2> QED BY <1>1, <1>2, <2>1 DEF WrapInv, WrapperNotShared, Sharers
<1>8. CloneInv'
  <2>1. \A g \in Names : Defined(g) => Grew(g)
    BY <1>1 DEF Grew, GraphType, Defined
  <2> QED BY <1>1, <1>2, <1>3, <2>1, CloneKept DEF Finished, Defined
<1> QED BY <1>3, <1>4, <1>5, <1>6, <1>7, <1>8

-----------------------------------------------------------------------------
(* A wrapper that was made before is returned again.                       *)

LEMMA FoundKeeps ==
    ASSUME GraphInv, NEW f \in Names, FoundWrapper(f)
    PROVE  GraphInv'
<1> USE DEF GraphInv
<1>0. PICK A \in Callers, clone \in BOOLEAN : \E first \in Keys(A) \cap DOMAIN wrappers[f] :
        /\ validate_wrapper(f, A, first, wrappers[f][first])
        /\ made' = [made EXCEPT ![wrappers[f][first]].asked = Keys(A),
                                ![wrappers[f][first]].askedClone = clone]
  BY DEF FoundWrapper
<1>1. PICK first \in Keys(A) \cap DOMAIN wrappers[f] :
        /\ validate_wrapper(f, A, first, wrappers[f][first])
        /\ made' = [made EXCEPT ![wrappers[f][first]].asked = Keys(A),
                                ![wrappers[f][first]].askedClone = clone]
  BY <1>0
<1>2. /\ calls' \in 0 .. MaxCalls
      /\ UNCHANGED <<kind, dims, pure, updates, frozen, wrappers, piped>>
  BY BoundsAssumption DEF FoundWrapper, Called, GraphType
<1> DEFINE w == wrappers[f][first]
<1>3. w \in DOMAIN made /\ made[w].of = f
  BY DEF GraphType, WrapInv
<1>4. w \in Names /\ frozen[w]
  BY <1>3 DEF GraphType, WrapInv, Names
<1>5. {g \in DOMAIN wrappers[f] : wrappers[f][g] = w} \subseteq Keys(A)
  <2>1. CASE A = {}
    <3>1. first = Global /\ Keys(A) = {Global}
      BY <2>1 DEF Keys
    <3> QED BY <3>1 DEF WrapInv
  <2>2. CASE A # {}
    <3>1. Keys(A) = A
      BY <2>2 DEF Keys
    <3>2. \A g \in DOMAIN wrappers[f] \ {first} : (g \in A) <=> (wrappers[f][g] = w)
      BY <1>1, <2>2 DEF validate_wrapper
    <3> QED BY <3>1, <3>2
  <2> QED BY <2>1, <2>2
<1>6. Keys(A) \in SUBSET Keyed
  BY NamesKnown DEF Keys, Keyed, Callers
<1>7. /\ DOMAIN made' = DOMAIN made
      /\ made'[w] = [made[w] EXCEPT !.asked = Keys(A), !.askedClone = clone]
      /\ \A v \in DOMAIN made \ {w} : made'[v] = made[v]
  BY <1>1, <1>3
<1>8. /\ made'[w] \in MadeType /\ made'[w].of = made[w].of /\ made'[w].clone = made[w].clone
      /\ made'[w].taken = made[w].taken
      /\ made'[w].asked = Keys(A) /\ made'[w].askedClone = clone
  <2>1. made[w] \in MadeType
    BY <1>3 DEF GraphType
  <2> QED BY <1>6, <1>7, <2>1 DEF MadeType
<1> HIDE DEF w
<1>9. GraphType'
  <2>1. made' \in [DOMAIN made' -> MadeType]
    <3>1. \A v \in DOMAIN made' : made'[v] \in MadeType
      BY <1>7, <1>8 DEF GraphType
    <3>2. made' = [v \in DOMAIN made' |-> made'[v]]
      BY <1>1
    <3> QED BY <3>1, <3>2
  <2> QED BY <1>2, <1>7, <2>1 DEF GraphType
<1>10. \A v \in DOMAIN made : /\ made'[v].of = made[v].of /\ made'[v].clone = made[v].clone
                            /\ made'[v].taken = made[v].taken
  BY <1>7, <1>8
<1>11. DefsInv' /\ UsedInv' /\ FreshInv'
  <2>1. DefsInv'
    BY <1>2 DEF DefsInv, SoundFunc, Sound, Defined, Blank
  <2>2. UsedInv'
    BY <1>2 DEF UsedInv, UsedFrozen, Callees
  <2>3. FreshInv'
    BY <1>2, <1>7 DEF FreshInv, Defined
  <2> QED BY <2>1, <2>2, <2>3
<1>12. WrapInv'
  <2>1. ASSUME NEW h \in Names, NEW g \in DOMAIN wrappers[h]
        PROVE  made'[wrappers[h][g]].of = h
    <3>1. wrappers[h][g] \in DOMAIN made
      BY DEF GraphType
    <3>2. made[wrappers[h][g]].of = h
      BY DEF WrapInv
    <3> HIDE DEF GraphInv
    <3> QED BY <1>10, <3>1, <3>2
  <2>2. ASSUME NEW v \in DOMAIN made, made'[v].asked # {}
        PROVE  /\ frozen[v]
               /\ {g \in DOMAIN wrappers[made[v].of] : wrappers[made[v].of][g] = v} # {}
               /\ {g \in DOMAIN wrappers[made[v].of] : wrappers[made[v].of][g] = v} \subseteq made'[v].asked
    <3>1. CASE v = w
      <4>1. first \in {g \in DOMAIN wrappers[f] : wrappers[f][g] = w}
        BY DEF w
      <4> QED BY <1>3, <1>4, <1>5, <1>8, <3>1, <4>1
    <3>2. CASE v # w
      BY <1>7, <2>2, <3>2 DEF WrapInv, WrapperNotShared, Returned, Sharers
    <3> QED BY <3>1, <3>2
  <2>3. WrapperNotShared' /\ \A v \in Returned' : frozen'[v]
    <3> HIDE DEF GraphInv
    <3> QED BY <1>2, <1>7, <1>10, <2>2 DEF WrapperNotShared, Returned, Sharers
  <2> QED BY <1>2, <2>1, <2>3 DEF WrapInv
<1>13. CloneInv'
  <2>1. ASSUME NEW v \in DOMAIN made, Copied(v)
        PROVE  CopyOf(made[v].of, v, made[v].taken)'
    <3>1. CopyOf(made[v].of, v, made[v].taken)
      BY <2>1, CopiesOf
    <3>2. PICK h, k : h = made[v].of /\ k = made[v].taken
      OBVIOUS
    <3>3. CopyOf(h, v, k) = CopyOf(h, v, k)'
      <4> HIDE DEF GraphInv
      <4> QED BY <1>2 DEF CopyOf, Defined, Cloned
    <3>4. made'[v].of = h /\ made'[v].taken = k
      BY <1>10, <3>2
    <3> HIDE DEF GraphInv
    <3> QED BY <3>1, <3>2, <3>3, <3>4
  <2> HIDE DEF GraphInv
  <2> QED BY <1>7, <1>10, <2>1, CopiesAfter DEF Copied
<1> QED BY <1>9, <1>11, <1>12, <1>13

-----------------------------------------------------------------------------
(* A new wrapper or clone w of f, which the callers in B use.              *)

Wrapping(f, w, A, B, clone) ==
    /\ w \in WrapperFuncs \ DOMAIN made /\ f \in Known /\ A \in Callers /\ clone \in BOOLEAN
    /\ Keys(A) \cap DOMAIN wrappers[f] = {}
    /\ B \subseteq Keys(A) \ {f} /\ (f \notin A => B = Keys(A)) /\ (clone => A # {})
    /\ IF clone THEN create_clone_wrapper(f, w) ELSE create_in_wrapper(f, w)
    /\ wrappers' = [wrappers EXCEPT ![f] = With(wrappers[f], [g \in B |-> w])]
    /\ frozen' = [frozen EXCEPT ![f] = frozen[f] \/ ~clone,
                                ![w] = B # {} \/ (clone /\ frozen[f])]
    /\ made' = With(made, [v \in {w} |->
                              [of |-> f, clone |-> clone,
                               asked |-> IF f \in A THEN {} ELSE Keys(A),
                               askedClone |-> clone, taken |-> Taken(f)]])
    /\ piped' = piped /\ calls' \in 0 .. MaxCalls

LEMMA NewWraps ==
    ASSUME GraphInv, NEW f \in Names, NewWrapper(f)
    PROVE  \E A \in Callers, clone \in BOOLEAN : \E B \in SUBSET Keys(A) :
             Wrapping(f, Fresh, A, B, clone)
<1> USE DEF GraphInv
<1>1. Fresh \in WrapperFuncs \ DOMAIN made
  <2>1. \E w \in WrapperFuncs : w \notin DOMAIN made
    BY DEF NewWrapper, GraphType
  <2> QED BY <2>1 DEF Fresh
<1>2. PICK A \in Callers, clone \in BOOLEAN : \E first \in Keys(A) :
         /\ Keys(A) \cap DOMAIN wrappers[f] = {} /\ (clone => A # {})
         /\ IF clone THEN create_clone_wrapper(f, Fresh) ELSE create_in_wrapper(f, Fresh)
         /\ \E B \in AddedTo(f, A, first) :
              /\ wrappers' = [wrappers EXCEPT ![f] = With(wrappers[f], [g \in B |-> Fresh])]
              /\ frozen' = [frozen EXCEPT ![f] = frozen[f] \/ ~clone,
                                          ![Fresh] = B # {} \/ (clone /\ frozen[f])]
         /\ made' = With(made, [w \in {Fresh} |->
                              [of |-> f, clone |-> clone,
                               asked |-> IF f \in A THEN {} ELSE Keys(A),
                               askedClone |-> clone, taken |-> Taken(f)]])
  BY DEF NewWrapper
<1>3. \A first \in Keys(A) : \A B \in AddedTo(f, A, first) :
         B \in SUBSET (Keys(A) \ {f}) /\ (f \notin A => B = Keys(A))
  BY NamesAssumption DEF AddedTo, Keys, Names
<1>4. f \in Known /\ calls' \in 0 .. MaxCalls /\ piped' = piped
  BY BoundsAssumption DEF NewWrapper, Called, GraphType
<1>5. PICK first \in Keys(A) :
         /\ Keys(A) \cap DOMAIN wrappers[f] = {}
         /\ \E B \in AddedTo(f, A, first) :
              /\ wrappers' = [wrappers EXCEPT ![f] = With(wrappers[f], [g \in B |-> Fresh])]
              /\ frozen' = [frozen EXCEPT ![f] = frozen[f] \/ ~clone,
                                          ![Fresh] = B # {} \/ (clone /\ frozen[f])]
  BY <1>2
<1>6. PICK B \in AddedTo(f, A, first) :
         /\ wrappers' = [wrappers EXCEPT ![f] = With(wrappers[f], [g \in B |-> Fresh])]
         /\ frozen' = [frozen EXCEPT ![f] = frozen[f] \/ ~clone,
                                     ![Fresh] = B # {} \/ (clone /\ frozen[f])]
  BY <1>5
<1>7. B \in SUBSET (Keys(A) \ {f}) /\ (f \notin A => B = Keys(A))
  BY <1>3
<1>8. Wrapping(f, Fresh, A, B, clone)
  <2> HIDE DEF GraphInv
  <2> QED BY <1>1, <1>2, <1>4, <1>5, <1>6, <1>7 DEF Wrapping
<1> QED BY <1>7, <1>8

(* A copy of a definition is as sound as the definition.                   *)
LEMMA ClonedAdded ==
    ASSUME GraphType, NEW f \in Names, NEW w \in Names, ~Defined(w), w # f,
           Defined(f) => Defined(w)', dims'[w] = dims[f],
           \A c \in Names : Defined(c) => Defined(c)' /\ dims'[c] = dims[c],
           NEW d \in DefType, Sound(d)
    PROVE  /\ Cloned(d, f, w) \in DefType
           /\ Grown(Cloned(d, f, w), (DOMAIN d.calls \ {f}) \cup {w})
<1> DEFINE D == {IF b = f THEN w ELSE b : b \in DOMAIN d.calls}
           E == {IF b = f THEN w ELSE b : b \in d.early}
           m == [c \in D |-> d.calls[IF c = w THEN f ELSE c]]
           e == [d EXCEPT !.calls = m, !.early = E]
<1>1. Cloned(d, f, w) = e
  BY DEF Cloned
<1>2. DOMAIN d.calls \subseteq Names /\ \A c \in DOMAIN d.calls : d.calls[c] \in 0 .. MaxDims
  BY DEF DefType, CallMaps
<1>3. w \notin DOMAIN d.calls
  BY DEF Sound
<1>4. /\ D \subseteq Names /\ D \ {w} \subseteq DOMAIN d.calls \ {f} /\ (w \in D => f \in DOMAIN d.calls)
      /\ E \subseteq D /\ d.early \subseteq E \cup {f} /\ (f \in d.early => w \in E)
  BY <1>2, <1>3 DEF Sound
<1>5. /\ DOMAIN m = D
      /\ \A c \in D : m[c] \in 0 .. MaxDims /\ Defined(c)' /\ (c \notin E => m[c] = dims'[c])
  <2>1. ASSUME NEW c \in D
        PROVE  m[c] \in 0 .. MaxDims /\ Defined(c)' /\ (c \notin E => m[c] = dims'[c])
    <3>1. CASE c = w
      <4>1. f \in DOMAIN d.calls /\ m[c] = d.calls[f] /\ Defined(f)
        BY <1>4, <3>1 DEF Sound
      <4> QED BY <1>2, <1>4, <3>1, <4>1 DEF Sound
    <3>2. CASE c # w
      <4>1. c \in DOMAIN d.calls /\ c # f /\ m[c] = d.calls[c] /\ Defined(c)
        BY <1>4, <3>2 DEF Sound
      <4> QED BY <1>2, <1>4, <4>1 DEF Sound
    <3> QED BY <3>1, <3>2
  <2> QED BY <2>1
<1>6. m \in CallMaps
  <2>1. m \in [D -> 0 .. MaxDims]
    BY <1>5
  <2> HIDE DEF m, D
  <2> QED BY <2>1, <1>4 DEF CallMaps
<1>7. /\ e \in DefType /\ e.calls = m /\ e.used = d.used /\ e.bound = d.bound /\ e.early = E
  <2>1. E \in SUBSET Names
    BY <1>4
  <2> HIDE DEF m, E
  <2> QED BY <1>6, <2>1 DEF DefType
<1> HIDE DEF e, m, D, E
<1>8. Grown(e, (DOMAIN d.calls \ {f}) \cup {w})
  BY <1>4, <1>5, <1>7 DEF Sound, Grown
<1> QED BY <1>1, <1>7, <1>8

(* What a new wrapper is defined as.                                       *)
WrapperMade(f, w) ==
    /\ kind' \in [Names -> {"undefined", "pure", "extern"}]
    /\ dims' \in [Names -> 0 .. MaxDims]
    /\ pure' \in [Names -> DefType] /\ updates' \in [Names -> Seq(DefType)]
    /\ \A g \in Names \ {w} : Kept(g)
    /\ Defined(w)' = Defined(f) /\ SoundFunc(w)' /\ UsedFrozen(w)' /\ Blank(w)'

LEMMA InWrapperMade ==
    ASSUME GraphInv, NEW f \in Names, NEW w \in Names, w # f, ~Defined(w), create_in_wrapper(f, w),
           \A g \in Names : frozen[g] => frozen'[g], frozen'[f]
    PROVE  WrapperMade(f, w) /\ Defined(f)
<1> USE DEF GraphInv
<1> DEFINE e == OneCall(f, dims[f])
           d == [calls |-> e, used |-> 0, bound |-> 0, early |-> {}]
<1>1. dims[f] \in 0 .. MaxDims
  BY DEF GraphType
<1>2. DOMAIN e = {f} /\ e[f] = dims[f] /\ e \in CallMaps
  <2>1. e \in [{f} -> 0 .. MaxDims]
    BY <1>1 DEF OneCall
  <2>2. DOMAIN e = {f} /\ e[f] = dims[f]
    BY DEF OneCall
  <2> HIDE DEF e
  <2> QED BY <2>1, <2>2 DEF CallMaps
<1>3. [Nothing EXCEPT !.calls = e] = d
  <2> HIDE DEF e
  <2> QED BY DEF Nothing
<1>4. /\ kind' = [kind EXCEPT ![w] = "pure"] /\ dims' = [dims EXCEPT ![w] = dims[f]]
      /\ pure' = [pure EXCEPT ![w] = d] /\ updates' = updates /\ Defined(f)
  <2>1. pure' = [pure EXCEPT ![w] = [Nothing EXCEPT !.calls = e]]
    BY DEF create_in_wrapper
  <2> HIDE DEF e, d
  <2> QED BY <1>3, <2>1 DEF create_in_wrapper
<1>5. d \in DefType /\ d.calls = e /\ d.used = 0 /\ d.bound = 0 /\ d.early = {}
  <2> HIDE DEF e
  <2> QED BY <1>2, BoundsAssumption DEF DefType
<1> HIDE DEF d, e
<1>6. \A g \in Names \ {w} : Kept(g)
  BY <1>4 DEF Kept, GraphType
<1>7. Defined(w)' /\ dims'[w] = dims[f] /\ pure'[w] = d
  BY <1>4 DEF Defined, GraphType
<1>8. \A c \in Names : Defined(c) => c # w /\ Defined(c)' /\ dims'[c] = dims[c]
  BY <1>6 DEF Defined, Kept
<1>9. Grown(pure'[w], {f})
  BY <1>2, <1>4, <1>5, <1>7, <1>8 DEF Grown
<1>10. SoundFunc(w)' /\ UsedFrozen(w)'
  BY <1>4, <1>8, <1>9, AddedSound
<1> QED BY <1>1, <1>4, <1>5, <1>6, <1>7, <1>10 DEF WrapperMade, GraphType, Blank

LEMMA NoEntries ==
    ASSUME NEW S, NEW s \in Seq(S), DOMAIN s = {} PROVE s = <<>>
<1>1. DOMAIN s = 1 .. Len(s) /\ Len(s) \in Nat
  OBVIOUS
<1> QED BY <1>1

LEMMA CloneMade ==
    ASSUME GraphInv, NEW f \in Names, NEW w \in Names, w # f, ~Defined(w),
           create_clone_wrapper(f, w), \A g \in Names : frozen[g] => frozen'[g]
    PROVE  /\ WrapperMade(f, w) /\ DOMAIN wrappers[f] = {}
           /\ dims'[w] = dims[f] /\ pure'[w] = Cloned(pure[f], f, w)
           /\ updates'[w] = ClonedUpdates(f, w)
<1> USE DEF GraphInv
<1>1. /\ DOMAIN wrappers[f] = {}
      /\ kind' = [kind EXCEPT ![w] = kind[f]] /\ dims' = [dims EXCEPT ![w] = dims[f]]
      /\ pure' = [pure EXCEPT ![w] = Cloned(pure[f], f, w)]
      /\ updates' = [updates EXCEPT ![w] = ClonedUpdates(f, w)]
  BY DEF create_clone_wrapper
<1>2. \A g \in Names \ {w} : Kept(g)
  BY <1>1 DEF Kept, GraphType
<1>3. /\ Defined(w)' = Defined(f) /\ dims'[w] = dims[f] /\ pure'[w] = Cloned(pure[f], f, w)
      /\ updates'[w] = ClonedUpdates(f, w)
  BY <1>1 DEF Defined, GraphType
<1>4. \A c \in Names : Defined(c) => c # w /\ Defined(c)' /\ dims'[c] = dims[c]
  BY <1>2 DEF Defined, Kept
<1>5. /\ pure[f] \in DefType /\ Sound(pure[f]) /\ updates[f] \in Seq(DefType)
      /\ \A i \in DOMAIN updates[f] : updates[f][i] \in DefType /\ Sound(updates[f][i])
  BY DEF GraphType, DefsInv, SoundFunc
<1> DEFINE C == (Callees(f) \ {f}) \cup {w}
           u == ClonedUpdates(f, w)
<1>6. /\ DOMAIN pure[f].calls \subseteq Callees(f)
      /\ \A i \in DOMAIN updates[f] : DOMAIN updates[f][i].calls \subseteq Callees(f)
  BY DEF Callees
<1>7. pure'[w] \in DefType /\ Grown(pure'[w], C)
  <2>1. /\ Cloned(pure[f], f, w) \in DefType
        /\ Grown(Cloned(pure[f], f, w), (DOMAIN pure[f].calls \ {f}) \cup {w})
    BY <1>3, <1>4, <1>5, ClonedAdded
  <2> QED BY <1>3, <1>6, <2>1 DEF Grown
<1>8. DOMAIN u = DOMAIN updates[f] /\ \A i \in DOMAIN u : u[i] = Cloned(updates[f][i], f, w)
  BY DEF ClonedUpdates
<1>9. \A i \in DOMAIN u : u[i] \in DefType /\ Grown(u[i], C)
  <2> TAKE i \in DOMAIN u
  <2>1. updates[f][i] \in DefType /\ Sound(updates[f][i])
    BY <1>5, <1>8
  <2>2. /\ Cloned(updates[f][i], f, w) \in DefType
        /\ Grown(Cloned(updates[f][i], f, w), (DOMAIN updates[f][i].calls \ {f}) \cup {w})
    BY <1>3, <1>4, <2>1, ClonedAdded
  <2>3. DOMAIN updates[f][i].calls \subseteq Callees(f)
    BY <1>6, <1>8
  <2> HIDE DEF u
  <2> QED BY <1>8, <2>2, <2>3 DEF Grown
<1>10. u \in Seq(DefType)
  <2>1. u = [i \in DOMAIN updates[f] |-> u[i]]
    BY DEF ClonedUpdates
  <2>2. DOMAIN updates[f] = 1 .. Len(updates[f]) /\ Len(updates[f]) \in Nat
    BY <1>5
  <2> HIDE DEF u
  <2>3. u \in [1 .. Len(updates[f]) -> DefType]
    BY <1>8, <1>9, <2>1, <2>2
  <2> QED BY <2>2, <2>3
<1>11. \A c \in C \ {w} : frozen'[c]
  BY CalleesOf DEF UsedInv, UsedFrozen
<1> HIDE DEF u, C
<1>12. SoundFunc(w)' /\ UsedFrozen(w)'
  <2>1. \A i \in DOMAIN updates'[w] : Grown(updates'[w][i], C)
    BY <1>3, <1>9 DEF u
  <2> QED BY <1>4, <1>7, <1>11, <2>1, AddedSound
<1>13. /\ kind' \in [Names -> {"undefined", "pure", "extern"}]
       /\ dims' \in [Names -> 0 .. MaxDims]
       /\ pure' \in [Names -> DefType] /\ updates' \in [Names -> Seq(DefType)]
  <2>1. pure' = [pure EXCEPT ![w] = pure'[w]] /\ updates' = [updates EXCEPT ![w] = u]
    BY <1>1, <1>3 DEF u
  <2> QED BY <1>1, <1>7, <1>10, <2>1 DEF GraphType
<1>14. Blank(w)'
  <2>1. CASE Defined(f)
    BY <1>3, <2>1 DEF Blank
  <2>2. CASE ~Defined(f)
    <3>1. DOMAIN pure[f].calls = {} /\ updates[f] = <<>>
      BY <2>2 DEF DefsInv, Blank
    <3>2. DOMAIN pure'[w].calls = {}
      <4>1. DOMAIN pure'[w].calls \subseteq (DOMAIN pure[f].calls \ {f}) \cup {w}
        BY <1>3, <1>4, <1>5, <1>6, ClonedAdded DEF Grown
      <4>2. \A c \in DOMAIN pure'[w].calls : Defined(c)'
        BY <1>7 DEF Grown
      <4>3. ~Defined(w)' /\ \A c \in DOMAIN pure'[w].calls : c = w
        BY <1>3, <2>2, <3>1, <4>1
      <4> HIDE DEF GraphInv
      <4> QED BY <4>2, <4>3
    <3>3. updates'[w] = <<>>
      <4>1. DOMAIN u = {} /\ u \in Seq(DefType)
        BY <1>8, <1>10, <3>1
      <4> HIDE DEF GraphInv
      <4>2. u = <<>>
        BY <4>1, NoEntries
      <4> QED BY <1>3, <4>2 DEF u
    <3> QED BY <3>2, <3>3 DEF Blank
  <2> QED BY <2>1, <2>2
<1> QED BY <1>1, <1>2, <1>3, <1>12, <1>13, <1>14 DEF WrapperMade

LEMMA WithValues ==
    ASSUME NEW g, NEW h
    PROVE  /\ DOMAIN With(g, h) = DOMAIN g \cup DOMAIN h
           /\ \A x \in DOMAIN g : With(g, h)[x] = g[x]
           /\ \A x \in DOMAIN h \ DOMAIN g : With(g, h)[x] = h[x]
BY DEF With

LEMMA WrappingKeeps ==
    ASSUME GraphInv, NEW f \in Names, NEW w, NEW A, NEW B, NEW clone,
           Wrapping(f, w, A, B, clone)
    PROVE  GraphInv'
<1> USE DEF GraphInv
<1>1. /\ w \in WrapperFuncs \ DOMAIN made /\ w \in Names /\ w # f /\ ~Defined(w) /\ ~frozen[w]
      /\ clone \in BOOLEAN /\ A \in Callers
  BY FreshUnknown DEF Wrapping, FreshInv
<1>2. /\ \A g \in Names : frozen[g] => frozen'[g]
      /\ ~clone => frozen'[f]
      /\ B # {} \/ (clone /\ frozen[f]) => frozen'[w]
      /\ \A g \in Names \ {f, w} : frozen'[g] = frozen[g]
      /\ frozen' \in [Names -> BOOLEAN]
  BY <1>1 DEF Wrapping, GraphType
<1>3. /\ WrapperMade(f, w)
      /\ clone => /\ dims'[w] = dims[f] /\ pure'[w] = Cloned(pure[f], f, w)
                  /\ updates'[w] = ClonedUpdates(f, w)
  <2>1. CASE clone
    BY <1>1, <1>2, <2>1, CloneMade DEF Wrapping
  <2>2. CASE ~clone
    BY <1>1, <1>2, <2>2, InWrapperMade DEF Wrapping
  <2> QED BY <2>1, <2>2
<1>4. \A c \in Names : Defined(c) => c # w /\ Defined(c)' /\ dims'[c] = dims[c]
  BY <1>1, <1>3 DEF WrapperMade, Kept, Defined
<1>5. Keys(A) \subseteq Keyed /\ B \subseteq Keys(A) /\ Keys(A) \cap DOMAIN wrappers[f] = {}
  BY NamesKnown DEF Wrapping, Keys, Callers, Keyed
<1> DEFINE r == [of |-> f, clone |-> clone,
                 asked |-> IF f \in A THEN {} ELSE Keys(A), askedClone |-> clone, taken |-> Taken(f)]
<1>6. /\ r \in MadeType /\ r.of = f /\ r.clone = clone /\ r.taken = Taken(f)
      /\ r.asked = IF f \in A THEN {} ELSE Keys(A)
  BY <1>1, <1>5 DEF MadeType, Taken
<1>7. /\ DOMAIN made' = DOMAIN made \cup {w} /\ made'[w] = r
      /\ \A v \in DOMAIN made : made'[v] = made[v] /\ v # w
  <2>1. made' = With(made, [v \in {w} |-> r])
    BY DEF Wrapping
  <2>2. DOMAIN [v \in {w} |-> r] = {w} /\ [v \in {w} |-> r][w] = r
    OBVIOUS
  <2> HIDE DEF r, GraphInv
  <2> QED BY <1>1, <2>1, <2>2 DEF With
<1>8. /\ DOMAIN wrappers' = Names
      /\ \A h \in Names \ {f} : wrappers'[h] = wrappers[h]
      /\ DOMAIN wrappers'[f] = DOMAIN wrappers[f] \cup B
      /\ \A g \in DOMAIN wrappers[f] : wrappers'[f][g] = wrappers[f][g] /\ g \notin B
      /\ \A g \in B : wrappers'[f][g] = w
  <2>1. wrappers'[f] = With(wrappers[f], [g \in B |-> w])
    BY DEF Wrapping, GraphType
  <2>2. B \cap DOMAIN wrappers[f] = {}
    BY <1>5
  <2>3. wrappers' = [wrappers EXCEPT ![f] = wrappers'[f]] /\ DOMAIN wrappers = Names
    BY <2>1 DEF Wrapping, GraphType
  <2>4. DOMAIN [g \in B |-> w] = B /\ \A g \in B : [b \in B |-> w][g] = w
    OBVIOUS
  <2>5. /\ DOMAIN wrappers'[f] = DOMAIN wrappers[f] \cup B
        /\ \A g \in DOMAIN wrappers[f] : wrappers'[f][g] = wrappers[f][g]
        /\ \A g \in B : wrappers'[f][g] = w
    BY <2>1, <2>2, <2>4 DEF With
  <2> HIDE DEF GraphInv
  <2> QED BY <2>2, <2>3, <2>5
<1> HIDE DEF r
<1>9. \A h \in Names : \A g \in DOMAIN wrappers[h] : wrappers[h][g] \in DOMAIN made
  BY DEF GraphType
<1>10. GraphType'
  <2>1. made' \in [DOMAIN made' -> MadeType]
    <3>1. \A v \in DOMAIN made' : made'[v] \in MadeType
      BY <1>6, <1>7 DEF GraphType
    <3>2. made' = [v \in DOMAIN made' |-> made'[v]]
      BY DEF Wrapping, With
    <3> QED BY <3>1, <3>2
  <2>2. ASSUME NEW h \in Names
        PROVE  wrappers'[h] \in [DOMAIN wrappers'[h] -> DOMAIN made'] /\ DOMAIN wrappers'[h] \subseteq Keyed
    <3>1. CASE h # f
      BY <1>7, <1>8, <3>1 DEF GraphType
    <3>2. CASE h = f
      <4>1. wrappers'[f] = [g \in DOMAIN wrappers'[f] |-> wrappers'[f][g]]
        <5>1. wrappers'[f] = With(wrappers[f], [g \in B |-> w])
          BY DEF Wrapping, GraphType
        <5> QED BY <5>1 DEF With
      <4>2. \A g \in DOMAIN wrappers'[f] : wrappers'[f][g] \in DOMAIN made'
        BY <1>7, <1>8, <1>9
      <4>3. DOMAIN wrappers'[f] \subseteq Keyed
        BY <1>5, <1>8 DEF GraphType
      <4> QED BY <3>2, <4>1, <4>2, <4>3
    <3> QED BY <3>1, <3>2
  <2>3. DOMAIN made' \subseteq WrapperFuncs
    BY <1>1, <1>7 DEF GraphType
  <2>4. piped' \subseteq Names /\ calls' \in 0 .. MaxCalls
    BY DEF Wrapping, GraphType
  <2> QED BY <1>2, <1>3, <1>8, <2>1, <2>2, <2>3, <2>4 DEF GraphType, WrapperMade
<1>11. DefsInv'
  <2>1. ASSUME NEW g \in Names \ {w} PROVE SoundFunc(g)' /\ Blank(g)'
    BY <1>3, <1>4, SoundKept DEF WrapperMade, Kept, DefsInv, Blank, Defined
  <2> QED BY <1>3, <2>1 DEF DefsInv, WrapperMade
<1>12. UsedInv'
  <2>1. ASSUME NEW g \in Names \ {w} PROVE UsedFrozen(g)'
    <3>1. Callees(g)' = Callees(g)
      BY <1>3 DEF WrapperMade, Kept, Callees
    <3> QED BY <1>2, <3>1, CalleesOf DEF UsedInv, UsedFrozen
  <2>2. \A g \in piped' : frozen'[g]
    BY <1>2 DEF UsedInv, Wrapping, GraphType
  <2> QED BY <1>3, <2>1, <2>2 DEF UsedInv, WrapperMade
<1>13. FreshInv'
  <2>1. ASSUME NEW v \in WrapperFuncs \ DOMAIN made' PROVE ~Defined(v)' /\ ~frozen'[v]
    <3>1. v \in WrapperFuncs \ DOMAIN made /\ v # w
      BY <1>7
    <3>2. v \in Names /\ v # f
      BY <3>1, FreshUnknown DEF Wrapping
    <3> QED BY <1>2, <1>3, <3>1, <3>2 DEF FreshInv, WrapperMade, Kept, Defined
  <2> QED BY <2>1 DEF FreshInv
<1>14. WrapInv'
  <2>0. ASSUME NEW h \in Names, NEW g \in DOMAIN wrappers'[h]
        PROVE  frozen'[wrappers'[h][g]]
    <3>1. CASE h = f /\ g \in B
      BY <1>2, <1>8, <3>1
    <3>2. CASE ~(h = f /\ g \in B)
      <4>1. g \in DOMAIN wrappers[h] /\ wrappers'[h][g] = wrappers[h][g]
        BY <1>8, <3>2
      <4>2. wrappers[h][g] \in Names /\ frozen[wrappers[h][g]]
        BY <1>9, <4>1 DEF WrapInv, GraphType, Names
      <4> QED BY <1>2, <4>1, <4>2
    <3> QED BY <3>1, <3>2
  <2>1. ASSUME NEW h \in Names, NEW g \in DOMAIN wrappers'[h]
        PROVE  /\ made'[wrappers'[h][g]].of = h
               /\ Global \in DOMAIN wrappers'[h] /\ g # Global
                     => wrappers'[h][g] # wrappers'[h][Global]
    <3>1. CASE h # f
      BY <1>7, <1>8, <1>9, <3>1 DEF WrapInv
    <3>2. CASE h = f
      <4>1. made'[wrappers'[f][g]].of = f
        BY <1>6, <1>7, <1>8, <1>9, <3>2 DEF WrapInv
      <4>2. ASSUME Global \in DOMAIN wrappers'[f], g # Global
            PROVE  wrappers'[f][g] # wrappers'[f][Global]
        <5>1. Global \in B => B = {Global}
          BY <1>1, <1>5, NamesKnown, NamesAssumption DEF Keys, Callers, Names
        <5>2. ~(g \in B /\ Global \in B)
          BY <4>2, <5>1
        <5> QED BY <1>1, <1>8, <1>9, <3>2, <4>2, <5>2 DEF WrapInv
      <4> QED BY <3>2, <4>1, <4>2
    <3> QED BY <3>1, <3>2
  <2> DEFINE users(v) == {g \in DOMAIN wrappers'[made'[v].of] : wrappers'[made'[v].of][g] = v}
  <2>2. ASSUME NEW v \in DOMAIN made', made'[v].asked # {}
        PROVE  frozen'[v] /\ users(v) # {} /\ users(v) \subseteq made'[v].asked
    <3>1. CASE v = w
      <4>1. made'[v].of = f /\ made'[v].asked = B
        BY <1>6, <1>7, <2>2, <3>1 DEF Wrapping
      <4>2. users(v) = B
        BY <1>1, <1>8, <1>9, <3>1, <4>1
      <4> QED BY <1>2, <2>2, <3>1, <4>1, <4>2
    <3>2. CASE v # w
      <4>1. v \in DOMAIN made /\ made'[v] = made[v] /\ made[v].of \in Names
        BY <1>7, <3>2 DEF GraphType, MadeType
      <4>2. users(v) = Sharers(v)
        BY <1>8, <3>2, <4>1 DEF Sharers
      <4>3. v \in Returned /\ v \in Names
        BY <2>2, <4>1 DEF Returned, GraphType, Names
      <4> QED BY <1>2, <4>1, <4>2, <4>3 DEF WrapInv, WrapperNotShared
    <3> QED BY <3>1, <3>2
  <2>3. WrapperNotShared' /\ \A v \in Returned' : frozen'[v]
    <3> HIDE DEF GraphInv
    <3> QED BY <2>2 DEF WrapperNotShared, Returned, Sharers
  <2> QED BY <1>8, <2>0, <2>1, <2>3 DEF WrapInv
<1>15. CloneInv'
  <2>1. \A g \in Names \ {w} : Kept(g)
    BY <1>3 DEF WrapperMade
  <2>2. ASSUME NEW v \in DOMAIN made', Copied(v)' PROVE CopyOf(made[v].of, v, made[v].taken)'
    <3>1. CASE v = w
      <4>1. clone /\ made'[v].of = f /\ made'[v].taken = Taken(f) /\ Defined(f)
        BY <1>6, <1>7, <2>2, <3>1 DEF Copied, Taken
      <4>2. Kept(f) /\ Defined(f)' /\ Defined(w)' /\ (Taken(f) = "final" => frozen'[f])
        BY <1>1, <1>2, <1>3, <2>1, <4>1 DEF Taken, WrapperMade, Kept, Defined
      <4>3. /\ DOMAIN updates'[w] = DOMAIN updates[f]
            /\ \A i \in DOMAIN updates[f] : updates'[w][i] = Cloned(updates[f][i], f, w)
        BY <1>3, <4>1 DEF ClonedUpdates
      <4>4. Len(updates'[w]) = Len(updates[f]) /\ Len(updates[f]) \in Nat
        <5>1. updates'[w] \in Seq(DefType) /\ updates[f] \in Seq(DefType)
          BY <1>1, <1>3 DEF GraphType, WrapperMade
        <5> QED BY <4>3, <5>1
      <4>5. /\ dims'[w] = dims'[f] /\ pure'[w] = Cloned(pure'[f], f, w)
            /\ Len(updates'[w]) = Len(updates'[f]) /\ Len(updates'[w]) <= Len(updates'[f])
            /\ \A i \in DOMAIN updates'[w] : updates'[w][i] = Cloned(updates'[f][i], f, w)
        BY <1>3, <4>1, <4>2, <4>3, <4>4 DEF Kept
      <4>6. PICK k : k = Taken(f)
        OBVIOUS
      <4>7. CopyOf(f, w, k)'
        <5> HIDE DEF GraphInv
        <5> QED BY <4>2, <4>5, <4>6 DEF CopyOf, Cloned
      <4> QED BY <3>1, <4>1, <4>6, <4>7
    <3>2. CASE v # w
      <4>1. v \in DOMAIN made /\ made'[v] = made[v] /\ v \in Names \ {w}
        BY <1>7, <3>2 DEF GraphType, Names
      <4>2. PICK o, k : o = made[v].of /\ k = made[v].taken
        OBVIOUS
      <4>3. o \in Names /\ CopyOf(o, v, k)
        BY <2>2, <4>1, <4>2, CopiesOf DEF Copied
      <4>4. o # w /\ Kept(o) /\ Kept(v) /\ Defined(o)' /\ Defined(v)' /\ (frozen[o] => frozen'[o])
        BY <1>1, <1>2, <2>1, <4>1, <4>3 DEF CopyOf, Kept, Defined
      <4>5. CopyOf(o, v, k)'
        <5>2. \A i \in DOMAIN updates'[v] :
                 updates'[v][i].calls = Cloned(updates'[o][i], o, v).calls
          BY <4>3, <4>4 DEF CopyOf, Kept
        <5>3. /\ (k = "final" => frozen'[o]) /\ dims'[v] = dims'[o]
              /\ pure'[v].calls = Cloned(pure'[o], o, v).calls
              /\ Len(updates'[v]) <= Len(updates'[o])
              /\ k = "final" => Len(updates'[v]) = Len(updates'[o])
          BY <4>3, <4>4 DEF CopyOf, Kept
        <5> HIDE DEF GraphInv
        <5> QED BY <4>4, <5>2, <5>3 DEF CopyOf, Cloned
      <4> QED BY <4>1, <4>2, <4>5
    <3> QED BY <3>1, <3>2
  <2> HIDE DEF GraphInv
  <2> QED BY <2>2, CopiesAfter
<1> QED BY <1>10, <1>11, <1>12, <1>13, <1>14, <1>15

-----------------------------------------------------------------------------
(* The invariant, and what follows from it.                                *)

LEMMA InitIInv ==
    ASSUME Init PROVE GraphInv
<1>1. Nothing \in DefType /\ DOMAIN Nothing.calls = {} /\ Nothing.used <= Nothing.bound
      /\ Nothing.early = {}
  <2>1. NoCalls \in [{} -> 0 .. MaxDims] /\ DOMAIN NoCalls = {}
    BY DEF NoCalls
  <2>2. NoCalls \in CallMaps
    BY <2>1 DEF CallMaps
  <2>3. Nothing.calls = NoCalls /\ Nothing.used = 0 /\ Nothing.bound = 0 /\ Nothing.early = {}
    BY DEF Nothing
  <2>4. Nothing \in DefType
    BY <2>2, BoundsAssumption DEF Nothing, DefType
  <2> QED BY <2>1, <2>3, <2>4
<1>2. /\ kind = [f \in Names |-> "undefined"] /\ dims = [f \in Names |-> 0]
      /\ pure = [f \in Names |-> Nothing] /\ updates = [f \in Names |-> <<>>]
      /\ frozen = [f \in Names |-> FALSE] /\ piped = {} /\ calls = 0
      /\ DOMAIN made = {} /\ made = [w \in {} |-> Nothing]
      /\ DOMAIN wrappers = Names /\ \A f \in Names : wrappers[f] = [g \in {} |-> f]
  BY DEF Init
<1> HIDE DEF Nothing
<1>3. GraphType
  <2>1. pure \in [Names -> DefType] /\ updates \in [Names -> Seq(DefType)]
    BY <1>1, <1>2
  <2>2. made \in [DOMAIN made -> MadeType] /\ DOMAIN made \subseteq WrapperFuncs
    BY <1>2
  <2>3. \A f \in Names : wrappers[f] \in [DOMAIN wrappers[f] -> DOMAIN made]
                            /\ DOMAIN wrappers[f] \subseteq Keyed
    BY <1>2
  <2>4. dims \in [Names -> 0 .. MaxDims] /\ calls \in 0 .. MaxCalls
    BY <1>2, BoundsAssumption
  <2> QED BY <1>2, <2>1, <2>2, <2>3, <2>4 DEF GraphType
<1>4. DefsInv
  BY <1>1, <1>2 DEF DefsInv, SoundFunc, Sound, Blank
<1>5. UsedInv
  BY <1>1, <1>2 DEF UsedInv, UsedFrozen, Callees
<1>6. FreshInv
  BY <1>2 DEF FreshInv, Defined, Names
<1>7. WrapInv
  BY <1>2 DEF WrapInv, WrapperNotShared, Returned
<1>8. CloneInv
  BY <1>2 DEF CloneInv, CloneIsCopy
<1> QED BY <1>3, <1>4, <1>5, <1>6, <1>7, <1>8 DEF GraphInv

LEMMA StutterKeeps ==
    ASSUME GraphInv, UNCHANGED vars PROVE GraphInv'
<1>1. UNCHANGED <<kind, dims, pure, updates, frozen, wrappers, made, piped, calls>>
  BY DEF vars, graph
<1> USE <1>1 DEF GraphInv
<1>2. GraphType'
  BY DEF GraphType
<1>3. DefsInv' /\ UsedInv' /\ FreshInv'
  BY DEF DefsInv, SoundFunc, Sound, UsedInv, UsedFrozen, Callees, FreshInv, Defined, Blank
<1>4. WrapInv'
  BY DEF WrapInv, WrapperNotShared, Returned, Sharers
<1>5. CloneInv'
  <2>1. \A g \in Names : Defined(g) => Grew(g)
    BY DEF Grew, GraphType, Defined
  <2> QED BY <1>2, <2>1, CloneKept DEF Finished, Defined
<1> QED BY <1>2, <1>3, <1>4, <1>5

(* A step writes a Func that nobody uses yet, or no values at all.         *)
LEMMA StepKeeps ==
    ASSUME GraphInv, Unchecked = {}, Next
    PROVE  GraphInv' /\ \A g \in Names : Finished(g) => Values(g)' = Values(g)
<1>1. PICK f \in Names : \/ Define(f) \/ Update(f) \/ Accumulate(f) \/ AccumulateFromBase(f)
                         \/ define_extern(f) \/ copy_to_device(f) \/ MakePipeline(f)
                         \/ NewWrapper(f) \/ FoundWrapper(f)
  BY DEF Next
<1>2. CASE Define(f) \/ Update(f) \/ Accumulate(f) \/ AccumulateFromBase(f) \/ define_extern(f)
  <2>1. Written(f)
    BY <1>2, DefineWrites, UpdateWrites, AccumulateFromBaseWrites, ExternWrites
  <2>2. GraphInv'
    BY <2>1, WrittenKeeps
  <2> QED BY <2>1, <2>2 DEF Written, Kept, Values, Finished
<1>3. CASE copy_to_device(f)
  BY <1>3, CopyKeeps DEF copy_to_device, Values
<1>4. CASE MakePipeline(f)
  BY <1>4, PipelineKeeps DEF MakePipeline, Values
<1>5. CASE FoundWrapper(f)
  BY <1>5, FoundKeeps DEF FoundWrapper, Values
<1>6. CASE NewWrapper(f)
  <2>1. PICK A \in Callers, clone \in BOOLEAN : \E B \in SUBSET Keys(A) :
           Wrapping(f, Fresh, A, B, clone)
    BY <1>6, NewWraps
  <2>2. PICK B \in SUBSET Keys(A) : Wrapping(f, Fresh, A, B, clone)
    BY <2>1
  <2>3. GraphInv'
    BY <2>2, WrappingKeeps
  <2>4. Fresh \in WrapperFuncs \ DOMAIN made /\ ~Defined(Fresh)
    BY <2>2 DEF Wrapping, GraphInv, FreshInv
  <2>5. ASSUME NEW g \in Names, Finished(g) PROVE Values(g)' = Values(g)
    <3>1. g # Fresh
      BY <2>4, <2>5 DEF Finished
    <3>2. kind \in [Names -> {"undefined", "pure", "extern"}] /\ dims \in [Names -> 0 .. MaxDims]
          /\ pure \in [Names -> DefType] /\ updates \in [Names -> Seq(DefType)]
      BY DEF GraphInv, GraphType
    <3>3. create_clone_wrapper(f, Fresh) \/ create_in_wrapper(f, Fresh)
      BY <2>2 DEF Wrapping
    <3> HIDE DEF Fresh
    <3>4. dims'[g] = dims[g] /\ pure'[g] = pure[g] /\ updates'[g] = updates[g]
      BY <3>1, <3>2, <3>3 DEF create_clone_wrapper, create_in_wrapper
    <3> QED BY <3>4 DEF Values
  <2> QED BY <2>3, <2>5
<1> QED BY <1>1, <1>2, <1>3, <1>4, <1>5, <1>6

LEMMA SpecIInv == ASSUME Unchecked = {} PROVE Spec => []GraphInv
<1>1. GraphInv /\ [Next]_vars => GraphInv'
  BY StepKeeps, StutterKeeps
<1> QED BY <1>1, InitIInv, PTL DEF Spec

(* Whatever is defined, updated, wrapped or cloned, and in whatever order: *)
(* every call through a reference that was made when its Func was defined  *)
(* has the number of arguments that the Func called has dimensions, and no *)
(* definition uses an implicit variable that its left-hand side lacks      *)
(* (Func::add_implicit_vars and args_with_implicit_vars, Func.cpp).        *)
THEOREM CallsWellFormedThm == ASSUME Unchecked = {} PROVE Spec => []CallsWellFormed
<1>1. ASSUME GraphInv PROVE CallsWellFormed
  <2>1. ASSUME NEW d \in DefType, d.early \subseteq DOMAIN d.calls PROVE Definition(d)
    <3>1. /\ DOMAIN d.calls \subseteq Names /\ \A c \in DOMAIN d.calls : d.calls[c] \in 0 .. MaxDims
      BY DEF DefType, CallMaps
    <3>2. DOMAIN d = {"calls", "used", "bound", "early"} /\ d.used \in 0 .. MaxDims /\ d.bound \in 0 .. MaxDims
      BY DEF DefType
    <3> QED BY <2>1, <3>1, <3>2 DEF Definition
  <2>2. \A f \in Names : \A d \in Definitions(f) : d \in DefType /\ Sound(d)
    BY <1>1 DEF GraphInv, GraphType, DefsInv, SoundFunc, Definitions
  <2>3. \A f \in Names : \A d \in Definitions(f) : Definition(d) /\ WellFormed(d)
    BY <2>1, <2>2 DEF Sound, WellFormed
  <2>4. TypeOK
    BY <1>1, <2>3 DEF GraphInv, GraphType, TypeOK
  <2> QED BY <2>3, <2>4 DEF CallsWellFormed
<1> QED BY <1>1, SpecIInv, PTL

(* The wrapper that in() or clone_in() returned last for some callers is   *)
(* used, and by none but these callers, also when the code returned one    *)
(* that it had made for other callers, or as a clone, before (get_wrapper  *)
(* and validate_wrapper, Func.cpp).                                        *)
THEOREM WrapperNotSharedThm == ASSUME Unchecked = {} PROVE Spec => []WrapperNotShared
<1>1. GraphInv => WrapperNotShared
  BY DEF GraphInv, WrapInv
<1> QED BY <1>1, SpecIInv, PTL

(* A clone has the definitions that its Func had when it was cloned, and   *)
(* computes what the Func computes for as long as both exist if the Func   *)
(* was final then (create_clone_wrapper, Func.cpp, and                     *)
(* Function::deep_copy, Function.cpp).                                     *)
THEOREM CloneIsCopyThm == ASSUME Unchecked = {} PROVE Spec => []CloneIsCopy
<1>1. GraphInv => CloneIsCopy
  BY DEF GraphInv, CloneInv
<1> QED BY <1>1, SpecIInv, PTL

(* No step changes the values of a defined Func that another definition or *)
(* a Pipeline uses (Function::define and define_update, which ask          *)
(* frozen(), Function.cpp).                                                *)
THEOREM UsedKeepsValuesThm == ASSUME Unchecked = {} PROVE Spec => UsedKeepsValues
<1> DEFINE Keeps == \A f \in Names : Defined(f) /\ (f \in piped \/ UsedBy(f) # {})
                                        => Values(f)' = Values(f)
<1>1. GraphInv /\ [Next]_vars => [Keeps]_vars
  <2> SUFFICES ASSUME GraphInv, Next PROVE Keeps
    OBVIOUS
  <2>1. \A f \in Names : f \in piped \/ UsedBy(f) # {} => frozen[f]
    BY DEF GraphInv, UsedInv, UsedFrozen, UsedBy
  <2> QED BY <2>1, StepKeeps DEF Finished
<1>2. Spec => [][Keeps]_vars
  BY <1>1, SpecIInv, PTL DEF Spec
<1> QED BY <1>2 DEF UsedKeepsValues

-----------------------------------------------------------------------------
(* An order of the Funcs in which lowering never goes up: what a Func      *)
(* calls is below it, and so are the wrappers that it calls instead.  A    *)
(* Func that is written was not used yet and goes to the top; a wrapper    *)
(* goes right above the Func it wraps, a clone right above all that the    *)
(* original may call.                                                      *)

Wraps(w) == w \in DOMAIN made /\ ~made[w].clone

ShapeInv ==
    /\ \A w \in DOMAIN made : ~made[w].clone => Callees(w) = {made[w].of}
    /\ \A f \in Names : \A g \in DOMAIN wrappers[f] :
         /\ g # f
         /\ g = Global => ~made[wrappers[f][g]].clone
         /\ g \in WrapperFuncs => g \in DOMAIN made
    /\ \A w \in WrapperFuncs \ DOMAIN made : DOMAIN wrappers[w] = {}

Order(R) ==
    /\ \A x, y, z \in Names : <<x, y>> \in R /\ <<y, z>> \in R => <<x, z>> \in R
    /\ \A S \in SUBSET Names : S # {} => \E x \in S : \A y \in S : <<y, x>> \notin R

CalledBelow(R) == \A g \in Names : \A c \in Callees(g) \ {g} : <<c, g>> \in R
OwnBelow(R) ==
    \A c \in Names : \A g \in DOMAIN wrappers[c] \cap Names :
        c \in Callees(g) => <<wrappers[c][g], g>> \in R
GlobalBelow(R) ==
    \A c, g \in Names : Global \in DOMAIN wrappers[c] /\ <<c, g>> \in R /\ ~Wraps(g)
                           => <<wrappers[c][Global], g>> \in R
Fits(R) == CalledBelow(R) /\ OwnBelow(R) /\ GlobalBelow(R)

OrderInv == ShapeInv /\ \E R \in SUBSET (Names \X Names) : Order(R) /\ Fits(R)

(* f on top of all others.                                                 *)
OnTop(R, f) == {p \in Names \X Names : p[1] # f /\ (p[2] = f \/ p \in R)}

LEMMA OnTopOrder ==
    ASSUME NEW R, Order(R), NEW f \in Names
    PROVE  /\ Order(OnTop(R, f))
           /\ \A x, y \in Names :
                 <<x, y>> \in OnTop(R, f) <=> x # f /\ (y = f \/ <<x, y>> \in R)
<1> DEFINE Q == OnTop(R, f)
<1>1. \A x, y \in Names : <<x, y>> \in Q <=> x # f /\ (y = f \/ <<x, y>> \in R)
  BY DEF OnTop
<1> HIDE DEF Q
<1>2. \A x, y, z \in Names : <<x, y>> \in Q /\ <<y, z>> \in Q => <<x, z>> \in Q
  BY <1>1 DEF Order
<1>3. ASSUME NEW S \in SUBSET Names, S # {} PROVE \E x \in S : \A y \in S : <<y, x>> \notin Q
  <2>1. CASE S \ {f} = {}
    BY <1>1, <1>3, <2>1
  <2>2. CASE S \ {f} # {}
    <3>1. PICK x \in S \ {f} : \A y \in S \ {f} : <<y, x>> \notin R
      BY <2>2 DEF Order
    <3>2. \A y \in S : <<y, x>> \notin Q
      BY <1>1, <3>1
    <3> QED BY <3>2
  <2> QED BY <2>1, <2>2
<1>4. Order(Q)
  BY <1>2, <1>3 DEF Order
<1> QED BY <1>1, <1>4 DEF Q

(* w right above the Funcs P, with which it has nothing below them.        *)
Inserted(R, w, P) ==
    {p \in Names \X Names : \/ p \in R /\ p[1] # w /\ p[2] # w
                            \/ p[1] \in P /\ p[2] = w
                            \/ p[1] = w /\ p[2] # w /\ \A q \in P : <<q, p[2]>> \in R}
ClosedBelow(P, R) == \A x \in Names : \A p \in P : <<x, p>> \in R => x \in P

LEMMA InsertedOrder ==
    ASSUME NEW R, Order(R), NEW w \in Names, NEW P \in SUBSET (Names \ {w}),
           \A x \in Names \ {w} : \A p \in P : <<x, p>> \in R => x \in P
    PROVE  /\ Order(Inserted(R, w, P))
           /\ \A x, y \in Names :
                 <<x, y>> \in Inserted(R, w, P) <=>
                    \/ <<x, y>> \in R /\ x # w /\ y # w
                    \/ x \in P /\ y = w
                    \/ x = w /\ y # w /\ \A q \in P : <<q, y>> \in R
<1> DEFINE Q == Inserted(R, w, P)
<1>1. \A x, y \in Names : <<x, y>> \in Q <=> \/ <<x, y>> \in R /\ x # w /\ y # w
                                             \/ x \in P /\ y = w
                                             \/ x = w /\ y # w /\ \A q \in P : <<q, y>> \in R
  BY DEF Inserted
<1> HIDE DEF Q
<1>2. ASSUME NEW p \in P PROVE ~\A q \in P : <<q, p>> \in R
  <2>1. <<p, p>> \notin R
    <3>1. {p} \in SUBSET Names /\ {p} # {}
      OBVIOUS
    <3> QED BY <3>1 DEF Order
  <2> QED BY <2>1
<1>3. ASSUME NEW x \in Names, NEW y \in Names, NEW z \in Names, <<x, y>> \in Q, <<y, z>> \in Q
      PROVE  <<x, z>> \in Q
  <2>1. CASE x # w /\ y # w /\ z # w
    BY <1>1, <1>3, <2>1 DEF Order
  <2>2. CASE x = w
    <3>1. y # w /\ \A q \in P : <<q, y>> \in R
      BY <1>1, <1>3, <2>2
    <3>2. y \notin P
      BY <1>2, <3>1
    <3>3. z # w /\ <<y, z>> \in R
      BY <1>1, <1>3, <3>1, <3>2
    <3>4. \A q \in P : <<q, z>> \in R
      BY <3>1, <3>3 DEF Order
    <3> QED BY <1>1, <2>2, <3>3, <3>4
  <2>3. CASE x # w /\ y = w
    <3>1. x \in P /\ z # w /\ \A q \in P : <<q, z>> \in R
      BY <1>1, <1>3, <2>3
    <3> QED BY <1>1, <2>3, <3>1
  <2>4. CASE x # w /\ y # w /\ z = w
    <3>1. y \in P /\ <<x, y>> \in R
      BY <1>1, <1>3, <2>4
    <3>2. x \in P
      BY <2>4, <3>1
    <3> QED BY <1>1, <2>4, <3>2
  <2> QED BY <2>1, <2>2, <2>3, <2>4
<1>4. ASSUME NEW S \in SUBSET Names, S # {} PROVE \E x \in S : \A y \in S : <<y, x>> \notin Q
  <2>1. CASE w \notin S
    <3>1. PICK x \in S : \A y \in S : <<y, x>> \notin R
      BY <1>4 DEF Order
    <3>2. \A y \in S : <<y, x>> \notin Q
      BY <1>1, <2>1, <3>1
    <3> QED BY <3>2
  <2>2. CASE w \in S /\ S \cap P = {}
    <3>1. \A y \in S : <<y, w>> \notin Q
      BY <1>1, <2>2
    <3> QED BY <2>2, <3>1
  <2>3. CASE S \cap P # {}
    <3>1. PICK x \in S \cap P : \A y \in S \cap P : <<y, x>> \notin R
      BY <2>3 DEF Order
    <3>2. \A y \in S : <<y, x>> \notin Q
      BY <1>1, <1>2, <3>1
    <3> QED BY <3>2
  <2> QED BY <2>1, <2>2, <2>3
<1>5. Order(Q)
  BY <1>3, <1>4 DEF Order
<1> QED BY <1>1, <1>5 DEF Q

(* A Func that some other definition or caller uses is finished.           *)
LEMMA CalledFinished ==
    ASSUME GraphInv, NEW g \in Names, NEW c \in Callees(g) \ {g}
    PROVE  c \in Names /\ Finished(c)
<1>1. c \in Names
  BY CalleesOf DEF GraphInv
<1>2. Defined(c)
  BY DEF GraphInv, DefsInv, SoundFunc, Sound, Callees
<1>3. frozen[c]
  BY DEF GraphInv, UsedInv, UsedFrozen
<1> QED BY <1>1, <1>2, <1>3 DEF Finished

LEMMA WrapperNamed ==
    ASSUME GraphType, NEW f \in Names, NEW g \in DOMAIN wrappers[f]
    PROVE  /\ wrappers[f][g] \in DOMAIN made /\ wrappers[f][g] \in Names
           /\ g \in Names \cup {Global}
BY DEF GraphType, Names, Keyed

(* What was made for callers and is written was not defined: it calls      *)
(* nothing, before and after.                                              *)
LEMMA WrittenCallees ==
    ASSUME GraphInv, NEW f, Written(f)
    PROVE  /\ f \in Names /\ f \notin WrapperFuncs \ DOMAIN made
           /\ f \in DOMAIN made => Callees(f)' = Callees(f)
           /\ \A g \in Names \ {f} : Callees(g)' = Callees(g)
<1>1. f \in Names /\ f \in Known
  BY NamesKnown DEF Written, GraphInv
<1>2. f \notin WrapperFuncs \ DOMAIN made
  BY <1>1, FreshUnknown DEF GraphInv
<1>3. ASSUME f \in DOMAIN made PROVE Callees(f)' = Callees(f)
  <2>1. frozen[f]
    BY <1>1, <1>3, MadeKnown DEF GraphInv, WrapInv
  <2>2. ~Defined(f) /\ Callees(f)' = {}
    BY <1>3, <2>1 DEF Written, Finished
  <2>3. DOMAIN pure[f].calls = {} /\ updates[f] = <<>>
    BY <1>1, <2>2 DEF GraphInv, DefsInv, Blank
  <2> QED BY <2>2, <2>3 DEF Callees
<1>4. \A g \in Names \ {f} : Callees(g)' = Callees(g)
  BY DEF Written, Kept, Callees
<1> QED BY <1>1, <1>2, <1>3, <1>4

LEMMA ShapeKept ==
    ASSUME GraphInv, ShapeInv, wrappers' = wrappers, DOMAIN made' = DOMAIN made,
           \A w \in DOMAIN made : /\ made'[w].of = made[w].of /\ made'[w].clone = made[w].clone
                                  /\ Callees(w)' = Callees(w)
    PROVE  ShapeInv'
<1>1. \A h \in Names : \A g \in DOMAIN wrappers[h] : wrappers[h][g] \in DOMAIN made
  BY WrapperNamed DEF GraphInv
<1>2. \A w \in DOMAIN made' : ~made'[w].clone => Callees(w)' = {made'[w].of}
  BY DEF ShapeInv
<1>3. \A h \in Names : \A g \in DOMAIN wrappers'[h] :
         /\ g # h
         /\ g = Global => ~made'[wrappers'[h][g]].clone
         /\ g \in WrapperFuncs => g \in DOMAIN made'
  BY <1>1 DEF ShapeInv
<1>4. \A w \in WrapperFuncs \ DOMAIN made' : DOMAIN wrappers'[w] = {}
  BY DEF ShapeInv
<1> QED BY <1>2, <1>3, <1>4 DEF ShapeInv

(* A step that changes neither what is called nor a wrapper's use.         *)
LEMMA QuietOrders ==
    ASSUME GraphInv, OrderInv, wrappers' = wrappers, DOMAIN made' = DOMAIN made,
           \A g \in Names : Callees(g)' = Callees(g),
           \A w \in DOMAIN made : made'[w].of = made[w].of /\ made'[w].clone = made[w].clone
    PROVE  OrderInv'
<1>1. ShapeInv /\ \E R \in SUBSET (Names \X Names) : Order(R) /\ Fits(R)
  BY DEF OrderInv
<1>2. PICK R \in SUBSET (Names \X Names) : Order(R) /\ Fits(R)
  BY <1>1
<1>3. \A g : Wraps(g)' = Wraps(g)
  BY DEF Wraps
<1>4. DOMAIN made \subseteq Names
  BY DEF GraphInv, GraphType, Names
<1>5. ShapeInv'
  BY <1>1, <1>4, ShapeKept
<1>6. CalledBelow(R)' /\ OwnBelow(R)' /\ GlobalBelow(R)'
  BY <1>2, <1>3 DEF Fits, CalledBelow, OwnBelow, GlobalBelow
<1> QED BY <1>2, <1>5, <1>6 DEF OrderInv, Fits

LEMMA WrittenOrders ==
    ASSUME GraphInv, OrderInv, NEW f, Written(f), f \notin DOMAIN made
    PROVE  OrderInv'
<1>1. ShapeInv /\ \E R \in SUBSET (Names \X Names) : Order(R) /\ Fits(R)
  BY DEF OrderInv
<1>2. PICK R \in SUBSET (Names \X Names) : Order(R) /\ Fits(R)
  BY <1>1
<1>3. f \in Names /\ f \notin DOMAIN made
  BY WrittenCallees
<1>4. ShapeInv' /\ \A g \in Names \ {f} : Callees(g)' = Callees(g)
  <2>1. \A g \in Names \ {f} : Callees(g)' = Callees(g)
    BY WrittenCallees
  <2>2. wrappers' = wrappers /\ made' = made /\ DOMAIN made \subseteq Names \ {f}
    BY <1>3 DEF Written, GraphInv, GraphType, Names
  <2> QED BY <1>1, <2>1, <2>2, ShapeKept
<1>5. PICK Q : Q = OnTop(R, f)
  OBVIOUS
<1>6. /\ Order(Q) /\ Q \in SUBSET (Names \X Names)
      /\ \A x, y \in Names : <<x, y>> \in Q <=> x # f /\ (y = f \/ <<x, y>> \in R)
  <2>1. OnTop(R, f) \in SUBSET (Names \X Names)
    BY DEF OnTop
  <2> QED BY <1>2, <1>3, <1>5, <2>1, OnTopOrder
<1>7. made' = made /\ wrappers' = wrappers /\ ~Finished(f)
  BY DEF Written
<1>8. \A g \in Names : \A c \in Callees(g) \ {g} : c \in Names /\ c # f
  BY <1>7, CalledFinished
<1>9. \A c \in Names : \A g \in DOMAIN wrappers[c] :
         wrappers[c][g] \in Names /\ wrappers[c][g] # f
  BY <1>3, WrapperNamed DEF GraphInv
<1>10. CalledBelow(Q)'
  <2>1. ASSUME NEW g \in Names, NEW c \in Callees(g)' \ {g} PROVE <<c, g>> \in Q
    <3>1. CASE g = f
      <4>1. c \in Names
        <5>1. GraphType'
          BY DEF Written
        <5>2. /\ pure'[g] \in DefType /\ \A i \in DOMAIN updates'[g] : updates'[g][i] \in DefType
          BY <5>1 DEF GraphType
        <5>3. \A d \in DefType : DOMAIN d.calls \subseteq Names
          BY DEF DefType, CallMaps
        <5> QED BY <5>2, <5>3 DEF Callees
      <4> QED BY <1>6, <2>1, <3>1, <4>1
    <3>2. CASE g # f
      BY <1>2, <1>4, <1>6, <1>8, <3>2 DEF Fits, CalledBelow
    <3> QED BY <3>1, <3>2
  <2> QED BY <2>1 DEF CalledBelow
<1>11. OwnBelow(Q)'
  <2>1. ASSUME NEW c \in Names, NEW g \in DOMAIN wrappers[c] \cap Names, c \in Callees(g)'
        PROVE  <<wrappers[c][g], g>> \in Q
    <3>1. g = f => <<wrappers[c][g], g>> \in Q
      BY <1>6, <1>9
    <3>2. g # f => <<wrappers[c][g], g>> \in Q
      BY <1>2, <1>4, <1>6, <1>9, <2>1 DEF Fits, OwnBelow
    <3> QED BY <3>1, <3>2
  <2> QED BY <1>7, <2>1 DEF OwnBelow
<1>12. GlobalBelow(Q)'
  <2>1. ASSUME NEW c \in Names, NEW g \in Names, Global \in DOMAIN wrappers[c],
               <<c, g>> \in Q, ~Wraps(g)
        PROVE  <<wrappers[c][Global], g>> \in Q
    <3>1. wrappers[c][Global] \in Names /\ wrappers[c][Global] # f
      BY <1>9, <2>1
    <3>2. g = f => <<wrappers[c][Global], g>> \in Q
      BY <1>6, <3>1
    <3>3. g # f => <<wrappers[c][Global], g>> \in Q
      BY <1>2, <1>6, <2>1, <3>1 DEF Fits, GlobalBelow
    <3> QED BY <3>2, <3>3
  <2> QED BY <1>7, <2>1 DEF GlobalBelow, Wraps
<1> QED BY <1>4, <1>6, <1>10, <1>11, <1>12 DEF OrderInv, Fits

-----------------------------------------------------------------------------
(* A new wrapper or clone enters the order.                                *)

(* What a step that makes the wrapper w of f for the callers B does to     *)
(* what is ordered.                                                        *)
Entered(f, w, B, clone) ==
    /\ f \in Names /\ w \in WrapperFuncs \ DOMAIN made /\ w # f /\ f \notin B
    /\ ~Defined(w) /\ DOMAIN wrappers[w] = {}
    /\ \A g \in Names \ {w} : Callees(g)' = Callees(g)
    /\ Callees(w)' = IF clone THEN {IF b = f THEN w ELSE b : b \in Callees(f)} ELSE {f}
    /\ DOMAIN made' = DOMAIN made \cup {w}
    /\ made'[w].clone = clone /\ made'[w].of = f
    /\ \A v \in DOMAIN made : made'[v] = made[v]
    /\ \A h \in Names \ {f} : wrappers'[h] = wrappers[h]
    /\ DOMAIN wrappers'[f] = DOMAIN wrappers[f] \cup B
    /\ \A g \in DOMAIN wrappers[f] : wrappers'[f][g] = wrappers[f][g] /\ g \notin B
    /\ \A g \in B : wrappers'[f][g] = w
    /\ B \subseteq Known \cup {Global}
    /\ clone => DOMAIN wrappers[f] = {} /\ Global \notin B

LEMMA ClonedCallees ==
    ASSUME GraphType, NEW f \in Names, NEW w, pure'[w] = Cloned(pure[f], f, w), updates'[w] = ClonedUpdates(f, w)
    PROVE  Callees(w)' = {IF b = f THEN w ELSE b : b \in Callees(f)}
<1> DEFINE Turned(C) == {IF b = f THEN w ELSE b : b \in C}
<1>1. \A d \in DefType : DOMAIN Cloned(d, f, w).calls = Turned(DOMAIN d.calls)
  <2> TAKE d \in DefType
  <2> DEFINE m == [c \in Turned(DOMAIN d.calls) |-> d.calls[IF c = w THEN f ELSE c]]
  <2>1. Cloned(d, f, w) = [d EXCEPT !.calls = m, !.early = Turned(d.early)]
    BY DEF Cloned
  <2>2. DOMAIN m = Turned(DOMAIN d.calls)
    OBVIOUS
  <2>3. [d EXCEPT !.calls = m, !.early = Turned(d.early)].calls = m
    <3> HIDE DEF m
    <3> QED BY DEF DefType
  <2> QED BY <2>1, <2>2, <2>3
<1>0. pure[f] \in DefType /\ \A i \in DOMAIN updates[f] : updates[f][i] \in DefType
  BY DEF GraphType
<1>2. DOMAIN pure'[w].calls = Turned(DOMAIN pure[f].calls)
  BY <1>0, <1>1
<1>3. /\ DOMAIN updates'[w] = DOMAIN updates[f]
      /\ \A i \in DOMAIN updates[f] : updates'[w][i] = Cloned(updates[f][i], f, w)
  BY DEF ClonedUpdates
<1>4. \A i \in DOMAIN updates[f] : DOMAIN updates'[w][i].calls = Turned(DOMAIN updates[f][i].calls)
  BY <1>0, <1>1, <1>3
<1>5. Callees(w)' = DOMAIN pure'[w].calls
                       \cup UNION {DOMAIN updates'[w][i].calls : i \in DOMAIN updates'[w]}
  BY DEF Callees
<1>6. \A x : x \in Callees(w)' <=> x \in Turned(Callees(f))
  <2> TAKE x
  <2>1. x \in Callees(w)' <=> \/ x \in Turned(DOMAIN pure[f].calls)
                              \/ \E i \in DOMAIN updates[f] : x \in Turned(DOMAIN updates[f][i].calls)
    BY <1>2, <1>3, <1>4, <1>5
  <2>2. \A b : b \in Callees(f) <=> \/ b \in DOMAIN pure[f].calls
                                    \/ \E i \in DOMAIN updates[f] : b \in DOMAIN updates[f][i].calls
    BY DEF Callees
  <2> QED BY <2>1, <2>2
<1> QED BY <1>6

LEMMA WrappingEnters ==
    ASSUME GraphInv, ShapeInv, NEW f \in Names, NEW w, NEW A, NEW B, NEW clone,
           Wrapping(f, w, A, B, clone)
    PROVE  Entered(f, w, B, clone) /\ ShapeInv'
<1>1. /\ w \in WrapperFuncs \ DOMAIN made /\ w \in Names /\ w # f /\ w \notin Known
      /\ ~Defined(w) /\ ~frozen[w] /\ f \notin B /\ A \in Callers /\ clone \in BOOLEAN
  BY FreshUnknown DEF Wrapping, GraphInv, FreshInv
<1>2. DOMAIN wrappers[w] = {} /\ updates[w] = <<>>
  BY <1>1 DEF ShapeInv, GraphInv, DefsInv, Blank
<1>3. /\ B \subseteq Known \cup {Global}
      /\ clone => Global \notin B
      /\ Global \in B => A = {}
  BY <1>1, NamesKnown, NamesAssumption DEF Wrapping, Callers, Keys, Names, GraphInv
<1>4. /\ kind \in [Names -> {"undefined", "pure", "extern"}]
      /\ pure \in [Names -> DefType] /\ updates \in [Names -> Seq(DefType)]
      /\ frozen \in [Names -> BOOLEAN] /\ DOMAIN made \subseteq Names
  BY DEF GraphInv, GraphType, Names
<1>5. \A g \in Names \ {w} : kind'[g] = kind[g] /\ pure'[g] = pure[g] /\ updates'[g] = updates[g]
  BY <1>4 DEF Wrapping, create_in_wrapper, create_clone_wrapper
<1>6. \A g \in Names \ {w} : Callees(g)' = Callees(g)
  BY <1>5 DEF Callees
<1>7. /\ Callees(w)' = IF clone THEN {IF b = f THEN w ELSE b : b \in Callees(f)} ELSE {f}
      /\ clone => DOMAIN wrappers[f] = {}
  <2>1. CASE clone
    <3>1. /\ pure'[w] = Cloned(pure[f], f, w) /\ updates'[w] = ClonedUpdates(f, w)
          /\ DOMAIN wrappers[f] = {}
      BY <1>1, <1>4, <2>1 DEF Wrapping, create_clone_wrapper, Defined
    <3>2. Callees(w)' = {IF b = f THEN w ELSE b : b \in Callees(f)}
      BY <3>1, ClonedCallees DEF GraphInv
    <3> QED BY <2>1, <3>1, <3>2
  <2>2. CASE ~clone
    <3> DEFINE e == OneCall(f, dims[f])
               d == [Nothing EXCEPT !.calls = e]
    <3>1. pure' = [pure EXCEPT ![w] = d] /\ updates' = updates /\ kind' = [kind EXCEPT ![w] = "pure"]
      BY <2>2 DEF Wrapping, create_in_wrapper
    <3>2. d.calls = e
      <4> HIDE DEF e
      <4> QED BY DEF Nothing
    <3>3. DOMAIN e = {f}
      BY DEF OneCall
    <3> HIDE DEF d, e
    <3>4. DOMAIN pure'[w].calls = {f} /\ updates'[w] = <<>> /\ kind'[w] = "pure"
      BY <1>1, <1>2, <1>4, <3>1, <3>2, <3>3
    <3>5. Callees(w)' = {f}
      BY <3>4 DEF Callees
    <3> QED BY <2>2, <3>4, <3>5
  <2> QED BY <1>1, <2>1, <2>2
<1> DEFINE r == [of |-> f, clone |-> clone,
                 asked |-> IF f \in A THEN {} ELSE Keys(A), askedClone |-> clone, taken |-> Taken(f)]
<1>8. r.of = f /\ r.clone = clone /\ r.asked = IF f \in A THEN {} ELSE Keys(A)
  OBVIOUS
<1>9. /\ DOMAIN made' = DOMAIN made \cup {w} /\ made'[w] = r
      /\ \A v \in DOMAIN made : made'[v] = made[v] /\ v # w
  <2>1. made' = With(made, [v \in {w} |-> r])
    BY DEF Wrapping
  <2>2. DOMAIN [v \in {w} |-> r] = {w} /\ [v \in {w} |-> r][w] = r
    OBVIOUS
  <2> HIDE DEF r
  <2> QED BY <1>1, <2>1, <2>2 DEF With
<1> HIDE DEF r
<1>10. /\ \A h \in Names \ {f} : wrappers'[h] = wrappers[h]
       /\ DOMAIN wrappers'[f] = DOMAIN wrappers[f] \cup B
       /\ \A g \in DOMAIN wrappers[f] : wrappers'[f][g] = wrappers[f][g] /\ g \notin B
       /\ \A g \in B : wrappers'[f][g] = w
  <2>1. wrappers'[f] = With(wrappers[f], [g \in B |-> w])
    BY DEF Wrapping, GraphInv, GraphType
  <2>2. B \cap DOMAIN wrappers[f] = {}
    BY DEF Wrapping
  <2>3. \A h \in Names \ {f} : wrappers'[h] = wrappers[h]
    BY DEF Wrapping, GraphInv, GraphType
  <2>4. DOMAIN [g \in B |-> w] = B /\ \A g \in B : [b \in B |-> w][g] = w
    OBVIOUS
  <2>5. /\ DOMAIN wrappers'[f] = DOMAIN wrappers[f] \cup B
        /\ \A g \in DOMAIN wrappers[f] : wrappers'[f][g] = wrappers[f][g]
        /\ \A g \in B : wrappers'[f][g] = w
    BY <2>1, <2>2, <2>4 DEF With
  <2> QED BY <2>2, <2>3, <2>5
<1>11. Entered(f, w, B, clone)
  BY <1>1, <1>2, <1>3, <1>6, <1>7, <1>8, <1>9, <1>10 DEF Entered
<1>12. ASSUME NEW v \in DOMAIN made', ~made'[v].clone
       PROVE  Callees(v)' = {made'[v].of}
  <2>1. CASE v = w
    BY <1>7, <1>8, <1>9, <1>12, <2>1
  <2>2. CASE v # w
    <3>1. v \in DOMAIN made /\ v \in Names \ {w} /\ made'[v] = made[v]
      BY <1>4, <1>9, <2>2
    <3> QED BY <1>6, <1>12, <3>1 DEF ShapeInv
  <2> QED BY <2>1, <2>2
<1>13. ASSUME NEW h \in Names, NEW g \in DOMAIN wrappers'[h]
       PROVE  /\ g # h
              /\ g = Global => ~made'[wrappers'[h][g]].clone
              /\ g \in WrapperFuncs => g \in DOMAIN made'
  <2>1. CASE h = f /\ g \in B
    <3>1. g \in WrapperFuncs => g \in DOMAIN made
      BY <1>3, <2>1, NamesAssumption DEF Known, Returned, Names
    <3> QED BY <1>1, <1>3, <1>8, <1>9, <1>10, <2>1, <3>1
  <2>2. CASE ~(h = f /\ g \in B)
    <3>1. g \in DOMAIN wrappers[h] /\ wrappers'[h][g] = wrappers[h][g]
      BY <1>10, <2>2
    <3>2. wrappers[h][g] \in DOMAIN made
      BY <3>1, WrapperNamed DEF GraphInv
    <3>3. /\ g # h
          /\ g = Global => ~made[wrappers[h][g]].clone
          /\ g \in WrapperFuncs => g \in DOMAIN made
      BY <3>1 DEF ShapeInv
    <3> QED BY <1>9, <3>1, <3>2, <3>3
  <2> QED BY <2>1, <2>2
<1>14. ASSUME NEW v \in WrapperFuncs \ DOMAIN made'
       PROVE  DOMAIN wrappers'[v] = {}
  <2>1. v \in WrapperFuncs \ DOMAIN made /\ v # w /\ v \in Names /\ v # f
    <3>1. v \in WrapperFuncs \ DOMAIN made /\ v # w
      BY <1>9
    <3>2. f \in Known
      BY DEF Wrapping
    <3> QED BY <3>1, <3>2, FreshUnknown DEF GraphInv
  <2> QED BY <1>10, <2>1 DEF ShapeInv
<1>15. ShapeInv'
  BY <1>12, <1>13, <1>14 DEF ShapeInv
<1> QED BY <1>11, <1>15

(* Above P there is room for w: what w calls, or may call instead, is in P,*)
(* and who may call w is above P.                                          *)
Room(R, P, f, w, clone) ==
    /\ P \in SUBSET (Names \ {w}) /\ f \in P
    /\ \A x \in Names \ {w} : \A p \in P : <<x, p>> \in R => x \in P
    /\ \A c \in Callees(w)' \ {w} : c \in P
    /\ \A g \in Names \ {w} : <<f, g>> \in R /\ (~clone \/ ~Wraps(g))
                                 => \A p \in P : <<p, g>> \in R
    /\ clone => \A c \in P : Global \in DOMAIN wrappers[c] => wrappers[c][Global] \in P

LEMMA EnteredOrders ==
    ASSUME GraphInv, ShapeInv, NEW f, NEW w, NEW B, NEW clone \in BOOLEAN, Entered(f, w, B, clone),
           ShapeInv', NEW R \in SUBSET (Names \X Names), Order(R), Fits(R),
           NEW P, Room(R, P, f, w, clone)
    PROVE  OrderInv'
<1>0. /\ P \in SUBSET (Names \ {w}) /\ f \in P
      /\ \A x \in Names \ {w} : \A p \in P : <<x, p>> \in R => x \in P
      /\ \A c \in Callees(w)' \ {w} : c \in P
      /\ \A g \in Names \ {w} : <<f, g>> \in R /\ (~clone \/ ~Wraps(g))
                                   => \A p \in P : <<p, g>> \in R
      /\ clone => \A c \in P : Global \in DOMAIN wrappers[c] => wrappers[c][Global] \in P
  BY DEF Room
<1>1. /\ f \in Names /\ w \in WrapperFuncs \ DOMAIN made /\ w \in Names /\ w # f /\ ~Defined(w)
      /\ f \notin B
      /\ \A g \in Names \ {w} : Callees(g)' = Callees(g)
      /\ w \notin Known
  BY FreshUnknown DEF Entered, GraphInv
<1>2. PICK Q : Q = Inserted(R, w, P)
  OBVIOUS
<1>3. /\ Order(Q) /\ Q \in SUBSET (Names \X Names)
      /\ \A x, y \in Names : <<x, y>> \in Q <=>
            \/ <<x, y>> \in R /\ x # w /\ y # w
            \/ x \in P /\ y = w
            \/ x = w /\ y # w /\ \A q \in P : <<q, y>> \in R
  <2>1. Inserted(R, w, P) \in SUBSET (Names \X Names)
    BY DEF Inserted
  <2> QED BY <1>0, <1>1, <1>2, <2>1, InsertedOrder
<1>4. \A h \in Names : \A g \in DOMAIN wrappers[h] :
         /\ wrappers[h][g] \in Names /\ wrappers[h][g] # w
         /\ g \in Names => g # w
  <2> TAKE h \in Names
  <2> TAKE g \in DOMAIN wrappers[h]
  <2>1. wrappers[h][g] \in DOMAIN made /\ wrappers[h][g] \in Names
    BY WrapperNamed DEF GraphInv
  <2>2. g \in WrapperFuncs => g \in DOMAIN made
    BY DEF ShapeInv
  <2> QED BY <1>1, <2>1, <2>2
<1>5. CalledBelow(Q)'
  <2>1. ASSUME NEW g \in Names, NEW c \in Callees(g)' \ {g} PROVE <<c, g>> \in Q
    <3>1. CASE g = w
      BY <1>0, <1>1, <1>3, <2>1, <3>1
    <3>2. CASE g # w
      <4>1. c \in Callees(g) \ {g}
        BY <1>1, <2>1, <3>2
      <4>2. c \in Names /\ Finished(c)
        BY <4>1, CalledFinished
      <4>3. c # w
        BY <1>1, <4>2 DEF Finished
      <4> QED BY <1>3, <3>2, <4>1, <4>2, <4>3 DEF Fits, CalledBelow
    <3> QED BY <3>1, <3>2
  <2> QED BY <2>1 DEF CalledBelow
<1>6. OwnBelow(Q)'
  <2>1. ASSUME NEW c \in Names, NEW g \in DOMAIN wrappers'[c] \cap Names, c \in Callees(g)'
        PROVE  <<wrappers'[c][g], g>> \in Q
    <3>1. CASE c = f /\ g \in B
      <4>1. wrappers'[c][g] = w /\ g # f /\ g \in Known /\ g # w
        BY <1>1, <3>1, NamesAssumption DEF Entered, Names
      <4>2. f \in Callees(g)
        BY <1>1, <2>1, <3>1, <4>1
      <4>3. <<f, g>> \in R
        BY <4>1, <4>2 DEF Fits, CalledBelow
      <4>4. clone => ~Wraps(g)
        <5> SUFFICES ASSUME clone, Wraps(g) PROVE FALSE
          OBVIOUS
        <5>1. g \in DOMAIN made /\ made[g].of = f
          BY <4>2 DEF Wraps, ShapeInv
        <5>2. made[g].asked # {}
          <6>1. g \notin Funcs
            BY <5>1, NamesAssumption DEF GraphInv, GraphType
          <6> QED BY <4>1, <6>1 DEF Known, Returned
        <5>3. Sharers(g) # {} /\ Sharers(g) \subseteq DOMAIN wrappers[f]
          BY <5>1, <5>2 DEF GraphInv, WrapInv, WrapperNotShared, Returned, Sharers
        <5> QED BY <5>3 DEF Entered
      <4>5. \A p \in P : <<p, g>> \in R
        BY <1>0, <4>1, <4>3, <4>4
      <4> QED BY <1>1, <1>3, <4>1, <4>5
    <3>2. CASE ~(c = f /\ g \in B)
      <4>1. g \in DOMAIN wrappers[c] /\ wrappers'[c][g] = wrappers[c][g]
        BY <3>2 DEF Entered
      <4>2. wrappers[c][g] \in Names /\ wrappers[c][g] # w /\ g # w
        BY <1>4, <4>1
      <4>3. <<wrappers[c][g], g>> \in R
        BY <1>1, <2>1, <4>1, <4>2 DEF Fits, OwnBelow
      <4> QED BY <1>3, <4>1, <4>2, <4>3
    <3> QED BY <3>1, <3>2
  <2> QED BY <2>1 DEF OwnBelow
<1>7. GlobalBelow(Q)'
  <2>1. ASSUME NEW c \in Names, NEW g \in Names, Global \in DOMAIN wrappers'[c],
               <<c, g>> \in Q, ~(g \in DOMAIN made' /\ ~made'[g].clone)
        PROVE  <<wrappers'[c][Global], g>> \in Q
    <3>1. c # w
      BY <2>1, <1>1 DEF Entered
    <3>2. g = w => clone
      BY <2>1 DEF Entered
    <3>3. g # w => <<c, g>> \in R /\ ~Wraps(g)
      BY <1>3, <2>1, <3>1 DEF Entered, Wraps
    <3>4. CASE c = f /\ Global \in B
      <4>1. ~clone /\ wrappers'[c][Global] = w /\ g # w
        BY <3>2, <3>4 DEF Entered
      <4>2. \A p \in P : <<p, g>> \in R
        BY <1>0, <3>3, <3>4, <4>1
      <4> QED BY <1>1, <1>3, <4>1, <4>2
    <3>5. CASE ~(c = f /\ Global \in B)
      <4>1. Global \in DOMAIN wrappers[c] /\ wrappers'[c][Global] = wrappers[c][Global]
        BY <2>1, <3>5 DEF Entered
      <4>2. wrappers[c][Global] \in Names /\ wrappers[c][Global] # w
        BY <1>4, <4>1
      <4>3. CASE g = w
        <5>1. c \in P
          BY <1>0, <1>3, <2>1, <3>1, <4>3
        <5> QED BY <1>0, <1>1, <1>3, <3>2, <4>1, <4>2, <4>3, <5>1
      <4>4. CASE g # w
        <5>1. <<wrappers[c][Global], g>> \in R
          BY <3>3, <4>1, <4>4 DEF Fits, GlobalBelow
        <5> QED BY <1>3, <4>1, <4>2, <4>4, <5>1
      <4> QED BY <4>3, <4>4
    <3> QED BY <3>4, <3>5
  <2> QED BY <2>1 DEF GlobalBelow, Wraps
<1> QED BY <1>3, <1>5, <1>6, <1>7 DEF OrderInv, Fits

LEMMA InWrapperOrders ==
    ASSUME GraphInv, OrderInv, NEW f, NEW w, NEW B, NEW clone \in BOOLEAN, ~clone,
           Entered(f, w, B, clone), ShapeInv'
    PROVE  OrderInv'
<1>1. ShapeInv /\ \E R \in SUBSET (Names \X Names) : Order(R) /\ Fits(R)
  BY DEF OrderInv
<1>2. PICK R \in SUBSET (Names \X Names) : Order(R) /\ Fits(R)
  BY <1>1
<1>3. f \in Names /\ w # f
  BY DEF Entered
<1>4. PICK P : P = {x \in Names \ {w} : x = f \/ <<x, f>> \in R}
  OBVIOUS
<1>5. P \in SUBSET (Names \ {w}) /\ f \in P
  BY <1>3, <1>4
<1>6. \A x \in Names \ {w} : \A p \in P : <<x, p>> \in R => x \in P
  BY <1>2, <1>3, <1>4 DEF Order
<1>7. \A c \in Callees(w)' \ {w} : c \in P
  BY <1>5 DEF Entered
<1>8. \A g \in Names \ {w} : <<f, g>> \in R => \A p \in P : <<p, g>> \in R
  BY <1>2, <1>3, <1>4 DEF Order
<1>9. Room(R, P, f, w, clone)
  BY <1>5, <1>6, <1>7, <1>8 DEF Room
<1> QED BY <1>1, <1>2, <1>9, EnteredOrders

LEMMA CloneOrders ==
    ASSUME GraphInv, OrderInv, NEW f, NEW w, NEW B, NEW clone \in BOOLEAN, clone,
           Entered(f, w, B, clone), ShapeInv'
    PROVE  OrderInv'
<1>1. ShapeInv /\ \E R \in SUBSET (Names \X Names) : Order(R) /\ Fits(R)
  BY DEF OrderInv
<1>2. PICK R \in SUBSET (Names \X Names) : Order(R) /\ Fits(R)
  BY <1>1
<1>3. f \in Names /\ w # f /\ w \in WrapperFuncs \ DOMAIN made /\ ~Defined(w)
      /\ Callees(w)' = {IF b = f THEN w ELSE b : b \in Callees(f)}
  BY DEF Entered
<1> DEFINE Others == Names \ {w}
           Closed(Z) == /\ f \in Z
                        /\ \A x \in Others : \A z \in Z : <<x, z>> \in R => x \in Z
                        /\ \A c \in Z : Global \in DOMAIN wrappers[c] => wrappers[c][Global] \in Z
<1>4. \A c \in Names : Global \in DOMAIN wrappers[c] => wrappers[c][Global] \in Others
  BY <1>3, WrapperNamed DEF GraphInv
<1>5. PICK P : P = {x \in Others : \A Z \in SUBSET Others : Closed(Z) => x \in Z}
  OBVIOUS
<1>6. P \in SUBSET Others /\ \A Z \in SUBSET Others : Closed(Z) => P \subseteq Z
  BY <1>5
<1>7. f \in P
  BY <1>3, <1>5
<1>8. \A x \in Others : \A p \in P : <<x, p>> \in R => x \in P
  BY <1>5
<1>9. \A c \in P : Global \in DOMAIN wrappers[c] => wrappers[c][Global] \in P
  BY <1>4, <1>5
<1>10. ASSUME NEW c \in Callees(w)' \ {w} PROVE c \in P
  <2>1. c \in Callees(f) \ {f}
    BY <1>3
  <2>2. c \in Names /\ Finished(c) /\ <<c, f>> \in R
    BY <1>2, <1>3, <2>1, CalledFinished DEF Fits, CalledBelow
  <2>3. c # w
    BY <1>3, <2>2 DEF Finished
  <2> QED BY <1>7, <1>8, <2>2, <2>3
<1>11. ASSUME NEW g \in Names \ {w}, <<f, g>> \in R, ~Wraps(g)
       PROVE  \A p \in P : <<p, g>> \in R
  <2> DEFINE Z == {x \in Others : <<x, g>> \in R}
  <2>1. f \in Z
    BY <1>3, <1>11
  <2>2. \A x \in Others : \A z \in Z : <<x, z>> \in R => x \in Z
    BY <1>2 DEF Order
  <2>3. \A c \in Z : Global \in DOMAIN wrappers[c] => wrappers[c][Global] \in Z
    BY <1>2, <1>4, <1>11 DEF Fits, GlobalBelow
  <2>4. P \subseteq Z
    <3> HIDE DEF Z
    <3>1. Z \in SUBSET Others
      BY DEF Z
    <3> QED BY <1>6, <2>1, <2>2, <2>3, <3>1
  <2> QED BY <2>4
<1>12. P \in SUBSET (Names \ {w})
  BY <1>6
<1>13. \A x \in Names \ {w} : \A p \in P : <<x, p>> \in R => x \in P
  BY <1>8
<1>14. \A c \in Callees(w)' \ {w} : c \in P
  BY <1>10
<1>15. \A g \in Names \ {w} : <<f, g>> \in R /\ (~clone \/ ~Wraps(g))
                                 => \A p \in P : <<p, g>> \in R
  BY <1>11
<1>16. clone => \A c \in P : Global \in DOMAIN wrappers[c] => wrappers[c][Global] \in P
  BY <1>9
<1> HIDE DEF Others, Closed
<1>17. Room(R, P, f, w, clone)
  BY <1>7, <1>12, <1>13, <1>14, <1>15, <1>16 DEF Room
<1> QED BY <1>1, <1>2, <1>17, EnteredOrders

LEMMA StepOrders ==
    ASSUME GraphInv, OrderInv, Unchecked = {}, [Next]_vars
    PROVE  OrderInv'
<1>0. ShapeInv
  BY DEF OrderInv
<1>1. CASE UNCHANGED vars
  <2>1. UNCHANGED <<kind, dims, pure, updates, frozen, wrappers, made, piped, calls>>
    BY <1>1 DEF vars, graph
  <2> QED BY <2>1, QuietOrders DEF Callees
<1>2. CASE Next
  <2>1. PICK f \in Names : \/ Define(f) \/ Update(f) \/ Accumulate(f) \/ AccumulateFromBase(f)
                           \/ define_extern(f) \/ copy_to_device(f) \/ MakePipeline(f)
                           \/ NewWrapper(f) \/ FoundWrapper(f)
    BY <1>2 DEF Next
  <2>2. CASE Define(f) \/ Update(f) \/ Accumulate(f) \/ AccumulateFromBase(f) \/ define_extern(f)
    <3>1. Written(f)
      BY <2>2, DefineWrites, UpdateWrites, AccumulateFromBaseWrites, ExternWrites
    <3>2. CASE f \notin DOMAIN made
      BY <3>1, <3>2, WrittenOrders
    <3>3. CASE f \in DOMAIN made
      <4>1. \A g \in Names : Callees(g)' = Callees(g)
        BY <3>1, <3>3, WrittenCallees
      <4> QED BY <3>1, <4>1, QuietOrders DEF Written
    <3> QED BY <3>2, <3>3
  <2>3. CASE copy_to_device(f) \/ MakePipeline(f)
    <3>1. UNCHANGED <<pure, updates, wrappers, made>>
      BY <2>3 DEF copy_to_device, MakePipeline
    <3> QED BY <3>1, QuietOrders DEF Callees
  <2>4. CASE FoundWrapper(f)
    <3>1. PICK A \in Callers, clone \in BOOLEAN : \E first \in Keys(A) \cap DOMAIN wrappers[f] :
            made' = [made EXCEPT ![wrappers[f][first]].asked = Keys(A),
                                 ![wrappers[f][first]].askedClone = clone]
      BY <2>4 DEF FoundWrapper
    <3>2. PICK first \in Keys(A) \cap DOMAIN wrappers[f] :
            made' = [made EXCEPT ![wrappers[f][first]].asked = Keys(A),
                                 ![wrappers[f][first]].askedClone = clone]
      BY <3>1
    <3>3. UNCHANGED <<pure, updates, wrappers>>
      BY <2>4 DEF FoundWrapper
    <3> DEFINE w == wrappers[f][first]
    <3>4. w \in DOMAIN made
      BY WrapperNamed DEF GraphInv
    <3>5. /\ DOMAIN made' = DOMAIN made
          /\ made'[w] = [made[w] EXCEPT !.asked = Keys(A), !.askedClone = clone]
          /\ \A v \in DOMAIN made \ {w} : made'[v] = made[v]
      BY <3>2, <3>4
    <3>6. made'[w].of = made[w].of /\ made'[w].clone = made[w].clone
      <4>1. made[w] \in MadeType
        BY <3>4 DEF GraphInv, GraphType
      <4> HIDE DEF w
      <4> QED BY <3>5, <4>1 DEF MadeType
    <3> HIDE DEF w
    <3>7. \A v \in DOMAIN made : made'[v].of = made[v].of /\ made'[v].clone = made[v].clone
      BY <3>5, <3>6
    <3> QED BY <3>3, <3>5, <3>7, QuietOrders DEF Callees
  <2>5. CASE NewWrapper(f)
    <3>1. PICK A \in Callers, clone \in BOOLEAN : \E B \in SUBSET Keys(A) :
             Wrapping(f, Fresh, A, B, clone)
      BY <2>5, NewWraps
    <3>0. PICK w : w = Fresh
      OBVIOUS
    <3>2. PICK B \in SUBSET Keys(A) : Wrapping(f, w, A, B, clone)
      BY <3>1, <3>0
    <3>3. Entered(f, w, B, clone) /\ ShapeInv'
      BY <1>0, <3>0, <3>2, WrappingEnters
    <3> QED BY <3>3, InWrapperOrders, CloneOrders
  <2> QED BY <2>1, <2>2, <2>3, <2>4, <2>5
<1> QED BY <1>1, <1>2

LEMMA InitOrders ==
    ASSUME Init PROVE OrderInv
<1>1. /\ pure = [f \in Names |-> Nothing] /\ updates = [f \in Names |-> <<>>]
      /\ DOMAIN made = {} /\ \A f \in Names : DOMAIN wrappers[f] = {}
  BY DEF Init
<1>2. ShapeInv
  BY <1>1 DEF ShapeInv, Names
<1>3. \A g \in Names : Callees(g) = {}
  <2>1. DOMAIN Nothing.calls = {}
    BY DEF Nothing, NoCalls
  <2> HIDE DEF Nothing
  <2> QED BY <1>1, <2>1 DEF Callees
<1>4. Order({})
  BY DEF Order
<1>5. Fits({})
  BY <1>1, <1>3 DEF Fits, CalledBelow, OwnBelow, GlobalBelow
<1> QED BY <1>2, <1>4, <1>5 DEF OrderInv

(* Lowering goes down in the order.                                        *)
LEMMA LoweredDown ==
    ASSUME GraphInv, ShapeInv, NEW R, Fits(R), NEW g \in Names, NEW b \in LoweredCallees(g)
    PROVE  <<b, g>> \in R
<1>1. PICK c \in Callees(g) : b = LoweredCallee(g, c) /\ b # g
  BY DEF LoweredCallees
<1>2. c \in Names
  BY CalleesOf DEF GraphInv
<1>3. c # g => <<c, g>> \in R
  BY <1>1 DEF Fits, CalledBelow
<1>4. CASE g \in DOMAIN wrappers[c]
  BY <1>1, <1>2, <1>4 DEF LoweredCallee, Fits, OwnBelow
<1>5. CASE g \notin DOMAIN wrappers[c] /\ Global \in DOMAIN wrappers[c] /\ g # c /\ g \notin WrappersOf(c)
  <2>1. ~Wraps(g)
    BY <1>1, <1>5 DEF Wraps, ShapeInv, WrappersOf
  <2>2. b = wrappers[c][Global]
    BY <1>1, <1>5 DEF LoweredCallee
  <2> QED BY <1>2, <1>3, <1>5, <2>1, <2>2 DEF Fits, GlobalBelow
<1>6. CASE g \notin DOMAIN wrappers[c]
             /\ ~(Global \in DOMAIN wrappers[c] /\ g # c /\ g \notin WrappersOf(c))
  BY <1>1, <1>3, <1>6 DEF LoweredCallee
<1> QED BY <1>4, <1>5, <1>6

(* After lowering has put in the wrappers, no Func depends on itself but   *)
(* by a reference in its own updates, whatever is defined, updated,        *)
(* wrapped globally or for some callers, or cloned, and in whatever order  *)
(* (FreezeFunctions and frozen(), Function.cpp; create_clone_wrapper and   *)
(* add_wrapper, Func.cpp).                                                 *)
THEOREM LoweredAcyclicThm == ASSUME Unchecked = {} PROVE Spec => []LoweredAcyclic
<1>1. GraphInv /\ OrderInv => LoweredAcyclic
  <2> SUFFICES ASSUME GraphInv, OrderInv PROVE LoweredAcyclic
    OBVIOUS
  <2>0. ShapeInv /\ \E R \in SUBSET (Names \X Names) : Order(R) /\ Fits(R)
    BY DEF OrderInv
  <2>1. PICK R \in SUBSET (Names \X Names) : Order(R) /\ Fits(R)
    BY <2>0
  <2>2. ASSUME NEW S \in SUBSET Names, S # {} PROVE \E f \in S : LoweredCallees(f) \cap S = {}
    <3>1. PICK f \in S : \A y \in S : <<y, f>> \notin R
      BY <2>1, <2>2 DEF Order
    <3>2. LoweredCallees(f) \cap S = {}
      BY <2>0, <2>1, <3>1, LoweredDown
    <3> QED BY <3>2
  <2> QED BY <2>2 DEF LoweredAcyclic
<1>2. GraphInv /\ OrderInv /\ [Next]_vars => GraphInv' /\ OrderInv'
  BY StepKeeps, StutterKeeps, StepOrders
<1>3. Init => GraphInv /\ OrderInv
  BY InitIInv, InitOrders
<1> QED BY <1>1, <1>2, <1>3, PTL DEF Spec

-----------------------------------------------------------------------------
(***************************************************************************)
(* The cache of compiled pipelines keeps what the code promises for every  *)
(* number of pipelines, threads, targets, requirements and inputs, whatever *)
(* the author and the threads call: until calls have overlapped of which   *)
(* one found no code to use, and but for what the history variables name.  *)
(***************************************************************************)

Kinds == {"loop", "storage", "bound", "copied", "producers"}
Aspects == Kinds \cup {"requirements", "traced", "externs"}
Arguing == {"requirements", "bound", "producers"}
ArgNames == {"bound", "producers"} \cup Conditions
KnownTargets == Targets \cup {"unknown"}

Versions == [sched : SUBSET Kinds, reqs : SUBSET Conditions, traced : BOOLEAN, passes : Nat]
Codes == {None} \cup
         [compiled : {TRUE}, target : Targets, version : Versions, args : SUBSET ArgNames]
Links == UNION {[E -> Codes] : E \in SUBSET Pipes}

Contents ==
    [reqs : SUBSET Conditions, traced : BOOLEAN, passes : Nat, externs : SUBSET Pipes,
     target : KnownTargets, args : SUBSET ArgNames, code : Codes, linked : Links,
     missed : SUBSET Aspects, failed : BOOLEAN]

Partial == UNION {[O -> 0 .. MaxSize] : O \in SUBSET Inputs}
Asks == [given : [Inputs -> {Unbound, MaxSize}], required : Queries]
Compiling == {"check", "set", "lower", "link"}
Places == {"resolve", "prepare", "call", "query"} \cup Compiling

Working ==
    [pc : Places, op : {"realize", "bounds", "compile"}, pipe : Pipes, at : Pipes,
     want : KnownTargets, links : Links, iter : 0 .. MaxIters, query : Partial,
     ask : {<<>>} \cup Asks, args : SUBSET ArgNames]

JitTypeOK ==
    /\ sched \in SUBSET Kinds
    /\ contents \in [Pipes -> Contents]
    /\ thread \in [Threads -> {Idle} \cup Working]
    /\ fault \in SUBSET {"race", "error", "cache"}
    /\ raced \in BOOLEAN

-----------------------------------------------------------------------------
(* The invariant.                                                          *)

ExternsInv ==
    \A p \in Pipes : /\ contents[p].externs \subseteq Pipes \ {Own}
                     /\ p # Own => contents[p].externs = {}

(* A thread has a target once it has resolved it; a query is about the     *)
(* inputs that the author left open.                                       *)
Asking(r) ==
    /\ r.op # "realize"
    /\ r.ask \in Asks
    /\ DOMAIN r.query = {i \in Inputs : r.ask.given[i] = Unbound}
Shape(r) == /\ r.pc \notin {"idle", "resolve"} => r.want \in Targets
            /\ r.pc = "query" => Asking(r)

TypesInv == JitTypeOK /\ ExternsInv /\ \A t \in Threads : Shape(thread[t])

(* Between two calls there is no code and no target, or both, and then the *)
(* code, its arguments and what is linked to it are current but for what   *)
(* has been missed.                                                        *)
Empty(p) == contents[p].target = "unknown" /\ contents[p].code = None
LinkedNow(c, q) == /\ c.linked[q].version = Version(contents[q])
                   /\ c.linked[q].target = c.target
Current(p) ==
    LET c == contents[p]
    IN /\ c.target \in Targets /\ c.code.compiled /\ c.code.target = c.target
       /\ Differs(c.code.version, Version(c)) \subseteq c.missed
       /\ c.missed \cap Arguing = {} => c.code.args = Params(c) /\ c.args = Params(c)
       /\ c.target \notin Wasm /\ "externs" \notin c.missed => \A q \in c.externs : LinkedNow(c, q)
Fine(p) == ~contents[p].failed /\ (Empty(p) \/ Current(p))

(* While a thread compiles, and after it has failed, there is a target     *)
(* without code.                                                           *)
Half(p) == contents[p].target \in Targets /\ contents[p].code = None
CompiledBy(p, t) ==
    \/ thread[t].pc \in {"lower", "link"} /\ thread[t].at = p
    \/ thread[t].pc \in Compiling /\ thread[t].pipe = p /\ thread[t].at # p
CacheInv ==
    \A p \in Pipes :
       Fine(p) \/ (Half(p) /\ (contents[p].failed \/ \E t \in Threads : CompiledBy(p, t)))

(* Threads are inside at the same time only where nothing is compiled.     *)
Serene(t) ==
    /\ thread[t].op = "realize"
    /\ thread[t].pc \in {"resolve", "check", "prepare", "call"}
    /\ thread[t].at = thread[t].pipe
    /\ Settled(thread[t].pipe, thread[t].want)
AloneInv == \A t, u \in Threads : t # u /\ Busy(t) /\ Busy(u) => Serene(t)

(* What a thread finds at every place.                                     *)
Built(p, want) ==
    /\ Half(p) /\ ~contents[p].failed
    /\ contents[p].target = want /\ contents[p].args = Params(contents[p])
LinksInv(t) ==
    \A q \in DOMAIN thread[t].links :
       /\ q \in contents[thread[t].pipe].externs /\ q # thread[t].at
       /\ Fine(q) /\ contents[q].target = thread[t].want
       /\ thread[t].links[q] = Native(contents[q])
ThreadInv(t) ==
    LET p == thread[t].pipe
        q == thread[t].at
        want == thread[t].want
    IN /\ thread[t].pc = "resolve" => q = p /\ thread[t].links = NoLinks
       /\ thread[t].pc \in Compiling =>
             /\ LinksInv(t)
             /\ q # p => q \in contents[p].externs /\ Built(p, want)
       /\ thread[t].pc = "set" => Empty(q) /\ ~contents[q].failed
       /\ thread[t].pc \in {"lower", "link"} => Built(q, want)
       /\ thread[t].pc \in {"prepare", "call", "query"} =>
             q = p /\ Fine(p) /\ contents[p].target = want
       /\ thread[t].pc \in {"call", "query"} => thread[t].args = contents[p].args

PlaceInv == \A t \in Threads : ThreadInv(t)

Ordered == CacheInv /\ AloneInv /\ PlaceInv
JitInv == TypesInv /\ "cache" \notin fault /\ (raced \/ Ordered)

-----------------------------------------------------------------------------
(* Facts about contents.                                                   *)

LEMMA NoLinksType == NoLinks \in Links /\ DOMAIN NoLinks = {}
<1>1. NoLinks \in [{} -> Codes]
  BY DEF NoLinks
<1> QED BY <1>1 DEF Links, NoLinks

LEMMA InitJit == PipelineInit => JitInv
<1> SUFFICES ASSUME PipelineInit PROVE JitInv OBVIOUS
<1> USE DEF PipelineInit, NewContents, Idle
<1>1. JitTypeOK
  BY NoLinksType DEF JitTypeOK, Contents, Codes, Kinds, ArgNames, KnownTargets
<1>2. TypesInv
  BY <1>1 DEF TypesInv, ExternsInv, Shape
<1>3. CacheInv
  BY DEF CacheInv, Fine, Empty
<1>4. AloneInv /\ PlaceInv
  BY DEF AloneInv, PlaceInv, ThreadInv, Compiling, Busy
<1> QED BY <1>2, <1>3, <1>4 DEF JitInv, Ordered

\* What a pipeline without code holds is fine.
LEMMA InvalidatedFine ==
    ASSUME NEW c \in Contents
    PROVE  /\ invalidate_cache(c) \in Contents
           /\ invalidate_cache(c).target = "unknown" /\ invalidate_cache(c).code = None
           /\ ~invalidate_cache(c).failed
           /\ invalidate_cache(c).externs = c.externs /\ invalidate_cache(c).passes = c.passes
           /\ Params(invalidate_cache(c)) = Params(c) /\ Version(invalidate_cache(c)) = Version(c)
BY NoLinksType DEF Contents, Codes, KnownTargets, invalidate_cache, Params, Version

\* A target is known if and only if there is code for it.
LEMMA FineReality ==
    ASSUME JitTypeOK, NEW p \in Pipes, Fine(p)
    PROVE  /\ RealityCheck(contents[p])
           /\ Compiled(p) <=> Current(p)
           /\ Compiled(p) <=> contents[p].target # "unknown"
BY TargetsAssumption DEF JitTypeOK, Fine, Empty, Current, RealityCheck, None, Compiled

LEMMA HalfNotCompiled ==
    \A p \in Pipes : /\ Half(p) \/ Empty(p) => ~Compiled(p)
                     /\ Half(p) => ~RealityCheck(contents[p])
BY TargetsAssumption DEF Half, Empty, Compiled, None, RealityCheck

\* Versions that differ in nothing are the same.
LEMMA DiffersNone ==
    ASSUME NEW v \in Versions, NEW w \in Versions, Differs(v, w) = {}
    PROVE  v = w
<1>1. v.sched = w.sched
  BY DEF Differs, SymDiff
<1>2. v.reqs = w.reqs /\ v.traced = w.traced /\ v.passes = w.passes
  BY DEF Differs
<1> QED BY <1>1, <1>2 DEF Versions

LEMMA LoweredType ==
    ASSUME JitTypeOK, NEW c \in Contents, NEW target \in Targets
    PROVE  /\ Version(c) \in Versions /\ Params(c) \in SUBSET ArgNames
           /\ Lowered(c, target) \in Codes
           /\ Lowered(c, target).compiled /\ Lowered(c, target).target = target
           /\ Lowered(c, target).version = Version(c) /\ Lowered(c, target).args = Params(c)
           /\ Differs(Version(c), Version(c)) = {}
<1>1. Version(c) \in Versions /\ Params(c) \in SUBSET ArgNames
  BY DEF Version, Params, Versions, Contents, ArgNames, JitTypeOK
<1>2. Differs(Version(c), Version(c)) = {}
  BY DEF Differs, SymDiff
<1> QED BY <1>1, <1>2 DEF Lowered, Codes

\* A pipeline stays fine when what changes is noted as missed.
LEMMA ChangedFine ==
    ASSUME NEW p \in Pipes, NEW A, NEW c, NEW d, c = contents[p], d = contents'[p], Fine(p),
           d.target = c.target, d.code = c.code, d.linked = c.linked, d.externs = c.externs,
           d.failed = c.failed, d.passes = c.passes,
           c.code.compiled => d.missed = c.missed \cup A,
           SymDiff(sched, sched') \subseteq A,
           d.reqs # c.reqs => "requirements" \in A, d.traced # c.traced => "traced" \in A,
           d.args = c.args \/ d.args = Params(d)',
           "externs" \notin A => \A q \in c.externs : Version(contents[q])' = Version(contents[q])
    PROVE  Fine(p)'
<1>1. CASE Empty(p)
  BY <1>1 DEF Fine, Empty
<1>2. CASE Current(p)
  <2>1. d.missed = c.missed \cup A
    BY <1>2 DEF Current
  <2> DEFINE v == c.code.version
  <2>2. Differs(v, Version(d))' \subseteq d.missed
    <3>1. Differs(v, Version(c)) \subseteq c.missed
      BY <1>2 DEF Current
    <3>2. SymDiff(v.sched, sched') \subseteq SymDiff(v.sched, sched) \cup SymDiff(sched, sched')
      BY DEF SymDiff
    <3>3. SymDiff(v.sched, sched) \subseteq c.missed
      BY <3>1 DEF Differs, Version
    <3>4. v.reqs # c.reqs => "requirements" \in c.missed
      BY <3>1 DEF Differs, Version
    <3>5. v.traced # c.traced => "traced" \in c.missed
      BY <3>1 DEF Differs, Version
    <3>6. v.passes # c.passes => "passes" \in c.missed
      BY <3>1 DEF Differs, Version
    <3>7. \A x \in Differs(v, Version(d))' : x \in c.missed \cup A
      BY <3>2, <3>3, <3>4, <3>5, <3>6 DEF Differs, Version
    <3> QED BY <2>1, <3>7
  <2>3. ASSUME d.missed \cap Arguing = {}
        PROVE  c.code.args = Params(d)' /\ d.args = Params(d)'
    <3>1. c.missed \cap Arguing = {} /\ A \cap Arguing = {}
      BY <2>1, <2>3
    <3>2. d.reqs = c.reqs
      BY <3>1 DEF Arguing
    <3>3. sched \cap {"bound", "producers"} = sched' \cap {"bound", "producers"}
      BY <3>1 DEF SymDiff, Arguing
    <3>4. Params(d)' = Params(c)
      BY <3>2, <3>3 DEF Params
    <3>5. c.code.args = Params(c) /\ c.args = Params(c)
      BY <1>2, <3>1 DEF Current
    <3> QED BY <3>4, <3>5
  <2>4. ASSUME d.target \notin Wasm, "externs" \notin d.missed, NEW q \in d.externs
        PROVE  LinkedNow(d, q)'
    <3>1. LinkedNow(c, q)
      BY <1>2, <2>1, <2>4 DEF Current
    <3>2. Version(contents[q])' = Version(contents[q])
      BY <2>1, <2>4
    <3> QED BY <3>1, <3>2 DEF LinkedNow
  <2>5. Current(p)'
    BY <1>2, <2>2, <2>3, <2>4 DEF Current
  <2> QED BY <1>2, <2>5 DEF Fine
<1> QED BY <1>1, <1>2 DEF Fine

\* A pipeline is left alone and the sources of what it calls stay.
LEMMA StaysFine ==
    ASSUME TypesInv, NEW p \in Pipes, sched' = sched, contents'[p] = contents[p], Fine(p),
           \A q \in contents[p].externs : Version(contents[q])' = Version(contents[q])
    PROVE  Fine(p)'
<1>1. SymDiff(sched, sched') = {}
  BY DEF SymDiff
<1> QED BY <1>1, ChangedFine

-----------------------------------------------------------------------------
(* The steps of the author: nobody is inside.                              *)

LEMMA AuthorRebuild ==
    ASSUME JitInv, Quiet, UNCHANGED <<thread, fault, raced>>,
           sched' \in SUBSET Kinds, contents' \in [Pipes -> Contents], ExternsInv',
           Ordered => \A p \in Pipes : Fine(p)' \/ (Half(p) /\ contents[p].failed)'
    PROVE  JitInv'
<1>1. TypesInv'
  BY DEF JitInv, TypesInv, JitTypeOK
<1>2. Quiet'
  BY DEF Quiet, Busy
<1>3. AloneInv' /\ PlaceInv'
  BY <1>2 DEF Quiet, AloneInv, PlaceInv, ThreadInv, Compiling, Busy
<1>4. Ordered => CacheInv'
  BY DEF CacheInv
<1> QED BY <1>1, <1>3, <1>4 DEF JitInv, Ordered

\* Nobody compiles, so that only a failure has left a target without code.
LEMMA QuietCache ==
    ASSUME Ordered, Quiet, NEW p \in Pipes
    PROVE  Fine(p) \/ (Half(p) /\ contents[p].failed)
BY DEF Ordered, CacheInv, CompiledBy, Compiling, Quiet, Busy

LEMMA MissingFields ==
    ASSUME NEW c \in Contents, NEW A \in SUBSET Aspects
    PROVE  LET d == Missing(c, A)
           IN /\ d \in Contents
              /\ d.reqs = c.reqs /\ d.traced = c.traced /\ d.passes = c.passes
              /\ d.externs = c.externs /\ d.target = c.target /\ d.args = c.args
              /\ d.code = c.code /\ d.linked = c.linked /\ d.failed = c.failed
              /\ c.code.compiled => d.missed = c.missed \cup A
BY DEF Contents, Missing

LEMMA GiveInv ==
    ASSUME JitInv, NEW E \in SUBSET Kinds, NEW b \in BOOLEAN, Give(E, b)
    PROVE  JitInv'
<1> DEFINE A(p) == SymDiff(sched, E) \cup {x \in {"externs"} : E # sched /\ contents[p].externs # {}}
<1>1. Quiet /\ sched' = E /\ UNCHANGED <<thread, fault, raced>>
  BY DEF Give
<1>2. JitTypeOK /\ ExternsInv /\ contents[Own] \in Contents /\ \A p \in Pipes : contents[p] \in Contents
  BY PipesAssumption DEF JitInv, TypesInv, JitTypeOK
<1>3. /\ contents' = [p \in Pipes |-> contents'[p]]
      /\ b => contents'[Own] = invalidate_cache(contents[Own])
      /\ \A p \in Pipes : ~(b /\ p = Own) => contents'[p] = Missing(contents[p], A(p))
  BY <1>2, PipesAssumption DEF Give, FuncInvalidated, JitTypeOK
<1>4. \A p \in Pipes : A(p) \in SUBSET Aspects
  BY <1>2 DEF SymDiff, Aspects, JitTypeOK
<1> HIDE DEF A
<1>5. ASSUME NEW p \in Pipes
      PROVE  contents'[p] \in Contents /\ contents'[p].externs = contents[p].externs
  BY <1>2, <1>3, <1>4, InvalidatedFine, MissingFields
<1>6. contents' \in [Pipes -> Contents]
  BY <1>3, <1>5
<1>7. ExternsInv'
  BY <1>2, <1>5 DEF ExternsInv
<1>8. ASSUME Ordered, NEW p \in Pipes
      PROVE  Fine(p)' \/ (Half(p) /\ contents[p].failed)'
  <2>1. CASE b /\ p = Own
    BY <1>2, <1>3, <2>1, InvalidatedFine DEF Fine, Empty
  <2>2. CASE ~(b /\ p = Own)
    <3>1. contents'[p] = Missing(contents[p], A(p))
      BY <1>3, <2>2
    <3>2. CASE Fine(p)
      <4>1. SymDiff(sched, sched') \subseteq A(p)
        BY <1>1 DEF A
      <4>2. ASSUME "externs" \notin A(p), NEW q \in contents[p].externs
            PROVE  Version(contents[q])' = Version(contents[q])
        <5>1. E = sched /\ q \in Pipes /\ q # Own
          BY <1>2, <4>2 DEF A, ExternsInv
        <5>2. contents'[q] = Missing(contents[q], A(q))
          BY <1>3, <5>1
        <5> QED BY <1>1, <1>2, <1>4, <5>1, <5>2, MissingFields DEF Version
      <4> QED BY <1>2, <1>4, <3>1, <3>2, <4>1, <4>2, MissingFields, ChangedFine
    <3>3. CASE ~Fine(p)
      <4>1. Half(p) /\ contents[p].failed
        BY <1>1, <1>8, <3>3, QuietCache
      <4> QED BY <1>2, <1>4, <3>1, <4>1, MissingFields DEF Half
    <3> QED BY <3>2, <3>3
  <2> QED BY <2>1, <2>2
<1> QED BY <1>1, <1>6, <1>7, <1>8, AuthorRebuild

\* The author changes one pipeline p, and the pipelines that call it miss it.
LEMMA SetContentsInv ==
    ASSUME JitInv, NEW p \in Pipes, NEW c \in Contents, SetContents(p, c),
           c.externs \subseteq Pipes \ {Own}, p # Own => c.externs = {},
           Ordered => Fine(p)' \/ (Half(p) /\ contents[p].failed)'
    PROVE  JitInv'
<1>1. Quiet /\ UNCHANGED <<sched, thread, fault, raced>>
  BY DEF SetContents
<1>2. JitTypeOK /\ ExternsInv /\ \A q \in Pipes : contents[q] \in Contents
  BY DEF JitInv, TypesInv, JitTypeOK
<1>3. /\ contents' = [q \in Pipes |-> contents'[q]] /\ contents'[p] = c
      /\ \A q \in Pipes \ {p} : contents'[q] =
           IF p \in contents[q].externs /\ Version(c) # Version(contents[p])
             THEN Missing(contents[q], {"externs"}) ELSE contents[q]
  BY DEF SetContents
<1>4. {"externs"} \in SUBSET Aspects
  BY DEF Aspects
<1>5. ASSUME NEW q \in Pipes \ {p}
      PROVE  contents'[q] \in Contents /\ contents'[q].externs = contents[q].externs
  BY <1>2, <1>3, <1>4, MissingFields
<1>6. contents' \in [Pipes -> Contents]
  BY <1>3, <1>5
<1>7. ExternsInv'
  BY <1>2, <1>3, <1>5 DEF ExternsInv
<1>8. ASSUME Ordered, NEW q \in Pipes \ {p}
      PROVE  Fine(q)' \/ (Half(q) /\ contents[q].failed)'
  <2> DEFINE hit == p \in contents[q].externs /\ Version(c) # Version(contents[p])
             A == IF hit THEN {"externs"} ELSE {}
  <2>1. /\ contents'[q].target = contents[q].target /\ contents'[q].code = contents[q].code
        /\ contents'[q].linked = contents[q].linked /\ contents'[q].externs = contents[q].externs
        /\ contents'[q].failed = contents[q].failed /\ contents'[q].passes = contents[q].passes
        /\ contents'[q].reqs = contents[q].reqs /\ contents'[q].traced = contents[q].traced
        /\ contents'[q].args = contents[q].args
        /\ contents[q].code.compiled => contents'[q].missed = contents[q].missed \cup A
    BY <1>2, <1>3, <1>4, MissingFields
  <2>2. CASE Fine(q)
    <3>1. SymDiff(sched, sched') \subseteq A
      BY <1>1 DEF SymDiff
    <3>2. ASSUME "externs" \notin A, NEW r \in contents[q].externs
          PROVE  Version(contents[r])' = Version(contents[r])
      <4>1. CASE r = p
        BY <1>1, <1>3, <3>2, <4>1 DEF Version
      <4>2. CASE r # p
        <5>1. r \in Pipes /\ r # Own /\ contents[r].externs = {}
          BY <1>2, <3>2 DEF ExternsInv
        <5>2. contents'[r] = contents[r]
          BY <1>3, <4>2, <5>1
        <5> QED BY <1>1, <5>2 DEF Version
      <4> QED BY <4>1, <4>2
    <3> HIDE DEF A
    <3> QED BY <2>1, <2>2, <3>1, <3>2, ChangedFine
  <2>3. CASE ~Fine(q)
    BY <1>1, <1>8, <2>1, <2>3, QuietCache DEF Half
  <2> QED BY <2>2, <2>3
<1>9. Ordered => \A q \in Pipes : Fine(q)' \/ (Half(q) /\ contents[q].failed)'
  BY <1>8
<1> QED BY <1>1, <1>2, <1>6, <1>7, <1>9, AuthorRebuild DEF JitTypeOK

LEMMA DirectiveInv ==
    ASSUME JitInv,
           \/ LoopDirective \/ DeviceDirective \/ StorageDirective \/ TileDirective
           \/ BoundDirective \/ PlaceDirective \/ UpdateStage \/ StageDirective
           \/ CopyDirective \/ ProducerDirective
    PROVE  JitInv'
<1>1. sched \in SUBSET Kinds
  BY DEF JitInv, TypesInv, JitTypeOK
<1>2. \E E \in SUBSET Kinds, b \in BOOLEAN : Give(E, b)
  BY <1>1 DEF LoopDirective, DeviceDirective, StorageDirective, TileDirective, BoundDirective,
              PlaceDirective, UpdateStage, StageDirective, CopyDirective, ProducerDirective,
              Also, Kinds
<1> QED BY <1>2, GiveInv

\* What the author adds without invalidating is noted as missed.
LEMMA AddedInv ==
    ASSUME JitInv, NEW p \in Pipes, NEW A \in SUBSET Aspects, NEW c \in Contents,
           SetContents(p, Missing(c, A)),
           c.target = contents[p].target, c.code = contents[p].code,
           c.linked = contents[p].linked, c.externs = contents[p].externs,
           c.failed = contents[p].failed, c.passes = contents[p].passes,
           c.missed = contents[p].missed,
           c.args \in {contents[p].args, Params(c)},
           c.reqs # contents[p].reqs => "requirements" \in A,
           c.traced # contents[p].traced => "traced" \in A
    PROVE  JitInv'
<1> DEFINE d == Missing(c, A)
<1>1. /\ contents[p] \in Contents /\ contents[p].externs \subseteq Pipes \ {Own}
      /\ p # Own => contents[p].externs = {}
      /\ p \notin contents[p].externs /\ contents \in [Pipes -> Contents]
  BY DEF JitInv, TypesInv, JitTypeOK, ExternsInv
<1>2. /\ d \in Contents
      /\ d.reqs = c.reqs /\ d.traced = c.traced /\ d.passes = c.passes
      /\ d.externs = c.externs /\ d.target = c.target /\ d.args = c.args
      /\ d.code = c.code /\ d.linked = c.linked /\ d.failed = c.failed
      /\ c.code.compiled => d.missed = c.missed \cup A
  BY MissingFields
<1> HIDE DEF d
<1>3. Quiet /\ sched' = sched /\ contents'[p] = d
  BY <1>1 DEF SetContents, d
<1>4. ASSUME Fine(p)
      PROVE  Fine(p)'
  <2>1. SymDiff(sched, sched') \subseteq A
    BY <1>3 DEF SymDiff
  <2>2. Params(d)' = Params(c)
    BY <1>2, <1>3 DEF Params
  <2>3. \A q \in contents[p].externs : Version(contents[q])' = Version(contents[q])
    <3>1. SUFFICES ASSUME NEW q \in contents[p].externs
                   PROVE  Version(contents[q])' = Version(contents[q])
      OBVIOUS
    <3>2. q # p /\ q \in Pipes /\ q # Own
      BY <1>1
    <3>3. contents[q].externs = {}
      BY <3>2 DEF JitInv, TypesInv, ExternsInv
    <3>4. contents'[q] = contents[q]
      BY <3>2, <3>3 DEF SetContents
    <3> QED BY <1>3, <3>4 DEF Version
  <2> QED BY <1>2, <1>3, <1>4, <2>1, <2>2, <2>3, ChangedFine
<1>5. Ordered => Fine(p)' \/ (Half(p) /\ contents[p].failed)'
  <2>1. SUFFICES ASSUME Ordered, ~Fine(p)
                 PROVE  (Half(p) /\ contents[p].failed)'
    BY <1>4
  <2>2. Half(p) /\ contents[p].failed
    BY <1>3, <2>1, QuietCache
  <2> QED BY <1>2, <1>3, <2>2 DEF Half
<1> QED BY <1>1, <1>2, <1>5, SetContentsInv DEF d

\* What is invalidated is fine, whatever else it changes.
LEMMA RenewedInv ==
    ASSUME JitInv, NEW p \in Pipes, NEW d \in Contents, SetContents(p, d),
           d.target = "unknown", d.code = None, ~d.failed,
           d.externs \subseteq Pipes \ {Own}, p # Own => d.externs = {}
    PROVE  JitInv'
<1>1. contents'[p] = d
  BY DEF SetContents, JitInv, TypesInv, JitTypeOK
<1>2. Fine(p)'
  BY <1>1 DEF Fine, Empty
<1> QED BY <1>2, SetContentsInv

LEMMA AuthorInv ==
    ASSUME JitInv, NEW p \in Pipes, Author(p)
    PROVE  JitInv'
<1> DEFINE c == contents[p]
<1>1. c \in Contents /\ c.externs \subseteq Pipes \ {Own} /\ (p # Own => c.externs = {})
  BY DEF JitInv, TypesInv, JitTypeOK, ExternsInv
<1>2. /\ invalidate_cache(c) \in Contents
      /\ invalidate_cache(c).target = "unknown" /\ invalidate_cache(c).code = None
      /\ ~invalidate_cache(c).failed
      /\ invalidate_cache(c).externs = c.externs /\ invalidate_cache(c).passes = c.passes
  BY <1>1, InvalidatedFine
<1>3. CASE add_requirement(p)
  <2>1. PICK x \in Conditions :
             SetContents(p, Missing([c EXCEPT !.reqs = @ \cup {x}], {"requirements"}))
    BY <1>3 DEF add_requirement
  <2> DEFINE d == [c EXCEPT !.reqs = @ \cup {x}]
  <2>2. /\ d \in Contents /\ d.target = c.target /\ d.code = c.code /\ d.linked = c.linked
        /\ d.externs = c.externs /\ d.failed = c.failed /\ d.passes = c.passes
        /\ d.missed = c.missed /\ d.args = c.args /\ d.traced = c.traced
    BY <1>1 DEF Contents
  <2>3. {"requirements"} \in SUBSET Aspects
    BY DEF Aspects
  <2> HIDE DEF d
  <2>4. SetContents(p, Missing(d, {"requirements"}))
    BY <2>1 DEF d
  <2> QED BY <2>2, <2>3, <2>4, AddedInv
<1>4. CASE trace_pipeline(p)
  <2> DEFINE d == [c EXCEPT !.traced = TRUE]
  <2>1. /\ d \in Contents /\ d.target = c.target /\ d.code = c.code /\ d.linked = c.linked
        /\ d.externs = c.externs /\ d.failed = c.failed /\ d.passes = c.passes
        /\ d.missed = c.missed /\ d.args = c.args /\ d.reqs = c.reqs
    BY <1>1 DEF Contents
  <2>2. {"traced"} \in SUBSET Aspects
    BY DEF Aspects
  <2>3. SetContents(p, Missing(d, {"traced"}))
    BY <1>4 DEF trace_pipeline
  <2> HIDE DEF d
  <2> QED BY <2>1, <2>2, <2>3, AddedInv
<1>5. CASE add_custom_lowering_pass(p) \/ clear_custom_lowering_passes(p)
  <2>1. PICK n \in Nat : SetContents(p, [invalidate_cache(c) EXCEPT !.passes = n])
    <3>1. c.passes \in Nat
      BY <1>1 DEF Contents
    <3>2. c.passes + 1 \in Nat
      BY <3>1
    <3> QED BY <1>2, <1>5, <3>1, <3>2, Zenon DEF add_custom_lowering_pass, clear_custom_lowering_passes
  <2> DEFINE d == [invalidate_cache(c) EXCEPT !.passes = n]
  <2>2. d \in Contents /\ d.externs = c.externs /\ d.target = "unknown" /\ d.code = None /\ ~d.failed
    BY <1>2 DEF Contents
  <2> QED BY <1>1, <2>1, <2>2, RenewedInv
<1>6. CASE set_jit_externs(p)
  <2>1. PICK E \in SUBSET (Pipes \ {Own}) :
             p = Own /\ SetContents(p, [invalidate_cache(c) EXCEPT !.externs = E])
    BY <1>6 DEF set_jit_externs
  <2> DEFINE d == [invalidate_cache(c) EXCEPT !.externs = E]
  <2>2. d \in Contents /\ d.externs = E /\ d.target = "unknown" /\ d.code = None /\ ~d.failed
    BY <1>2 DEF Contents
  <2> QED BY <2>1, <2>2, RenewedInv
<1>7. CASE infer_arguments(p)
  <2> DEFINE d == [c EXCEPT !.args = Params(c)]
  <2>1. Params(c) \subseteq ArgNames
    BY <1>1 DEF Params, Contents, ArgNames
  <2>2. /\ d \in Contents /\ d.target = c.target /\ d.code = c.code /\ d.linked = c.linked
        /\ d.externs = c.externs /\ d.failed = c.failed /\ d.passes = c.passes
        /\ d.missed = c.missed /\ d.reqs = c.reqs /\ d.traced = c.traced
        /\ d.args = Params(c) /\ Params(d) = Params(c)
    BY <1>1, <2>1 DEF Contents, Params
  <2>3. Missing(d, {}) = d
    BY <2>2 DEF Missing, Contents
  <2>4. SetContents(p, Missing(d, {}))
    BY <1>7, <2>3 DEF infer_arguments
  <2> HIDE DEF d
  <2> QED BY <2>2, <2>4, AddedInv
<1> QED BY <1>3, <1>4, <1>5, <1>6, <1>7 DEF Author

-----------------------------------------------------------------------------
(* The steps of the threads.                                               *)

LEMMA AssertInv ==
    ASSUME JitInv, NEW p \in Pipes, NEW condition, Assert(p, condition),
           ~raced => condition \/ contents[p].failed
    PROVE  fault' \in SUBSET {"race", "error", "cache"} /\ "cache" \notin fault'
BY DEF JitInv, TypesInv, JitTypeOK, Assert, Situation

LEMMA OthersOut ==
    ASSUME Ordered, NEW t \in Threads, Busy(t), ~Serene(t)
    PROVE  \A u \in Threads \ {t} : ~Busy(u)
BY DEF Ordered, AloneInv

LEMMA PipeType ==
    ASSUME JitInv, NEW t \in Threads, Busy(t)
    PROVE  /\ thread[t] \in Working /\ thread[t].pipe \in Pipes /\ thread[t].at \in Pipes
           /\ thread[t].want \in KnownTargets /\ DOMAIN thread[t].links \subseteq Pipes
           /\ contents[thread[t].pipe] \in Contents /\ contents[thread[t].at] \in Contents
           /\ contents \in [Pipes -> Contents] /\ Shape(thread[t])
BY DEF JitInv, TypesInv, JitTypeOK, Busy, Idle, Working, Links

\* No thread that is not this one compiles the pipeline.
LEMMA OnlyCompiler ==
    ASSUME Ordered, NEW t \in Threads, Busy(t), NEW p \in Pipes, NEW u \in Threads \ {t},
           CompiledBy(p, u)
    PROVE  FALSE
BY DEF Ordered, AloneInv, CompiledBy, Serene, Busy, Compiling

\* A pipeline with code is fine, and so is one that nothing has failed for.
LEMMA CodeFine ==
    ASSUME Ordered, NEW p \in Pipes, Compiled(p)
    PROVE  Fine(p) /\ Current(p)
BY DEF Ordered, CacheInv, Compiled, Half, None, Fine, Empty

LEMMA ThreadRebuild ==
    ASSUME JitInv, NEW t \in Threads, NEW next \in {Idle} \cup Working,
           Move(t, contents', next), contents' \in [Pipes -> Contents], Shape(next),
           \A p \in Pipes : contents'[p].externs = contents[p].externs,
           fault' \in SUBSET {"race", "error", "cache"}, "cache" \notin fault',
           raced' \in BOOLEAN, raced => raced',
           ~raced' /\ Ordered =>
              /\ CacheInv' /\ ThreadInv(t)'
              /\ \A u \in Threads \ {t} : Busy(u) =>
                    contents' = contents /\ Serene(u) /\ (next.pc = "idle" \/ Serene(t)')
    PROVE  JitInv'
<1>1. /\ thread' = [thread EXCEPT ![t] = next] /\ sched' = sched
      /\ thread'[t] = next
      /\ \A u \in Threads \ {t} : thread'[u] = thread[u]
  BY DEF Move, JitInv, TypesInv, JitTypeOK
<1>2. JitTypeOK'
  BY <1>1 DEF JitInv, TypesInv, JitTypeOK
<1>3. ExternsInv'
  BY DEF JitInv, TypesInv, ExternsInv
<1>4. \A u \in Threads : Shape(thread'[u])
  BY <1>1 DEF JitInv, TypesInv
<1>5. TypesInv'
  BY <1>2, <1>3, <1>4 DEF TypesInv, Shape, Asking
<1>6. ASSUME ~raced', Ordered
      PROVE  Ordered'
  <2>1. ASSUME NEW u \in Threads \ {t}, Busy(u)
        PROVE  Serene(u)' /\ ThreadInv(u)'
    <3>1. contents' = contents /\ Serene(u) /\ ThreadInv(u) /\ thread'[u] = thread[u] /\ sched' = sched
      BY <1>1, <1>6, <2>1 DEF Ordered, PlaceInv
    <3>2. Serene(u)'
      BY <3>1 DEF Serene, Settled, Compiled
    <3> DEFINE p == thread[u].pipe
               q == thread[u].at
               want == thread[u].want
    <3>3. LinksInv(u) => LinksInv(u)'
      BY <3>1 DEF LinksInv, Fine, Empty, Current, LinkedNow, Params, Version
    <3>4. /\ Built(p, want) => Built(p, want)'
          /\ Built(q, want) => Built(q, want)'
          /\ Fine(p) => Fine(p)'
          /\ Empty(q) => Empty(q)'
      BY <3>1 DEF Built, Half, Fine, Empty, Current, LinkedNow, Params, Version
    <3>5. ThreadInv(u)'
      BY <3>1, <3>3, <3>4, Zenon DEF ThreadInv
    <3> QED BY <3>2, <3>5
  <2>2. \A u \in Threads \ {t} : Busy(u)' <=> Busy(u)
    BY <1>1 DEF Busy
  <2>3. AloneInv'
    BY <1>1, <1>6, <2>1, <2>2 DEF AloneInv, Busy
  <2>4. PlaceInv'
    <3>1. ASSUME NEW u \in Threads \ {t}, ~Busy(u)
          PROVE  ThreadInv(u)'
      BY <1>1, <3>1 DEF ThreadInv, Busy, Compiling
    <3> QED BY <1>6, <2>1, <3>1 DEF PlaceInv
  <2> QED BY <1>6, <2>3, <2>4 DEF Ordered
<1> QED BY <1>5, <1>6 DEF JitInv

\* A step that leaves the contents alone.
LEMMA GlideInv ==
    ASSUME JitInv, NEW t \in Threads, NEW next \in {Idle} \cup Working,
           Move(t, contents, next), Shape(next),
           fault' \in SUBSET {"race", "error", "cache"}, "cache" \notin fault',
           raced' \in BOOLEAN, raced => raced',
           ~raced' /\ Ordered =>
              /\ ThreadInv(t)'
              /\ \A p \in Pipes : CompiledBy(p, t) => CompiledBy(p, t)'
              /\ \A u \in Threads \ {t} : Busy(u) => Serene(u) /\ (next.pc = "idle" \/ Serene(t)')
    PROVE  JitInv'
<1>1. contents' = contents /\ sched' = sched /\ \A u \in Threads \ {t} : thread'[u] = thread[u]
  BY DEF Move, JitInv, TypesInv, JitTypeOK
<1>2. Move(t, contents', next)
  BY <1>1
<1>3. contents' \in [Pipes -> Contents]
  BY <1>1 DEF JitInv, TypesInv, JitTypeOK
<1>4. ~raced' /\ Ordered => CacheInv'
  <2>1. \A p \in Pipes : Fine(p)' <=> Fine(p)
    BY <1>1 DEF Fine, Empty, Current, LinkedNow, Params, Version
  <2>2. \A p \in Pipes : Half(p)' <=> Half(p)
    BY <1>1 DEF Half
  <2>3. ~raced' /\ Ordered =>
           \A p \in Pipes : (\E u \in Threads : CompiledBy(p, u)) => \E u \in Threads : CompiledBy(p, u)'
    BY <1>1 DEF CompiledBy
  <2> QED BY <1>1, <2>1, <2>2, <2>3 DEF Ordered, CacheInv
<1> QED BY <1>1, <1>2, <1>3, <1>4, ThreadRebuild

LEMMA BeginInv ==
    ASSUME JitInv, NEW t \in Threads, Begin(t)
    PROVE  JitInv'
<1>1. PICK p \in Pipes, op \in Calls, want \in Targets \cup {"unknown"} :
         /\ want = "unknown" => op = "realize"
         /\ Move(t, contents,
                 [pc |-> "resolve", op |-> op, pipe |-> p, want |-> want, at |-> p, links |-> NoLinks,
                  iter |-> 0, query |-> <<>>, ask |-> <<>>, args |-> {}])
         /\ raced' = (raced \/ Races(p, want, op))
  BY DEF Begin
<1> DEFINE next == [pc |-> "resolve", op |-> op, pipe |-> p, want |-> want, at |-> p,
                    links |-> NoLinks, iter |-> 0, query |-> <<>>, ask |-> <<>>, args |-> {}]
<1>2. next \in Working
  <2>1. <<>> \in Partial
    <3>1. <<>> \in [{} -> 0 .. MaxSize]
      OBVIOUS
    <3> QED BY <3>1 DEF Partial
  <2>2. 0 \in 0 .. MaxIters
    BY QueriesAssumption
  <2> QED BY <2>1, <2>2, NoLinksType, CallsAssumption DEF Working, Places, KnownTargets
<1>3. /\ Move(t, contents, next) /\ fault' = fault /\ contents' = contents /\ ~Busy(t)
      /\ thread'[t] = next /\ next.pc = "resolve" /\ next.at = p /\ next.pipe = p
      /\ next.want = want /\ next.op = op /\ next.links = NoLinks
  BY <1>1 DEF Begin, Move, JitInv, TypesInv, JitTypeOK
<1> HIDE DEF next
<1>4. fault \in SUBSET {"race", "error", "cache"} /\ "cache" \notin fault /\ raced \in BOOLEAN
  BY DEF JitInv, TypesInv, JitTypeOK
<1>5. raced' \in BOOLEAN /\ (raced => raced')
  BY <1>1, <1>4 DEF Races
<1>6. Shape(next)
  BY <1>3 DEF Shape
<1>7. ThreadInv(t)'
  BY <1>3 DEF ThreadInv, Compiling
<1>8. \A q \in Pipes : ~CompiledBy(q, t)
  BY <1>3 DEF CompiledBy, Busy, Compiling
<1>9. ASSUME ~raced', Ordered, NEW u \in Threads \ {t}, Busy(u)
      PROVE  Serene(u) /\ Serene(t)'
  <2>1. /\ op = "realize" /\ Settled(p, want) /\ thread[u].op = "realize"
        /\ Settled(thread[u].pipe, thread[u].want)
    BY <1>1, <1>9 DEF Races, Quiet
  <2>2. Serene(t)'
    BY <1>3, <2>1 DEF Serene, Settled, Compiled
  <2>3. /\ ThreadInv(u) /\ Compiled(thread[u].pipe) /\ thread[u].pipe \in Pipes
        /\ thread[u].at \in Pipes /\ thread[u].pc \in Places /\ Shape(thread[u])
    BY <1>9, <2>1, PipeType DEF Ordered, PlaceInv, Settled, Working
  <2>4. ~Half(thread[u].pipe) /\ ~Empty(thread[u].pipe)
    BY <2>3, HalfNotCompiled
  <2>5. thread[u].pc \in Compiling => thread[u].at = thread[u].pipe
    BY <2>3, <2>4 DEF ThreadInv, Built
  <2>6. thread[u].pc \notin {"set", "lower", "link"}
    BY <2>3, <2>4, <2>5 DEF ThreadInv, Built, Compiling
  <2>7. thread[u].pc # "query"
    BY <2>1, <2>3 DEF Shape, Asking
  <2>8. thread[u].pc \in {"resolve", "check", "prepare", "call"}
    BY <2>3, <2>6, <2>7 DEF Places, Compiling
  <2>9. thread[u].pc \in {"resolve", "prepare", "call"} => thread[u].at = thread[u].pipe
    BY <2>3 DEF ThreadInv
  <2> QED BY <2>1, <2>2, <2>5, <2>8, <2>9 DEF Serene, Compiling
<1> QED BY <1>2, <1>3, <1>4, <1>5, <1>6, <1>7, <1>8, <1>9, GlideInv

LEMMA ResolveInv ==
    ASSUME JitInv, NEW t \in Threads, Resolve(t)
    PROVE  JitInv'
<1> DEFINE p == thread[t].pipe
           want == thread[t].want
           holds == want = "unknown" => RealityCheck(contents[p])
           found == [thread[t] EXCEPT !.pc = "check", !.want = KnownTarget(p, want)]
           next == IF holds THEN found ELSE Idle
<1>1. Busy(t) /\ thread[t].pc = "resolve"
  BY DEF Resolve, At, Busy
<1>2. /\ thread[t] \in Working /\ p \in Pipes /\ contents[p] \in Contents /\ want \in KnownTargets
      /\ raced \in BOOLEAN
  BY <1>1, PipeType DEF JitInv, TypesInv, JitTypeOK
<1>3. /\ Assert(p, holds) /\ Move(t, contents, next) /\ thread'[t] = next /\ contents' = contents
      /\ raced' = raced
  BY DEF Resolve, Step, Move, JitInv, TypesInv, JitTypeOK
<1>4. \A q \in Pipes : ~CompiledBy(q, t)
  BY <1>1 DEF CompiledBy, Compiling
<1>5. ASSUME Ordered
      PROVE  Fine(p) \/ (Half(p) /\ contents[p].failed)
  BY <1>1, <1>2, <1>4, <1>5, OnlyCompiler DEF Ordered, CacheInv
<1>6. ~raced => holds \/ contents[p].failed
  BY <1>2, <1>5, FineReality DEF JitInv, TypesInv
<1>7. fault' \in SUBSET {"race", "error", "cache"} /\ "cache" \notin fault'
  BY <1>2, <1>3, <1>6, AssertInv
<1>8. KnownTarget(p, want) \in Targets
  BY <1>2, TargetsAssumption DEF KnownTarget, Contents, KnownTargets
<1>9. /\ found \in Working /\ found.pc = "check" /\ found.want = KnownTarget(p, want)
      /\ found.pipe = p /\ found.op = thread[t].op /\ found.at = thread[t].at
      /\ found.links = thread[t].links
  BY <1>2, <1>8 DEF Working, Places, KnownTargets, Compiling
<1> HIDE DEF found
<1>10. next \in {Idle} \cup Working /\ Shape(next)
  BY <1>8, <1>9 DEF Shape, Idle
<1>11. ASSUME Ordered
       PROVE  ThreadInv(t)'
  <2>1. thread[t].at = p /\ thread[t].links = NoLinks
    BY <1>1, <1>11 DEF Ordered, PlaceInv, ThreadInv
  <2>2. CASE next = Idle
    BY <1>3, <2>2 DEF ThreadInv, Idle, Compiling
  <2>3. CASE next = found
    BY <1>3, <1>9, <2>1, <2>3, NoLinksType DEF ThreadInv, LinksInv
  <2> QED BY <2>2, <2>3
<1>12. ASSUME Ordered, NEW u \in Threads \ {t}, Busy(u)
       PROVE  Serene(u) /\ (next.pc = "idle" \/ Serene(t)')
  <2>1. Serene(u) /\ Serene(t)
    BY <1>1, <1>12 DEF Ordered, AloneInv
  <2>2. CASE next = Idle
    BY <2>1, <2>2 DEF Idle
  <2>3. CASE next = found
    <3>1. Compiled(p) /\ want \in {"unknown", contents[p].target}
      BY <2>1 DEF Serene, Settled
    <3>2. contents[p].target # "unknown"
      BY <1>2, <1>12, <3>1, CodeFine, TargetsAssumption DEF Current
    <3>3. KnownTarget(p, want) = contents[p].target
      BY <3>1, <3>2 DEF KnownTarget
    <3>4. Serene(t)'
      BY <1>3, <1>9, <2>1, <2>3, <3>1, <3>3 DEF Serene, Settled, Compiled
    <3> QED BY <2>1, <3>4
  <2> QED BY <2>1, <2>2, <2>3
<1> HIDE DEF next, holds
<1> QED BY <1>2, <1>3, <1>4, <1>7, <1>10, <1>11, <1>12, GlideInv

\* A pipeline that a compiling thread does not change.
LEMMA OthersFine ==
    ASSUME JitInv, Ordered, NEW t \in Threads, Busy(t), sched' = sched,
           \A r \in Pipes : Version(contents[r])' = Version(contents[r]),
           NEW q \in Pipes, contents'[q] = contents[q],
           CompiledBy(q, t) => CompiledBy(q, t)' \/ (contents[q].failed)'
    PROVE  Fine(q)' \/ (Half(q)' /\ ((contents[q].failed)' \/ \E u \in Threads : CompiledBy(q, u)'))
<1>1. CASE Fine(q)
  BY <1>1, StaysFine DEF JitInv, TypesInv, ExternsInv
<1>2. CASE ~Fine(q)
  <2>1. Half(q) /\ (contents[q].failed \/ CompiledBy(q, t))
    BY <1>2, OnlyCompiler DEF Ordered, CacheInv
  <2> QED BY <2>1 DEF Half
<1> QED BY <1>1, <1>2

\* The compilation of the pipeline that a thread is at ends in an error.
LEMMA AbandonedInv ==
    ASSUME JitInv, NEW t \in Threads, Busy(t), Step(t, Abandoned(t), Idle),
           fault' \in SUBSET {"race", "error", "cache"}, "cache" \notin fault',
           Ordered => /\ ~Serene(t) /\ Half(thread[t].at)
                      /\ thread[t].at # thread[t].pipe => Half(thread[t].pipe)
    PROVE  JitInv'
<1> DEFINE p == thread[t].pipe
           q == thread[t].at
<1>1. p \in Pipes /\ q \in Pipes /\ contents \in [Pipes -> Contents] /\ raced \in BOOLEAN
  BY PipeType DEF JitInv, TypesInv, JitTypeOK
<1>2. /\ Move(t, contents', Idle) /\ raced' = raced /\ sched' = sched /\ thread'[t] = Idle
      /\ contents' = [r \in Pipes |-> contents'[r]]
      /\ \A r \in {p, q} : contents'[r] = [contents[r] EXCEPT !.failed = TRUE]
      /\ \A r \in Pipes \ {p, q} : contents'[r] = contents[r]
  BY <1>1 DEF Step, Move, Abandoned, JitInv, TypesInv, JitTypeOK
<1> HIDE DEF p, q
<1>3. ASSUME NEW r \in {p, q}
      PROVE  /\ contents'[r] \in Contents /\ contents'[r].externs = contents[r].externs
             /\ contents'[r].target = contents[r].target /\ contents'[r].code = contents[r].code
             /\ contents'[r].failed
             /\ Version(contents[r])' = Version(contents[r])
  <2>1. contents[r] \in Contents /\ contents'[r] = [contents[r] EXCEPT !.failed = TRUE]
    BY <1>1, <1>2 DEF JitInv, TypesInv, JitTypeOK
  <2> DEFINE c == contents[r]
             d == contents'[r]
  <2>2. /\ d \in Contents /\ d.externs = c.externs /\ d.target = c.target /\ d.code = c.code
        /\ d.failed /\ d.reqs = c.reqs /\ d.traced = c.traced /\ d.passes = c.passes
    BY <2>1 DEF Contents
  <2> QED BY <1>2, <2>2 DEF Version
<1>4. contents' \in [Pipes -> Contents] /\ \A r \in Pipes : contents'[r].externs = contents[r].externs
  BY <1>1, <1>2, <1>3
<1>5. ThreadInv(t)'
  BY <1>2 DEF ThreadInv, Idle, Compiling
<1>6. Shape(Idle)
  BY DEF Shape, Idle
<1>7. ASSUME Ordered
      PROVE  CacheInv'
  <2>1. \A r \in Pipes : Version(contents[r])' = Version(contents[r])
    BY <1>2, <1>3 DEF Version
  <2>2. ASSUME NEW r \in {p, q}
        PROVE  Half(r)' /\ (contents[r].failed)'
    BY <1>3, <1>7, <2>2 DEF Half, p, q
  <2>3. ASSUME NEW r \in Pipes \ {p, q}
        PROVE  Fine(r)' \/ (Half(r)' /\ ((contents[r].failed)' \/ \E u \in Threads : CompiledBy(r, u)'))
    <3>1. ~CompiledBy(r, t)
      BY <2>3 DEF CompiledBy, p, q
    <3> QED BY <1>2, <1>7, <2>1, <2>3, <3>1, OthersFine
  <2> QED BY <2>2, <2>3 DEF CacheInv
<1>8. Ordered => \A u \in Threads \ {t} : ~Busy(u)
  BY OthersOut
<1> QED BY <1>1, <1>2, <1>4, <1>5, <1>6, <1>7, <1>8, ThreadRebuild

\* What is linked stays linked while the pipelines it comes from stay.
LEMMA LinksStay ==
    ASSUME JitInv, NEW t \in Threads, Busy(t), LinksInv(t), sched' = sched,
           \A r \in Pipes : Version(contents[r])' = Version(contents[r]),
           NEW links, links = thread[t].links, links = thread'[t].links,
           thread'[t].pipe = thread[t].pipe, thread'[t].want = thread[t].want,
           \A q \in DOMAIN links : q # thread'[t].at /\ contents'[q] = contents[q],
           contents'[thread[t].pipe].externs = contents[thread[t].pipe].externs
    PROVE  LinksInv(t)'
<1>1. ASSUME NEW q \in DOMAIN links
      PROVE  /\ q \in contents[thread[t].pipe].externs
             /\ Fine(q)' /\ contents'[q].target = thread[t].want
             /\ links[q] = Native(contents'[q])
  <2>1. /\ q \in Pipes /\ q \in contents[thread[t].pipe].externs
        /\ Fine(q) /\ contents[q].target = thread[t].want
        /\ links[q] = Native(contents[q])
    BY <1>1, PipeType DEF LinksInv
  <2>2. \A r \in contents[q].externs : Version(contents[r])' = Version(contents[r])
    BY <2>1 DEF JitInv, TypesInv, ExternsInv
  <2>3. Fine(q)'
    BY <1>1, <2>1, <2>2, StaysFine DEF JitInv
  <2> QED BY <1>1, <2>1, <2>3 DEF Native
<1>2. \A q \in DOMAIN links :
         /\ q \in contents'[thread'[t].pipe].externs /\ q # thread'[t].at
         /\ Fine(q)' /\ contents'[q].target = thread'[t].want
         /\ links[q] = Native(contents'[q])
  BY <1>1
<1> QED BY <1>2 DEF LinksInv

\* The code of the pipeline that a thread is at is there: what comes next.
LEMMA AfterType ==
    ASSUME JitInv, NEW t \in Threads, Busy(t), NEW c \in Contents
    PROVE  /\ After(t, c) \in {Idle} \cup Working
           /\ thread[t].at # thread[t].pipe =>
                 /\ After(t, c).pc = "link" /\ After(t, c).pipe = thread[t].pipe
                 /\ After(t, c).at = thread[t].pipe /\ After(t, c).want = thread[t].want
                 /\ DOMAIN After(t, c).links = DOMAIN thread[t].links \cup {thread[t].at}
                 /\ \A q \in DOMAIN After(t, c).links :
                       After(t, c).links[q] =
                          IF q = thread[t].at THEN Native(c) ELSE thread[t].links[q]
           /\ thread[t].at = thread[t].pipe =>
                 \/ After(t, c) = Idle
                 \/ /\ After(t, c).pc = "prepare" /\ After(t, c).pipe = thread[t].pipe
                    /\ After(t, c).at = thread[t].pipe /\ After(t, c).want = thread[t].want
                    /\ After(t, c).op = thread[t].op
<1>1. thread[t] \in Working /\ thread[t].at \in Pipes
  BY PipeType
<1>2. CASE thread[t].at = thread[t].pipe
  BY <1>1, <1>2 DEF After, Goto, Working, Places
<1>3. CASE thread[t].at # thread[t].pipe
  <2> DEFINE old == thread[t].links
             links == [q \in DOMAIN old \cup {thread[t].at} |->
                         IF q = thread[t].at THEN Native(c) ELSE old[q]]
             next == [thread[t] EXCEPT !.pc = "link", !.at = thread[t].pipe, !.links = links]
  <2>1. PICK E \in SUBSET Pipes : old \in [E -> Codes]
    BY <1>1 DEF Working, Links
  <2>2. Native(c) \in Codes
    BY DEF Native, Contents, Codes
  <2>3. links \in [E \cup {thread[t].at} -> Codes]
    BY <2>1, <2>2
  <2>4. links \in Links
    BY <1>1, <2>3 DEF Links
  <2>5. After(t, c) = next
    BY <1>3 DEF After
  <2> HIDE DEF links
  <2>6. /\ next \in Working /\ next.pc = "link" /\ next.pipe = thread[t].pipe
        /\ next.at = thread[t].pipe /\ next.want = thread[t].want /\ next.links = links
    BY <1>1, <2>4 DEF Working, Places, Compiling
  <2> HIDE DEF next
  <2> QED BY <1>3, <2>5, <2>6 DEF links
<1> QED BY <1>2, <1>3

\* An extern has its code: the pipeline that calls it goes on.
LEMMA ReturnInv ==
    ASSUME JitInv, Ordered, NEW t \in Threads, thread[t].pc \in Compiling,
           NEW p \in Pipes, NEW q \in Pipes,
           p = thread[t].pipe, q = thread[t].at, p # q, sched' = sched,
           \A r \in Pipes : Version(contents[r])' = Version(contents[r]),
           NEW c \in Contents, c = contents'[q], thread'[t] = After(t, c),
           Fine(q)', c.target = thread[t].want,
           \A r \in Pipes \ {q} : contents'[r] = contents[r]
    PROVE  ThreadInv(t)' /\ CompiledBy(p, t)'
<1>1. Busy(t) /\ ThreadInv(t)
  BY DEF Busy, Compiling, Ordered, PlaceInv
<1> DEFINE next == After(t, c)
           old == thread[t].links
           want == thread[t].want
<1>3. /\ next.pc = "link" /\ next.pipe = p /\ next.at = p /\ next.want = want
      /\ DOMAIN next.links = DOMAIN old \cup {q}
      /\ \A r \in DOMAIN next.links : next.links[r] = IF r = q THEN Native(c) ELSE old[r]
  BY <1>1, AfterType
<1>4. LinksInv(t) /\ q \in contents[p].externs /\ Built(p, want)
  BY <1>1 DEF ThreadInv
<1>5. contents'[p] = contents[p] /\ p \notin contents[p].externs /\ DOMAIN old \subseteq Pipes
  BY <1>1, PipeType DEF JitInv, TypesInv, ExternsInv
<1>6. ASSUME NEW r \in DOMAIN next.links
      PROVE  /\ r \in contents'[p].externs /\ r # p
             /\ Fine(r)' /\ contents'[r].target = want
             /\ next.links[r] = Native(contents'[r])
  <2>1. CASE r = q
    BY <1>3, <1>4, <1>5, <2>1
  <2>2. CASE r # q
    <3>1. /\ r \in DOMAIN old /\ r \in Pipes /\ r \in contents[p].externs
          /\ Fine(r) /\ contents[r].target = want /\ old[r] = Native(contents[r])
      BY <1>3, <1>4, <1>5, <1>6, <2>2 DEF LinksInv
    <3>2. contents'[r] = contents[r]
      BY <2>2, <3>1
    <3>3. \A x \in contents[r].externs : Version(contents[x])' = Version(contents[x])
      BY <3>1 DEF JitInv, TypesInv, ExternsInv
    <3>4. Fine(r)'
      BY <3>1, <3>2, <3>3, StaysFine DEF JitInv
    <3> QED BY <1>3, <1>5, <2>2, <3>1, <3>2, <3>4
  <2> QED BY <2>1, <2>2
<1> HIDE DEF next
<1>7. thread'[t] = next
  BY DEF next
<1>8. LinksInv(t)'
  <2>1. \A r \in DOMAIN thread'[t].links :
           /\ r \in contents'[thread'[t].pipe].externs /\ r # thread'[t].at
           /\ Fine(r)' /\ contents'[r].target = thread'[t].want
           /\ thread'[t].links[r] = Native(contents'[r])
    BY <1>3, <1>6, <1>7
  <2> QED BY <2>1, Zenon DEF LinksInv
<1>9. Built(p, want)'
  BY <1>3, <1>4, <1>5, <1>7 DEF Built, Half, Params
<1>10. ThreadInv(t)'
  BY <1>3, <1>7, <1>8, <1>9 DEF ThreadInv, Compiling
<1>11. CompiledBy(p, t)'
  BY <1>3, <1>7 DEF CompiledBy
<1> QED BY <1>10, <1>11

\* The pipeline that a thread is at changes on the way to its code.
LEMMA CompilingInv ==
    ASSUME JitInv, NEW t \in Threads, thread[t].pc \in {"check", "set"},
           NEW p \in Pipes, p = thread[t].at, thread[t].want \in Targets,
           NEW d \in Contents, NEW pc \in {"set", "lower"},
           Step(t, [contents EXCEPT ![p] = d], Goto(t, pc)),
           fault' \in SUBSET {"race", "error", "cache"}, "cache" \notin fault',
           d.externs = contents[p].externs, Version(d) = Version(contents[p]),
           Ordered => /\ ~Serene(t) /\ d.code = None /\ ~d.failed
                      /\ pc = "set" => d.target = "unknown"
                      /\ pc = "lower" => d.target = thread[t].want /\ d.args = Params(d)
    PROVE  JitInv'
<1> DEFINE next == Goto(t, pc)
           want == thread[t].want
<1>1. Busy(t) /\ thread[t].pc \in Compiling
  BY DEF Busy, Compiling
<1>2. PICK pipe \in Pipes : pipe = thread[t].pipe
  BY <1>1, PipeType
<1>3. /\ thread[t] \in Working /\ contents \in [Pipes -> Contents]
      /\ Shape(thread[t]) /\ raced \in BOOLEAN /\ DOMAIN thread[t].links \subseteq Pipes
  BY <1>1, PipeType DEF JitInv, TypesInv, JitTypeOK
<1>4. /\ next \in Working /\ next.pc = pc /\ next.at = p /\ next.pipe = pipe
      /\ next.want = want /\ next.links = thread[t].links
  BY <1>2, <1>3 DEF Goto, Working, Places, Compiling
<1>5. /\ contents' = [contents EXCEPT ![p] = d] /\ Move(t, contents', next) /\ thread'[t] = next
      /\ raced' = raced /\ sched' = sched
  BY DEF Step, Move, JitInv, TypesInv, JitTypeOK
<1> HIDE DEF next
<1>6. contents'[p] = d /\ \A r \in Pipes \ {p} : contents'[r] = contents[r]
  BY <1>3, <1>5
<1>7. contents' \in [Pipes -> Contents] /\ \A r \in Pipes : contents'[r].externs = contents[r].externs
  BY <1>3, <1>5, <1>6
<1>8. \A r \in Pipes : Version(contents[r])' = Version(contents[r])
  BY <1>5, <1>6 DEF Version
<1>9. Shape(next)
  BY <1>4 DEF Shape
<1>10. ASSUME Ordered
       PROVE  CacheInv' /\ ThreadInv(t)'
  <2>1. LinksInv(t) /\ (p # pipe => p \in contents[pipe].externs /\ Built(pipe, want))
    BY <1>1, <1>2, <1>10 DEF Ordered, PlaceInv, ThreadInv
  <2>2. \A q \in DOMAIN thread[t].links : q # thread'[t].at /\ contents'[q] = contents[q]
    BY <1>3, <1>4, <1>5, <1>6, <2>1 DEF LinksInv
  <2>3. LinksInv(t)'
    BY <1>1, <1>2, <1>4, <1>5, <1>7, <1>8, <2>1, <2>2, LinksStay
  <2>4. /\ pc = "set" => Empty(p)' /\ ~contents'[p].failed
        /\ pc = "lower" => Built(p, want)'
    BY <1>4, <1>5, <1>6, <1>10 DEF Empty, Built, Half, Params
  <2>5. p # pipe => p \in contents'[pipe].externs /\ Built(pipe, want)'
    BY <1>4, <1>5, <1>6, <2>1 DEF Built, Half, Params
  <2>6. ThreadInv(t)'
    BY <1>4, <1>5, <2>3, <2>4, <2>5 DEF ThreadInv, Compiling
  <2>7. ASSUME NEW r \in Pipes \ {p}
        PROVE  Fine(r)' \/ (Half(r)' /\ ((contents[r].failed)' \/ \E u \in Threads : CompiledBy(r, u)'))
    <3>1. CompiledBy(r, t) => CompiledBy(r, t)'
      BY <1>1, <1>2, <1>4, <1>5, <2>7 DEF CompiledBy, Compiling
    <3> QED BY <1>1, <1>5, <1>6, <1>8, <1>10, <2>7, <3>1, OthersFine
  <2>8. Fine(p)' \/ (Half(p)' /\ CompiledBy(p, t)')
    BY <1>4, <1>5, <2>4 DEF Fine, Built, CompiledBy
  <2> QED BY <2>6, <2>7, <2>8 DEF CacheInv
<1>11. Ordered => \A u \in Threads \ {t} : ~Busy(u)
  BY <1>1, OthersOut
<1> QED BY <1>3, <1>4, <1>5, <1>7, <1>9, <1>10, <1>11, ThreadRebuild

LEMMA CheckTargetInv ==
    ASSUME JitInv, NEW t \in Threads, CheckTarget(t)
    PROVE  JitInv'
<1>1. Busy(t) /\ thread[t].pc = "check"
  BY DEF CheckTarget, At, Busy
<1>2. PICK p \in Pipes : p = thread[t].at /\ contents[p] \in Contents
  BY <1>1, PipeType
<1> DEFINE c == contents[p]
           want == thread[t].want
<1>3. /\ thread[t] \in Working /\ thread[t].pipe \in Pipes /\ contents \in [Pipes -> Contents]
      /\ Shape(thread[t]) /\ raced \in BOOLEAN /\ want \in Targets /\ DOMAIN thread[t].links \subseteq Pipes
  BY <1>1, PipeType DEF JitInv, TypesInv, JitTypeOK, Shape
<1>4. Ordered => ThreadInv(t)
  BY DEF Ordered, PlaceInv
<1>5. Assert(p, RealityCheck(c))
  BY <1>2 DEF CheckTarget
<1>6. ASSUME Ordered
      PROVE  Fine(p) \/ (Half(p) /\ contents[p].failed)
  <2>1. ~CompiledBy(p, t)
    BY <1>1, <1>2 DEF CompiledBy
  <2> QED BY <1>1, <1>6, <2>1, OnlyCompiler DEF Ordered, CacheInv
<1>7. ~raced => RealityCheck(c) \/ contents[p].failed
  BY <1>6, FineReality DEF JitInv, TypesInv
<1>8. fault' \in SUBSET {"race", "error", "cache"} /\ "cache" \notin fault'
  BY <1>5, <1>7, AssertInv
<1>9. Ordered /\ Serene(t) => Fine(p) /\ c.target = want /\ thread[t].at = thread[t].pipe
  BY <1>2, <1>3, CodeFine, TargetsAssumption DEF Serene, Settled
<1>10. CASE ~RealityCheck(c)
  <2>1. Step(t, Abandoned(t), Idle)
    BY <1>2, <1>10 DEF CheckTarget
  <2>2. ASSUME Ordered
        PROVE  ~Serene(t) /\ Half(p) /\ (p # thread[t].pipe => Half(thread[t].pipe))
    <3>1. ~Fine(p)
      BY <1>10, FineReality DEF JitInv, TypesInv
    <3>2. p # thread[t].pipe => Built(thread[t].pipe, want)
      BY <1>1, <1>2, <1>4, <2>2 DEF ThreadInv, Compiling
    <3> QED BY <1>6, <1>9, <2>2, <3>1, <3>2 DEF Built
  <2> QED BY <1>1, <1>2, <1>8, <2>1, <2>2, AbandonedInv
<1>11. CASE RealityCheck(c) /\ c.target = want
  <2> DEFINE next == After(t, c)
  <2>1. /\ Move(t, contents, next) /\ contents' = contents /\ thread'[t] = next /\ raced' = raced
        /\ sched' = sched
    BY <1>2, <1>3, <1>11 DEF CheckTarget, Reusable, Step, Move, JitInv, TypesInv, JitTypeOK
  <2>2. next \in {Idle} \cup Working
    BY <1>1, <1>2, AfterType
  <2>3. Shape(next)
    BY <1>1, <1>2, <1>3, AfterType DEF Shape, Idle
  <2>4. ASSUME Ordered
        PROVE  Fine(p) /\ Fine(p)'
    <3>1. Fine(p)
      <4>1. Compiled(p)
        BY <1>3, <1>11, TargetsAssumption DEF RealityCheck, Compiled
      <4> QED BY <2>4, <4>1, CodeFine
    <3>2. \A r \in contents[p].externs : Version(contents[r])' = Version(contents[r])
      BY <2>1 DEF Version
    <3> QED BY <2>1, <3>1, <3>2, StaysFine DEF JitInv
  <2>5. CASE thread[t].at = thread[t].pipe
    <3>1. \/ next = Idle
          \/ /\ next.pc = "prepare" /\ next.pipe = p /\ next.at = p /\ next.want = want
             /\ next.op = thread[t].op
      BY <1>1, <1>2, <2>5, AfterType
    <3> HIDE DEF next
    <3>2. Ordered => ThreadInv(t)'
      BY <1>11, <2>1, <2>4, <3>1 DEF ThreadInv, Idle, Compiling
    <3>3. \A q \in Pipes : ~CompiledBy(q, t)
      BY <1>1, <2>5 DEF CompiledBy
    <3>4. ASSUME Ordered, NEW u \in Threads \ {t}, Busy(u)
          PROVE  Serene(u) /\ (next.pc = "idle" \/ Serene(t)')
      <4>1. Serene(u) /\ Serene(t)
        BY <1>1, <3>4 DEF Ordered, AloneInv
      <4>2. next = Idle \/ Serene(t)'
        BY <1>2, <2>1, <3>1, <4>1 DEF Serene, Settled, Compiled
      <4> QED BY <4>1, <4>2 DEF Idle
    <3> QED BY <1>3, <1>8, <2>1, <2>2, <2>3, <3>2, <3>3, <3>4, GlideInv DEF next
  <2>6. CASE thread[t].at # thread[t].pipe
    <3>1. \A r \in Pipes : Version(contents[r])' = Version(contents[r])
      BY <2>1 DEF Version
    <3>2. PICK pipe \in Pipes : pipe = thread[t].pipe
      BY <1>3
    <3>3. Ordered => ThreadInv(t)' /\ CompiledBy(pipe, t)'
      BY <1>1, <1>2, <1>11, <2>1, <2>4, <2>6, <3>1, <3>2, ReturnInv DEF Compiling
    <3>4. \A r \in Pipes : CompiledBy(r, t) => r = pipe
      BY <1>1, <3>2 DEF CompiledBy
    <3>5. Ordered => \A u \in Threads \ {t} : ~Busy(u)
      BY <1>1, <2>6, OthersOut DEF Serene
    <3> HIDE DEF next
    <3> QED BY <1>3, <1>8, <2>1, <2>2, <2>3, <3>3, <3>4, <3>5, GlideInv
  <2> QED BY <2>5, <2>6
<1>12. CASE RealityCheck(c) /\ c.target # want
  <2> DEFINE d == invalidate_cache(c)
  <2>1. /\ d \in Contents /\ d.target = "unknown" /\ d.code = None /\ ~d.failed
        /\ d.externs = c.externs /\ Version(d) = Version(c)
    BY <1>2, InvalidatedFine
  <2>2. Step(t, [contents EXCEPT ![p] = d], Goto(t, "set"))
    BY <1>2, <1>12 DEF CheckTarget, Reusable
  <2> HIDE DEF d
  <2>3. Ordered => ~Serene(t)
    BY <1>9, <1>12
  <2> QED BY <1>1, <1>2, <1>3, <1>8, <2>1, <2>2, <2>3, CompilingInv
<1> QED BY <1>10, <1>11, <1>12

LEMMA SetTargetInv ==
    ASSUME JitInv, NEW t \in Threads, SetTarget(t)
    PROVE  JitInv'
<1>1. Busy(t) /\ thread[t].pc = "set" /\ ~Serene(t)
  BY DEF SetTarget, At, Busy, Serene
<1>2. PICK p \in Pipes : p = thread[t].at /\ contents[p] \in Contents
  BY <1>1, PipeType
<1> DEFINE c == contents[p]
           want == thread[t].want
           d == [c EXCEPT !.target = want, !.args = Params(c)]
<1>3. want \in Targets
  BY <1>1, PipeType DEF Shape
<1>4. Params(c) \in SUBSET ArgNames
  BY <1>2 DEF Params, Contents, ArgNames
<1>5. /\ d \in Contents /\ d.target = want /\ d.args = Params(d) /\ d.code = c.code
      /\ d.failed = c.failed /\ d.externs = c.externs /\ Version(d) = Version(c)
  BY <1>2, <1>3, <1>4 DEF Contents, KnownTargets, Params, Version
<1>6. Step(t, [contents EXCEPT ![p].target = want, ![p].args = Params(c)], Goto(t, "lower"))
  BY <1>2 DEF SetTarget
<1>7. [contents EXCEPT ![p].target = want, ![p].args = Params(c)] = [contents EXCEPT ![p] = d]
  BY DEF JitInv, TypesInv, JitTypeOK
<1>8. Step(t, [contents EXCEPT ![p] = d], Goto(t, "lower"))
  BY <1>6, <1>7, Zenon
<1>9. Ordered => Empty(p) /\ ~c.failed
  BY <1>1, <1>2 DEF Ordered, PlaceInv, ThreadInv
<1>10. fault' \in SUBSET {"race", "error", "cache"} /\ "cache" \notin fault'
  BY DEF SetTarget, JitInv, TypesInv, JitTypeOK
<1> HIDE DEF d
<1>11. Ordered => d.code = None /\ ~d.failed
  BY <1>5, <1>9 DEF Empty
<1> QED BY <1>1, <1>2, <1>3, <1>5, <1>8, <1>10, <1>11, CompilingInv

LEMMA LowerInv ==
    ASSUME JitInv, NEW t \in Threads, compile_to_module(t)
    PROVE  JitInv'
<1> DEFINE next == Goto(t, "link")
<1>1. Busy(t) /\ thread[t].pc = "lower" /\ ~Serene(t)
  BY DEF compile_to_module, At, Busy, Serene
<1>2. thread[t] \in Working /\ Shape(thread[t])
  BY <1>1, PipeType
<1>3. /\ next \in Working /\ next.pc = "link" /\ next.at = thread[t].at /\ next.links = thread[t].links
      /\ next.pipe = thread[t].pipe /\ next.want = thread[t].want
  BY <1>2 DEF Goto, Working, Places, Compiling
<1>4. /\ Move(t, contents, next) /\ contents' = contents /\ sched' = sched /\ fault' = fault
      /\ raced' = raced /\ thread'[t] = next
  BY DEF compile_to_module, Quietly, Step, Move, JitInv, TypesInv, JitTypeOK
<1> HIDE DEF next
<1>5. fault \in SUBSET {"race", "error", "cache"} /\ "cache" \notin fault /\ raced \in BOOLEAN
  BY DEF JitInv, TypesInv, JitTypeOK
<1>6. Shape(next)
  BY <1>1, <1>2, <1>3 DEF Shape
<1>7. \A p \in Pipes : CompiledBy(p, t) => CompiledBy(p, t)'
  BY <1>1, <1>3, <1>4 DEF CompiledBy, Compiling
<1>8. ASSUME Ordered
      PROVE  ThreadInv(t)'
  <2>1. PICK p \in Pipes, q \in Pipes, want \in KnownTargets :
             p = thread[t].pipe /\ q = thread[t].at /\ want = thread[t].want
    BY <1>1, PipeType
  <2>2. LinksInv(t) /\ (q # p => q \in contents[p].externs /\ Built(p, want)) /\ Built(q, want)
    BY <1>1, <1>3, <1>8, <2>1 DEF Ordered, PlaceInv, ThreadInv, Compiling
  <2>3. \A r \in Pipes : Version(contents[r])' = Version(contents[r])
    BY <1>4 DEF Version
  <2>4. LinksInv(t)'
    BY <1>1, <1>3, <1>4, <2>2, <2>3, LinksStay DEF LinksInv
  <2>5. (q # p => q \in contents'[p].externs /\ Built(p, want)') /\ Built(q, want)'
    BY <1>4, <2>2 DEF Built, Half, Params
  <2> QED BY <1>3, <1>4, <2>1, <2>4, <2>5 DEF ThreadInv, Compiling
<1>9. Ordered => \A u \in Threads \ {t} : ~Busy(u)
  BY <1>1, OthersOut
<1> QED BY <1>3, <1>4, <1>5, <1>6, <1>7, <1>8, <1>9, GlideInv

LEMMA CompileFailsInv ==
    ASSUME JitInv, NEW t \in Threads, CompileFails(t)
    PROVE  JitInv'
<1>1. Busy(t) /\ thread[t].pc = "lower" /\ ~Serene(t)
  BY DEF CompileFails, At, Busy, Serene
<1>2. fault' \in SUBSET {"race", "error", "cache"} /\ "cache" \notin fault'
  BY DEF CompileFails, JitInv, TypesInv, JitTypeOK
<1>3. Ordered => Half(thread[t].at) /\ (thread[t].at # thread[t].pipe => Half(thread[t].pipe))
  BY <1>1 DEF Ordered, PlaceInv, ThreadInv, Built, Compiling
<1> QED BY <1>1, <1>2, <1>3, AbandonedInv DEF CompileFails

LEMMA MakeExternsInv ==
    ASSUME JitInv, NEW t \in Threads, make_externs_jit_module(t)
    PROVE  JitInv'
<1>1. Busy(t) /\ thread[t].pc = "link" /\ ~Serene(t) /\ thread[t].at = thread[t].pipe
  BY DEF make_externs_jit_module, At, Busy, Serene
<1>2. PICK p \in Pipes, want \in KnownTargets : p = thread[t].pipe /\ want = thread[t].want
  BY <1>1, PipeType
<1>3. /\ thread[t] \in Working /\ Shape(thread[t]) /\ contents[p].externs \subseteq Pipes \ {p}
      /\ DOMAIN thread[t].links \subseteq Pipes
  BY <1>1, <1>2, PipeType DEF JitInv, TypesInv, ExternsInv
<1>4. PICK q \in ToLink(t) : Quietly(t, [thread[t] EXCEPT !.pc = "check", !.at = q])
  BY DEF make_externs_jit_module
<1> DEFINE next == [thread[t] EXCEPT !.pc = "check", !.at = q]
<1>5. q \in contents[p].externs /\ q \in Pipes /\ q # p /\ q \notin DOMAIN thread[t].links
  BY <1>1, <1>2, <1>3 DEF ToLink
<1>6. /\ next \in Working /\ next.pc = "check" /\ next.at = q /\ next.links = thread[t].links
      /\ next.pipe = p /\ next.want = want
  BY <1>2, <1>3, <1>5 DEF Working, Places, Compiling
<1>7. /\ Move(t, contents, next) /\ contents' = contents /\ sched' = sched /\ fault' = fault
      /\ raced' = raced /\ thread'[t] = next
  BY <1>4 DEF Quietly, Step, Move, JitInv, TypesInv, JitTypeOK
<1> HIDE DEF next
<1>8. fault \in SUBSET {"race", "error", "cache"} /\ "cache" \notin fault /\ raced \in BOOLEAN
  BY DEF JitInv, TypesInv, JitTypeOK
<1>9. Shape(next)
  BY <1>1, <1>2, <1>3, <1>6 DEF Shape
<1>10. \A r \in Pipes : CompiledBy(r, t) => CompiledBy(r, t)'
  BY <1>1, <1>2, <1>5, <1>6, <1>7 DEF CompiledBy, Compiling
<1>11. ASSUME Ordered
       PROVE  ThreadInv(t)'
  <2>1. LinksInv(t) /\ Built(p, want)
    BY <1>1, <1>2, <1>11 DEF Ordered, PlaceInv, ThreadInv, Compiling
  <2>2. \A r \in Pipes : Version(contents[r])' = Version(contents[r])
    BY <1>7 DEF Version
  <2>3. \A r \in DOMAIN thread[t].links : r # thread'[t].at /\ contents'[r] = contents[r]
    BY <1>5, <1>6, <1>7
  <2>4. LinksInv(t)'
    BY <1>1, <1>2, <1>6, <1>7, <2>1, <2>2, <2>3, LinksStay
  <2>5. Built(p, want)'
    BY <1>7, <2>1 DEF Built, Half, Params
  <2> QED BY <1>5, <1>6, <1>7, <2>4, <2>5 DEF ThreadInv, Compiling
<1>12. Ordered => \A u \in Threads \ {t} : ~Busy(u)
  BY <1>1, OthersOut
<1> QED BY <1>6, <1>7, <1>8, <1>9, <1>10, <1>11, <1>12, GlideInv

LEMMA InstallInv ==
    ASSUME JitInv, NEW t \in Threads, Install(t)
    PROVE  JitInv'
<1>1. Busy(t) /\ thread[t].pc = "link" /\ ~Serene(t)
  BY DEF Install, At, Busy, Serene
<1>2. PICK p \in Pipes, pipe \in Pipes, want \in Targets :
           p = thread[t].at /\ pipe = thread[t].pipe /\ want = thread[t].want
  BY <1>1, PipeType DEF Shape
<1> DEFINE c == contents[p]
           links == thread[t].links
           stale == {x \in {"externs"} : \E q \in c.externs : contents[q].missed # {}}
           linked == IF p = pipe THEN links ELSE NoLinks
           code == Lowered(c, want)
           d == [c EXCEPT !.code = code, !.missed = stale, !.linked = linked]
           next == After(t, d)
<1>3. /\ thread[t] \in Working /\ contents \in [Pipes -> Contents] /\ c \in Contents
      /\ raced \in BOOLEAN /\ Shape(thread[t])
      /\ fault \in SUBSET {"race", "error", "cache"} /\ "cache" \notin fault
  BY <1>1, <1>2, PipeType DEF JitInv, TypesInv, JitTypeOK
<1>4. /\ Version(c) \in Versions
      /\ code \in Codes /\ code.compiled /\ code.target = want
      /\ code.version = Version(c) /\ code.args = Params(c)
      /\ Differs(Version(c), Version(c)) = {}
  BY <1>2, <1>3, LoweredType DEF JitInv, TypesInv
<1>5. linked \in Links /\ stale \in SUBSET Aspects
  BY <1>3, NoLinksType DEF Working, Aspects
<1> HIDE DEF code, linked, stale
<1>6. /\ d \in Contents /\ d.code = code /\ d.missed = stale /\ d.linked = linked
      /\ d.target = c.target /\ d.args = c.args /\ d.failed = c.failed /\ d.externs = c.externs
      /\ Version(d) = Version(c) /\ Params(d) = Params(c)
  BY <1>3, <1>4, <1>5 DEF Contents, Version, Params
<1> HIDE DEF d
<1>7. Step(t, [contents EXCEPT ![p] = d], next) /\ fault' = fault
  BY <1>2 DEF Install, d, linked, stale, code
<1>8. p # pipe \/ c.externs \subseteq DOMAIN links
  BY <1>2 DEF Install, ToLink
<1>9. /\ next \in {Idle} \cup Working
      /\ p # pipe => /\ next.pc = "link" /\ next.pipe = pipe /\ next.at = pipe /\ next.want = want
      /\ p = pipe =>
            \/ next = Idle
            \/ /\ next.pc = "prepare" /\ next.pipe = p /\ next.at = p /\ next.want = want
               /\ next.op = thread[t].op
  BY <1>1, <1>2, <1>6, AfterType
<1>10. /\ contents' = [contents EXCEPT ![p] = d] /\ Move(t, contents', next) /\ thread'[t] = next
       /\ raced' = raced /\ sched' = sched
  BY <1>7 DEF Step, Move, JitInv, TypesInv, JitTypeOK
<1>11. contents'[p] = d /\ \A r \in Pipes \ {p} : contents'[r] = contents[r]
  BY <1>3, <1>10
<1>12. contents' \in [Pipes -> Contents] /\ \A r \in Pipes : contents'[r].externs = contents[r].externs
  BY <1>3, <1>6, <1>10, <1>11
<1>13. \A r \in Pipes : Version(contents[r])' = Version(contents[r])
  BY <1>6, <1>10, <1>11 DEF Version
<1>14. Shape(next)
  BY <1>2, <1>9 DEF Shape, Idle
<1>15. ASSUME Ordered
       PROVE  Built(p, want) /\ LinksInv(t) /\ (p # pipe => p \in contents[pipe].externs)
  BY <1>1, <1>2, <1>15 DEF Ordered, PlaceInv, ThreadInv, Compiling
<1>16. ASSUME Ordered
       PROVE  Fine(p)' /\ d.target = want
  <2>1. c.target = want /\ ~c.failed /\ c.args = Params(c)
    BY <1>15, <1>16 DEF Built
  <2>2. ASSUME want \notin Wasm, "externs" \notin stale, NEW q \in c.externs
        PROVE  linked[q].version = Version(contents[q]) /\ linked[q].target = want
    <3>1. p = pipe /\ q \in Pipes /\ q \in DOMAIN links
      <4>1. p # pipe => c.externs = {}
        BY <1>15, <1>16 DEF JitInv, TypesInv, ExternsInv
      <4> QED BY <1>8, <2>2, <4>1 DEF JitInv, TypesInv, ExternsInv
    <3>2. Fine(q) /\ contents[q].target = want /\ links[q] = Native(contents[q])
      BY <1>2, <1>15, <1>16, <3>1 DEF LinksInv
    <3>3. Current(q)
      BY <3>2, TargetsAssumption DEF Fine, Empty
    <3>4. linked[q] = contents[q].code
      BY <2>2, <3>1, <3>2 DEF linked, Native
    <3>5. contents[q].missed = {}
      BY <2>2 DEF stale
    <3>6. Differs(contents[q].code.version, Version(contents[q])) = {}
      BY <3>3, <3>5 DEF Current
    <3>7. contents[q].code.version \in Versions /\ Version(contents[q]) \in Versions
      <4>1. contents[q] \in Contents /\ contents[q].code.compiled
        BY <1>3, <3>1, <3>3 DEF Current
      <4>2. contents[q].code \in Codes /\ contents[q].code # None
        BY <4>1 DEF Contents, None
      <4>3. contents[q].code.version \in Versions
        BY <4>2 DEF Codes
      <4> QED BY <1>2, <4>1, <4>3, LoweredType DEF JitInv, TypesInv
    <3>8. contents[q].code.version = Version(contents[q])
      BY <3>6, <3>7, DiffersNone
    <3> QED BY <3>2, <3>3, <3>4, <3>8 DEF Current
  <2>3. PICK e \in Contents, v \in Versions : e = d /\ v = Version(c)
    BY <1>4, <1>6
  <2>4. /\ e.code.version = v /\ e.code.compiled /\ e.code.target = want /\ e.code.args = Params(c)
        /\ e.missed = stale /\ e.linked = linked /\ e.target = want /\ e.args = Params(c)
        /\ ~e.failed /\ e.externs = c.externs /\ e = contents'[p]
        /\ Version(e) = v /\ Params(e) = Params(c)
    BY <1>4, <1>6, <1>11, <2>1, <2>3
  <2>5. Version(e)' = v /\ Params(e)' = Params(c)
    BY <1>10, <2>4 DEF Version, Params
  <2>6. Differs(v, v) = {}
    BY DEF Differs, SymDiff
  <2>7. ASSUME e.target \notin Wasm, "externs" \notin e.missed, NEW q \in e.externs
        PROVE  LinkedNow(e, q)'
    <3>1. e.linked[q].version = Version(contents[q]) /\ e.linked[q].target = want
      BY <2>2, <2>4, <2>7
    <3>2. q \in Pipes
      BY <2>4, <2>7 DEF JitInv, TypesInv, ExternsInv
    <3>3. e.linked[q].version = Version(contents[q])'
      BY <1>13, <3>1, <3>2
    <3> QED BY <2>4, <3>1, <3>3 DEF LinkedNow
  <2>8. Current(p)'
    BY <2>4, <2>5, <2>6, <2>7 DEF Current
  <2> QED BY <1>6, <2>1, <2>4, <2>8 DEF Fine
<1>17. ASSUME Ordered
       PROVE  ThreadInv(t)' /\ (p # pipe => CompiledBy(pipe, t)')
  <2>1. CASE p # pipe
    BY <1>1, <1>2, <1>6, <1>10, <1>11, <1>13, <1>16, <1>17, <2>1, ReturnInv DEF Compiling
  <2>2. CASE p = pipe
    <3>1. Fine(p)' /\ contents'[p].target = want
      BY <1>11, <1>16, <1>17
    <3> HIDE DEF next
    <3> QED BY <1>9, <1>10, <2>2, <3>1 DEF ThreadInv, Idle, Compiling
  <2> QED BY <2>1, <2>2
<1> HIDE DEF next
<1>18. ASSUME Ordered
       PROVE  CacheInv'
  <2>1. ASSUME NEW r \in Pipes \ {p}
        PROVE  Fine(r)' \/ (Half(r)' /\ ((contents[r].failed)' \/ \E u \in Threads : CompiledBy(r, u)'))
    <3>1. CompiledBy(r, t) => CompiledBy(r, t)'
      BY <1>1, <1>2, <1>17, <1>18, <2>1 DEF CompiledBy
    <3> QED BY <1>1, <1>10, <1>11, <1>13, <1>18, <2>1, <3>1, OthersFine
  <2> QED BY <1>16, <1>18, <2>1 DEF CacheInv
<1>19. Ordered => \A u \in Threads \ {t} : ~Busy(u)
  BY <1>1, OthersOut
<1> QED BY <1>3, <1>7, <1>9, <1>10, <1>12, <1>14, <1>17, <1>18, <1>19, ThreadRebuild

LEMMA PrepareInv ==
    ASSUME JitInv, NEW t \in Threads, prepare_jit_call_arguments(t)
    PROVE  JitInv'
<1>1. Busy(t) /\ thread[t].pc = "prepare"
  BY DEF prepare_jit_call_arguments, At, Busy
<1>2. PICK p \in Pipes, want \in Targets :
        /\ p = thread[t].pipe /\ want = thread[t].want /\ thread[t] \in Working
        /\ contents[p] \in Contents /\ Shape(thread[t])
  BY <1>1, PipeType DEF Shape
<1>3. Ordered => thread[t].at = p /\ Fine(p) /\ contents[p].target = want
  BY <1>1, <1>2 DEF Ordered, PlaceInv, ThreadInv
<1>4. Ordered => Compiled(p)
  BY <1>2, <1>3, FineReality, TargetsAssumption DEF JitInv, TypesInv
<1>5. Assert(p, Compiled(p))
  BY <1>2 DEF prepare_jit_call_arguments
<1>6. fault' \in SUBSET {"race", "error", "cache"} /\ "cache" \notin fault' /\ raced \in BOOLEAN
  BY <1>4, <1>5, AssertInv DEF JitInv, TypesInv, JitTypeOK
<1> DEFINE called == [thread[t] EXCEPT !.args = contents[p].args]
           open(x) == {i \in Inputs : x.given[i] = Unbound}
           asked(x) == [called EXCEPT !.pc = "query", !.ask = x, !.query = [i \in open(x) |-> 0]]
<1>7. PICK next : /\ Step(t, contents, next)
                  /\ \/ thread[t].op = "realize" /\ next = [called EXCEPT !.pc = "call"]
                     \/ next = Idle
                     \/ thread[t].op # "realize" /\ \E x \in Asks : next = asked(x)
  <2> DEFINE Nexts(op) == IF op = "realize" THEN {[called EXCEPT !.pc = "call"]}
                         ELSE {IF open(x) = {} THEN Idle ELSE asked(x) : x \in Asks}
  <2>1. PICK n \in Nexts(thread[t].op) : Step(t, contents, IF Compiled(p) THEN n ELSE Idle)
    <3> DEFINE now == [thread[t] EXCEPT !.args = contents[thread[t].pipe].args]
    <3>1. \E n \in IF thread[t].op = "realize" THEN {[now EXCEPT !.pc = "call"]}
                   ELSE {IF open(x) = {} THEN Idle
                         ELSE [now EXCEPT !.pc = "query", !.ask = x,
                                          !.query = [i \in open(x) |-> 0]] : x \in Asks} :
             Step(t, contents, IF Compiled(thread[t].pipe) THEN n ELSE Idle)
      BY Zenon DEF prepare_jit_call_arguments, Asks
    <3>2. now = called
      BY <1>2
    <3>3. Compiled(thread[t].pipe) <=> Compiled(p)
      BY <1>2 DEF Compiled
    <3> HIDE DEF now, called, open
    <3> QED BY <3>1, <3>2, <3>3
  <2> HIDE DEF called, asked, open
  <2>2. CASE ~Compiled(p)
    BY <2>1, <2>2
  <2>3. CASE Compiled(p) /\ thread[t].op = "realize"
    BY <2>1, <2>3
  <2>4. CASE Compiled(p) /\ thread[t].op # "realize"
    <3>1. PICK x \in Asks : n = IF open(x) = {} THEN Idle ELSE asked(x)
      BY <2>1, <2>4
    <3> QED BY <2>1, <2>4, <3>1
  <2> QED BY <2>2, <2>3, <2>4
<1>8. /\ contents' = contents /\ sched' = sched /\ thread'[t] = next /\ Move(t, contents, next)
      /\ raced' = raced
  BY <1>7 DEF Step, Move, JitInv, TypesInv, JitTypeOK
<1>9. called \in Working /\ called.pipe = p /\ called.want = want /\ called.op = thread[t].op
      /\ called.args = contents[p].args /\ called.at = thread[t].at
  BY <1>2 DEF Working, Contents
<1>10. ASSUME Ordered
       PROVE  Fine(p)' /\ contents'[p].target = want
  <2>1. Fine(p) /\ \A r \in contents[p].externs : Version(contents[r])' = Version(contents[r])
    BY <1>3, <1>8, <1>10 DEF Version
  <2> QED BY <1>3, <1>8, <1>10, <2>1, StaysFine DEF JitInv
<1>11. \A q \in Pipes : Ordered => ~CompiledBy(q, t)
  BY <1>1 DEF CompiledBy, Compiling
<1>12. ASSUME Ordered
       PROVE  \A u \in Threads \ {t} : Busy(u) => Serene(u)
  BY <1>1, <1>12 DEF Ordered, AloneInv
<1> HIDE DEF called
<1>13. CASE next = Idle
  <2>1. ThreadInv(t)' /\ Shape(next)
    BY <1>8, <1>13 DEF ThreadInv, Idle, Compiling, Shape
  <2> QED BY <1>6, <1>8, <1>11, <1>12, <1>13, <2>1, GlideInv DEF Idle
<1>14. CASE thread[t].op = "realize" /\ next = [called EXCEPT !.pc = "call"]
  <2>1. /\ next \in Working /\ next.pc = "call" /\ next.pipe = p /\ next.want = want
        /\ next.op = "realize" /\ next.args = contents[p].args /\ next.at = thread[t].at
    BY <1>9, <1>14 DEF Working, Places
  <2>2. Shape(next)
    BY <2>1 DEF Shape
  <2>3. ASSUME Ordered
        PROVE  ThreadInv(t)' /\ Serene(t)'
    <3>1. ThreadInv(t)'
      BY <1>3, <1>8, <1>10, <2>1, <2>3 DEF ThreadInv, Compiling
    <3>2. Serene(t)'
      BY <1>3, <1>4, <1>8, <2>1, <2>3 DEF Serene, Settled, Compiled
    <3> QED BY <3>1, <3>2
  <2> QED BY <1>6, <1>8, <1>11, <1>12, <2>1, <2>2, <2>3, GlideInv
<1>15. CASE thread[t].op # "realize" /\ \E x \in Asks : next = asked(x)
  <2>1. PICK x \in Asks : next = asked(x)
    BY <1>15
  <2>2. [i \in open(x) |-> 0] \in Partial
    <3>1. open(x) \in SUBSET Inputs /\ 0 \in 0 .. MaxSize
      BY QueriesAssumption
    <3>2. [i \in open(x) |-> 0] \in [open(x) -> 0 .. MaxSize]
      BY <3>1
    <3> HIDE DEF open
    <3> QED BY <3>1, <3>2 DEF Partial
  <2>3. /\ next \in Working /\ next.pc = "query" /\ next.pipe = p /\ next.want = want
        /\ next.op = thread[t].op /\ next.args = contents[p].args /\ next.at = thread[t].at
        /\ next.ask = x /\ next.query = [i \in open(x) |-> 0]
    <3> HIDE DEF open
    <3> QED BY <1>9, <2>1, <2>2 DEF Working, Places
  <2>4. DOMAIN next.query = open(x)
    BY <2>3
  <2>5. Shape(next)
    BY <1>2, <1>15, <2>3, <2>4 DEF Shape, Asking
  <2>6. ASSUME Ordered
        PROVE  ThreadInv(t)'
    BY <1>3, <1>8, <1>10, <2>3, <2>6 DEF ThreadInv, Compiling
  <2>7. Ordered => \A u \in Threads \ {t} : ~Busy(u)
    BY <1>1, <1>15, OthersOut DEF Serene
  <2> QED BY <1>6, <1>8, <1>11, <2>3, <2>5, <2>6, <2>7, GlideInv
<1> QED BY <1>7, <1>13, <1>14, <1>15

LEMMA CallInv ==
    ASSUME JitInv, NEW t \in Threads, call_jit_code(t)
    PROVE  JitInv'
<1>1. Busy(t) /\ thread[t].pc = "call"
  BY DEF call_jit_code, At, Busy
<1>2. PICK p \in Pipes, want \in Targets : p = thread[t].pipe /\ want = thread[t].want
  BY <1>1, PipeType DEF Shape
<1>3. Ordered => Compiled(p)
  BY <1>1, <1>2, FineReality, TargetsAssumption DEF JitInv, TypesInv, Ordered, PlaceInv, ThreadInv
<1>4. Assert(p, Compiled(p)) /\ Move(t, contents, Idle) /\ raced' = raced /\ thread'[t] = Idle
  BY <1>2 DEF call_jit_code, Step, Move, JitInv, TypesInv, JitTypeOK
<1>5. fault' \in SUBSET {"race", "error", "cache"} /\ "cache" \notin fault' /\ raced \in BOOLEAN
  BY <1>3, <1>4, AssertInv DEF JitInv, TypesInv, JitTypeOK
<1>6. ThreadInv(t)' /\ Shape(Idle)
  BY <1>4 DEF ThreadInv, Idle, Compiling, Shape
<1>7. Ordered => \A u \in Threads \ {t} : Busy(u) => Serene(u)
  BY <1>1 DEF Ordered, AloneInv
<1>8. \A q \in Pipes : ~CompiledBy(q, t)
  BY <1>1 DEF CompiledBy, Compiling
<1> QED BY <1>4, <1>5, <1>6, <1>7, <1>8, GlideInv DEF Idle

\* The sizes that the code requires are sizes again.
LEMMA AnswerType ==
    ASSUME JitInv, NEW t \in Threads, thread[t].pc = "query"
    PROVE  LET q == Answer(t, thread[t].query)
           IN q \in Partial /\ DOMAIN q = DOMAIN thread[t].query /\ DOMAIN q \subseteq Inputs
<1>1. thread[t] \in Working /\ Asking(thread[t])
  BY DEF JitInv, TypesInv, JitTypeOK, Idle, Shape
<1> DEFINE ask == thread[t].ask
           query == thread[t].query
           sizes == WithQuery(t, query)
<1>2. ask \in Asks /\ DOMAIN query = {i \in Inputs : ask.given[i] = Unbound}
  BY <1>1 DEF Asking
<1>3. PICK O \in SUBSET Inputs : query \in [O -> 0 .. MaxSize]
  BY <1>1 DEF Working, Partial
<1>4. sizes \in [Inputs -> 0 .. MaxSize]
  <2>1. ASSUME NEW i \in Inputs
        PROVE  (IF i \in DOMAIN query THEN query[i] ELSE ask.given[i]) \in 0 .. MaxSize
    <3>1. CASE i \in DOMAIN query
      BY <1>3, <3>1
    <3>2. CASE i \notin DOMAIN query
      <4>1. ask.given[i] = MaxSize
        BY <1>2, <3>2 DEF Asks
      <4> QED BY <3>2, <4>1, QueriesAssumption
    <3> QED BY <3>1, <3>2
  <2> QED BY <2>1 DEF WithQuery
<1>5. ask.required \in [[Inputs -> 0 .. MaxSize] -> [Inputs -> 0 .. MaxSize]]
  BY <1>2, QueriesAssumption DEF Asks
<1>6. ask.required[sizes] \in [Inputs -> 0 .. MaxSize]
  BY <1>4, <1>5
<1> HIDE DEF sizes
<1>7. DOMAIN query \in SUBSET Inputs
  BY <1>2
<1>8. [i \in DOMAIN query |-> ask.required[sizes][i]] \in [DOMAIN query -> 0 .. MaxSize]
  BY <1>6, <1>7
<1>9. Answer(t, query) = [i \in DOMAIN query |-> ask.required[sizes][i]]
  BY DEF Answer, sizes
<1> QED BY <1>7, <1>8, <1>9 DEF Partial

LEMMA QueryInv ==
    ASSUME JitInv, NEW t \in Threads, Query(t) \/ QueryFails(t)
    PROVE  JitInv'
<1> DEFINE q == Answer(t, thread[t].query)
           iter == thread[t].iter + 1
           next == [thread[t] EXCEPT !.query = q, !.iter = IF @ = MaxIters THEN @ ELSE iter]
<1>1. Busy(t) /\ thread[t].pc = "query"
  BY DEF Query, QueryFails, At, Busy
<1>2. thread[t] \in Working /\ Shape(thread[t]) /\ Asking(thread[t]) /\ ~Serene(t)
  BY <1>1, PipeType DEF Shape, Serene
<1>3. Ordered => \A u \in Threads \ {t} : ~Busy(u)
  BY <1>1, <1>2, OthersOut
<1>4. \A p \in Pipes : ~CompiledBy(p, t)
  BY <1>1 DEF CompiledBy, Compiling
<1>5. /\ fault' = fault /\ raced' = raced
      /\ Move(t, contents, Idle) \/ Move(t, contents, next)
  BY DEF Query, QueryFails, Bind, Quietly, Step
<1>6. fault \in SUBSET {"race", "error", "cache"} /\ "cache" \notin fault /\ raced \in BOOLEAN
  BY DEF JitInv, TypesInv, JitTypeOK
<1>7. CASE Move(t, contents, Idle)
  <2>1. thread'[t] = Idle
    BY <1>7 DEF Move, JitInv, TypesInv, JitTypeOK
  <2>2. ThreadInv(t)' /\ Shape(Idle)
    BY <2>1 DEF ThreadInv, Idle, Compiling, Shape
  <2> QED BY <1>3, <1>4, <1>5, <1>6, <1>7, <2>2, GlideInv
<1>8. CASE Move(t, contents, next)
  <2>1. thread'[t] = next /\ contents' = contents /\ sched' = sched
    BY <1>8 DEF Move, JitInv, TypesInv, JitTypeOK
  <2>2. q \in Partial /\ DOMAIN q = DOMAIN thread[t].query
    BY <1>1, AnswerType
  <2> HIDE DEF q
  <2>3. (IF thread[t].iter = MaxIters THEN thread[t].iter ELSE iter) \in 0 .. MaxIters
    <3>1. thread[t].iter \in 0 .. MaxIters
      BY <1>2 DEF Working
    <3> QED BY <3>1, QueriesAssumption
  <2>4. /\ next \in Working /\ next.pc = "query" /\ next.pipe = thread[t].pipe
        /\ next.want = thread[t].want /\ next.op = thread[t].op /\ next.args = thread[t].args
        /\ next.ask = thread[t].ask /\ next.query = q /\ next.at = thread[t].at
    BY <1>1, <1>2, <2>2, <2>3 DEF Working
  <2> HIDE DEF next
  <2>5. Shape(next)
    BY <1>1, <1>2, <2>2, <2>4 DEF Shape, Asking
  <2>6. ASSUME Ordered
        PROVE  ThreadInv(t)'
    <3>1. PICK p \in Pipes, want \in KnownTargets : p = thread[t].pipe /\ want = thread[t].want
      BY <1>2 DEF Working
    <3>2. Fine(p) /\ contents[p].target = want /\ thread[t].args = contents[p].args /\ thread[t].at = p
      BY <1>1, <2>6, <3>1 DEF Ordered, PlaceInv, ThreadInv
    <3>3. \A r \in contents[p].externs : Version(contents[r])' = Version(contents[r])
      BY <2>1 DEF Version
    <3>4. Fine(p)'
      BY <2>1, <3>2, <3>3, StaysFine DEF JitInv
    <3> QED BY <1>1, <2>1, <2>4, <3>1, <3>2, <3>4 DEF ThreadInv, Compiling
  <2> QED BY <1>3, <1>4, <1>5, <1>6, <1>8, <2>4, <2>5, <2>6, GlideInv
<1> QED BY <1>5, <1>7, <1>8

LEMMA NextInv ==
    ASSUME JitInv, [PipelineNext]_pipelineVars
    PROVE  JitInv'
<1>1. CASE \/ LoopDirective \/ DeviceDirective \/ StorageDirective \/ TileDirective
           \/ BoundDirective \/ PlaceDirective \/ UpdateStage \/ StageDirective
           \/ CopyDirective \/ ProducerDirective
  BY <1>1, DirectiveInv
<1>2. CASE \E p \in Pipes : Author(p)
  BY <1>2, AuthorInv
<1>3. ASSUME NEW t \in Threads, Begin(t) \/ Running(t)
      PROVE  JitInv'
  BY <1>3, BeginInv, ResolveInv, CheckTargetInv, SetTargetInv, LowerInv, CompileFailsInv,
     MakeExternsInv, InstallInv, PrepareInv, CallInv, QueryInv DEF Running
<1>4. CASE UNCHANGED pipelineVars
  <2>1. UNCHANGED <<sched, contents, thread, fault, raced>>
    BY <1>4 DEF pipelineVars
  <2>2. TypesInv'
    BY <2>1 DEF JitInv, TypesInv, JitTypeOK, ExternsInv, Shape, Asking
  <2>3. CacheInv => CacheInv'
    BY <2>1 DEF CacheInv, Fine, Half, Empty, Current, LinkedNow, Params, Version, CompiledBy
  <2>4. AloneInv => AloneInv'
    BY <2>1 DEF AloneInv, Serene, Settled, Compiled, Busy
  <2>5. ASSUME PlaceInv, NEW t \in Threads
        PROVE  ThreadInv(t)'
    <3> DEFINE p == thread[t].pipe
               q == thread[t].at
               want == thread[t].want
    <3>1. ThreadInv(t)
      BY <2>5 DEF PlaceInv
    <3>2. LinksInv(t) => LinksInv(t)'
      BY <2>1 DEF LinksInv, Fine, Empty, Current, LinkedNow, Params, Version
    <3>3. /\ Built(p, want) => Built(p, want)'
          /\ Built(q, want) => Built(q, want)'
          /\ Fine(p) => Fine(p)'
          /\ Empty(q) => Empty(q)'
      BY <2>1 DEF Built, Half, Fine, Empty, Current, LinkedNow, Params, Version
    <3> QED BY <2>1, <3>1, <3>2, <3>3, Zenon DEF ThreadInv
  <2> QED BY <2>1, <2>2, <2>3, <2>4, <2>5 DEF JitInv, Ordered, PlaceInv
<1> QED BY <1>1, <1>2, <1>3, <1>4 DEF PipelineNext

(* The cache is consistent in every state, but for what the history        *)
(* variables name.                                                         *)
THEOREM CacheThm == PipelineSpec => []JitInv
<1>1. PipelineInit => JitInv
  BY InitJit
<1>2. JitInv /\ [PipelineNext]_pipelineVars => JitInv'
  BY NextInv
<1> QED BY <1>1, <1>2, PTL DEF PipelineSpec

LEMMA CalledCurrent ==
    ASSUME JitInv, ~raced, NEW t \in Threads, Runs(t)
    PROVE  /\ thread[t].pipe \in Pipes /\ Current(thread[t].pipe)
           /\ contents[thread[t].pipe].target = thread[t].want
           /\ thread[t].args = contents[thread[t].pipe].args
<1>1. Busy(t) /\ Ordered /\ ThreadInv(t)
  BY DEF JitInv, Ordered, PlaceInv, Busy, Runs
<1>2. thread[t].pipe \in Pipes /\ thread[t].want \in Targets
  BY <1>1, PipeType DEF Shape, Runs
<1> QED BY <1>1, <1>2, TargetsAssumption DEF ThreadInv, Fine, Empty, Runs

-----------------------------------------------------------------------------
(* The theorems.                                                           *)

(* The state keeps its types (PipelineContents).                           *)
THEOREM JitTypeCorrect == PipelineSpec => []JitTypeOK
<1>1. JitInv => JitTypeOK
  BY DEF JitInv, TypesInv
<1> QED BY <1>1, CacheThm, PTL

(* What runs differs from what there is when it runs only in what calls    *)
(* that do not invalidate have changed, for any number of pipelines that   *)
(* call each other and of targets, whatever the author calls in whatever   *)
(* order and wherever compilations fail.                                   *)
THEOREM RunsCurrentThm == PipelineSpec => []RunsCurrent
<1>1. JitInv => RunsCurrent
  <2>1. SUFFICES ASSUME JitInv, ~raced, NEW t \in Threads, Runs(t),
                        NEW c, c = contents[thread[t].pipe]
                 PROVE  /\ Differs(c.code.version, Version(c)) \subseteq c.missed
                        /\ c.code.target = thread[t].want
                        /\ thread[t].want \notin Wasm /\ "externs" \notin c.missed =>
                              \A q \in c.externs : /\ c.linked[q].version = Version(contents[q])
                                                   /\ c.linked[q].target = thread[t].want
    BY DEF RunsCurrent
  <2> QED BY <2>1, CalledCurrent DEF Current, LinkedNow
<1> QED BY <1>1, CacheThm, PTL

(* A call passes the arguments that the code was compiled with, unless     *)
(* requirements or bounds have been added that the code does not have.     *)
THEOREM ArgsMatchCodeThm == PipelineSpec => []ArgsMatchCode
<1>1. JitInv => ArgsMatchCode
  <2>1. SUFFICES ASSUME JitInv, ~raced, NEW t \in Threads, Runs(t),
                        contents[thread[t].pipe].missed \cap {"requirements", "bound", "producers"} = {}
                 PROVE  thread[t].args = contents[thread[t].pipe].code.args
    BY DEF ArgsMatchCode
  <2>2. Current(thread[t].pipe) /\ thread[t].args = contents[thread[t].pipe].args
    BY <2>1, CalledCurrent
  <2> QED BY <2>1, <2>2 DEF Current, Arguing
<1> QED BY <1>1, CacheThm, PTL

(* The internal assertions of the cache hold, but after a compilation that *)
(* ended in an error, and when calls overlap of which one finds no code:   *)
(* any number of threads realize what is compiled.                         *)
THEOREM NoInternalErrorThm == PipelineSpec => []NoInternalError
<1>1. JitInv => NoInternalError
  BY DEF JitInv, NoInternalError
<1> QED BY <1>1, CacheThm, PTL

\* Only a query that converged leaves sizes behind, or one that failed.
LEMMA InferredStep ==
    ASSUME JitInv, InferredSettled, [PipelineNext]_pipelineVars
    PROVE  InferredSettled'
<1>1. CASE inferred' = NoSizes
  BY <1>1 DEF InferredSettled, NoSizes
<1>2. CASE UNCHANGED pipelineVars
  BY <1>2 DEF pipelineVars, InferredSettled
<1>3. ASSUME NEW t \in Threads, Query(t), Converged(t, Answer(t, thread[t].query), 0)
      PROVE  InferredSettled'
  <2> DEFINE q == thread[t].query
             sizes == WithQuery(t, q)
             required == thread[t].ask.required
  <2>1. thread[t].pc = "query" /\ Answer(t, q) = q
    BY <1>3 DEF Query, At, Converged
  <2>2. Bind(t, q, FALSE)
    BY <1>3, <2>1 DEF Query, Converged
  <2>3. inferred' = [open |-> DOMAIN q, sizes |-> sizes, required |-> required, failed |-> FALSE]
    BY <2>2 DEF Bind
  <2>4. DOMAIN q \subseteq Inputs
    BY <2>1, AnswerType
  <2>5. \A i \in DOMAIN q : sizes[i] = q[i] /\ q[i] = required[sizes][i]
    <3>1. \A i \in DOMAIN q : sizes[i] = q[i]
      BY <2>4 DEF WithQuery
    <3>2. q = [i \in DOMAIN q |-> required[sizes][i]]
      BY <2>1 DEF Answer
    <3> QED BY <3>1, <3>2
  <2> HIDE DEF q, sizes, required
  <2> QED BY <2>3, <2>5 DEF InferredSettled
<1>4. ASSUME NEW t \in Threads, QueryFails(t)
      PROVE  inferred' = NoSizes \/ inferred'.failed
  BY <1>4 DEF QueryFails, Quietly, Step, Bind
<1>5. CASE ~UNCHANGED pipelineVars
  <2>1. CASE \/ LoopDirective \/ DeviceDirective \/ StorageDirective \/ TileDirective
             \/ BoundDirective \/ PlaceDirective \/ UpdateStage \/ StageDirective
             \/ CopyDirective \/ ProducerDirective
    BY <1>1, <2>1 DEF LoopDirective, DeviceDirective, StorageDirective, TileDirective,
                      BoundDirective, PlaceDirective, UpdateStage, StageDirective,
                      CopyDirective, ProducerDirective, Give
  <2>2. ASSUME NEW p \in Pipes, Author(p)
        PROVE  inferred' = NoSizes
    BY <2>2 DEF Author, add_requirement, trace_pipeline, add_custom_lowering_pass,
                clear_custom_lowering_passes, set_jit_externs, infer_arguments, SetContents
  <2>3. ASSUME NEW t \in Threads, Begin(t)
        PROVE  inferred' = NoSizes
    BY <2>3 DEF Begin
  <2>4. ASSUME NEW t \in Threads, Running(t), ~Query(t), ~QueryFails(t)
        PROVE  inferred' = NoSizes
    BY <2>4 DEF Running, Resolve, CheckTarget, SetTarget, compile_to_module, CompileFails,
                make_externs_jit_module, Install, prepare_jit_call_arguments, call_jit_code,
                Quietly, Step
  <2>5. ASSUME NEW t \in Threads, Query(t)
        PROVE  InferredSettled'
    <3>1. CASE Converged(t, Answer(t, thread[t].query), 0)
      BY <1>3, <2>5, <3>1
    <3>2. CASE ~Converged(t, Answer(t, thread[t].query), 0)
      BY <1>1, <2>5, <3>2 DEF Query, Converged, Quietly, Step
    <3> QED BY <3>1, <3>2
  <2>6. ASSUME NEW t \in Threads, QueryFails(t)
        PROVE  InferredSettled'
    BY <1>1, <1>4, <2>6 DEF InferredSettled
  <2> QED BY <1>1, <1>5, <2>1, <2>2, <2>3, <2>4, <2>5, <2>6 DEF PipelineNext
<1> QED BY <1>2, <1>5

(* Sizes that were inferred are those that the pipeline requires when it   *)
(* runs with them, whatever it requires of them.                           *)
THEOREM InferredSettledThm == PipelineSpec => []InferredSettled
<1>1. PipelineInit => InferredSettled
  BY DEF PipelineInit, NoSizes, InferredSettled
<1>2. JitInv /\ InferredSettled /\ [PipelineNext]_pipelineVars => InferredSettled'
  BY InferredStep
<1> QED BY <1>1, <1>2, CacheThm, PTL DEF PipelineSpec
=============================================================================
