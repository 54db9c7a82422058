-------------------------- MODULE RegionRuntimeProofs --------------------------
(***************************************************************************)
(* Proofs about RegionRuntime.                                             *)
(***************************************************************************)
EXTENDS RegionRuntime, SequenceTheorems, SetSums, TLAPS

-----------------------------------------------------------------------------
(* Sequences of anything.                                                  *)

IsSeq(c) == \E S : c \in Seq(S)

LEMMA EmptyIsSeq == IsSeq(<< >>)
BY EmptySeq DEF IsSeq

LEMMA OneIsSeq == ASSUME NEW x PROVE IsSeq(<<x>>) /\ <<x>> # << >>
<1>1. <<x>> \in Seq({x})
  OBVIOUS
<1> QED BY <1>1 DEF IsSeq

LEMMA TwoSeqs ==
    ASSUME NEW c, NEW d, IsSeq(c), IsSeq(d)
    PROVE  \E S : c \in Seq(S) /\ d \in Seq(S)
<1>1. PICK S : c \in Seq(S)
  BY DEF IsSeq
<1>2. PICK T : d \in Seq(T)
  BY DEF IsSeq
<1>3. c \in Seq(S \cup T) /\ d \in Seq(S \cup T)
  BY <1>1, <1>2, SeqMonotonic
<1> QED BY <1>3

LEMMA TailIsSeq ==
    ASSUME NEW c, IsSeq(c), c # << >>
    PROVE  IsSeq(Tail(c)) /\ Len(c) \in Nat /\ Len(Tail(c)) \in Nat /\ Len(Tail(c)) = Len(c) - 1
<1>1. PICK S : c \in Seq(S)
  BY DEF IsSeq
<1>2. Tail(c) \in Seq(S) /\ Len(Tail(c)) = Len(c) - 1
  BY <1>1, HeadTailProperties
<1> QED BY <1>1, <1>2, LenProperties DEF IsSeq

LEMMA Joining ==
    ASSUME NEW c, NEW d, IsSeq(c), IsSeq(d)
    PROVE  /\ IsSeq(c \o d)
           /\ << >> \o d = d /\ c \o << >> = c
           /\ c \o d = << >> => c = << >> /\ d = << >>
           /\ c # << >> => /\ c \o d # << >>
                           /\ Head(c \o d) = Head(c)
                           /\ Tail(c \o d) = Tail(c) \o d
<1>1. PICK S : c \in Seq(S) /\ d \in Seq(S)
  BY TwoSeqs
<1>2. IsSeq(c \o d)
  BY <1>1, ConcatProperties DEF IsSeq
<1>3. << >> \o d = d /\ c \o << >> = c
  BY <1>1, ConcatEmptySeq
<1>4. c \o d = << >> => c = << >> /\ d = << >>
  BY <1>1, ConcatEqualIffEmpty
<1>5. ASSUME c # << >> PROVE Head(c \o d) = Head(c) /\ Tail(c \o d) = Tail(c) \o d
  <2>1. Len(c) \in Nat \ {0} /\ Len(d) \in Nat /\ c \o d \in Seq(S) /\ Len(c \o d) = Len(c) + Len(d)
    BY <1>1, <1>5, EmptySeq, ConcatProperties, LenProperties
  <2>2. \A i \in 1 .. Len(c) + Len(d) : (c \o d)[i] = IF i <= Len(c) THEN c[i] ELSE d[i - Len(c)]
    BY <1>1, ConcatProperties
  <2>3. Head(c \o d) = Head(c)
    BY <2>1, <2>2
  <2>4. /\ Tail(c) \in Seq(S) /\ Len(Tail(c)) = Len(c) - 1
        /\ \A i \in 1 .. Len(Tail(c)) : Tail(c)[i] = c[i + 1]
    BY <1>1, <1>5, HeadTailProperties
  <2>5. c \o d # << >>
    BY <1>4, <1>5
  <2>6. /\ Tail(c \o d) \in Seq(S) /\ Len(Tail(c \o d)) = Len(c \o d) - 1
        /\ \A i \in 1 .. Len(Tail(c \o d)) : Tail(c \o d)[i] = (c \o d)[i + 1]
    BY <2>1, <2>5, HeadTailProperties
  <2>7. /\ Tail(c) \o d \in Seq(S) /\ Len(Tail(c) \o d) = Len(Tail(c)) + Len(d)
        /\ \A i \in 1 .. Len(Tail(c)) + Len(d) :
              (Tail(c) \o d)[i] = IF i <= Len(Tail(c)) THEN Tail(c)[i] ELSE d[i - Len(Tail(c))]
    BY <1>1, <2>4, ConcatProperties
  <2>8. ASSUME NEW i \in 1 .. Len(Tail(c \o d)) PROVE Tail(c \o d)[i] = (Tail(c) \o d)[i]
    <3>1. i + 1 \in 1 .. Len(c) + Len(d) /\ i \in 1 .. Len(Tail(c)) + Len(d)
      BY <2>1, <2>4, <2>6
    <3>2. CASE i <= Len(Tail(c))
      BY <2>1, <2>2, <2>4, <2>6, <2>7, <3>1, <3>2
    <3>3. CASE ~(i <= Len(Tail(c)))
      <4>1. i + 1 - Len(c) = i - Len(Tail(c)) /\ ~(i + 1 <= Len(c))
        BY <2>1, <2>4, <3>1, <3>3
      <4> QED BY <2>1, <2>2, <2>4, <2>6, <2>7, <3>1, <3>3, <4>1
    <3> QED BY <3>2, <3>3
  <2>9. Len(Tail(c \o d)) = Len(Tail(c) \o d)
    BY <2>1, <2>4, <2>6, <2>7
  <2> QED BY <2>3, <2>6, <2>7, <2>8, <2>9, SeqEqual
<1> QED BY <1>2, <1>3, <1>4, <1>5

LEMMA JoiningThree ==
    ASSUME NEW c, NEW d, NEW e, IsSeq(c), IsSeq(d), IsSeq(e)
    PROVE  (c \o d) \o e = c \o (d \o e)
<1>1. PICK S : c \in Seq(S)
  BY DEF IsSeq
<1>2. PICK T : d \in Seq(T) /\ e \in Seq(T)
  BY TwoSeqs
<1>3. c \in Seq(S \cup T) /\ d \in Seq(S \cup T) /\ e \in Seq(S \cup T)
  BY <1>1, <1>2, SeqMonotonic
<1> QED BY <1>3, ConcatAssociative

LEMMA ConsParts ==
    ASSUME NEW x, NEW d, IsSeq(d)
    PROVE  /\ IsSeq(<<x>> \o d) /\ <<x>> \o d # << >>
           /\ Head(<<x>> \o d) = x /\ Tail(<<x>> \o d) = d
<1>1. PICK one : one = <<x>>
  OBVIOUS
<1>2. IsSeq(one) /\ one # << >> /\ Head(one) = x /\ Tail(one) = << >>
  BY <1>1, OneIsSeq
<1>3. /\ IsSeq(one \o d) /\ one \o d # << >>
      /\ Head(one \o d) = Head(one) /\ Tail(one \o d) = Tail(one) \o d
  BY <1>2, Joining
<1>4. << >> \o d = d
  BY EmptyIsSeq, Joining
<1> QED BY <1>1, <1>2, <1>3, <1>4

LEMMA HeadIsThere ==
    ASSUME NEW c, NEW d, IsSeq(c), IsSeq(d), d # << >>
    PROVE  \E i \in DOMAIN (c \o d) : (c \o d)[i] = Head(d)
<1>1. PICK S : c \in Seq(S) /\ d \in Seq(S)
  BY TwoSeqs
<1>2. /\ Len(c) \in Nat /\ Len(d) \in Nat /\ Len(d) > 0 /\ Head(d) = d[1]
      /\ DOMAIN (c \o d) = 1 .. Len(c) + Len(d)
      /\ \A i \in 1 .. Len(c) + Len(d) : (c \o d)[i] = IF i <= Len(c) THEN c[i] ELSE d[i - Len(c)]
  BY <1>1, LenProperties, ConcatProperties, EmptySeq
<1>3. /\ Len(c) + 1 \in 1 .. Len(c) + Len(d) /\ ~(Len(c) + 1 <= Len(c))
      /\ (Len(c) + 1) - Len(c) = 1
  BY <1>2
<1> QED BY <1>2, <1>3

LEMMA AppendJoins ==
    ASSUME NEW c, NEW x, IsSeq(c)
    PROVE  Append(c, x) = c \o <<x>>
<1>1. PICK S : c \in Seq(S)
  BY DEF IsSeq
<1>2. c \in Seq(S \cup {x})
  BY <1>1, SeqMonotonic
<1> QED BY <1>2, AppendIsConcat

-----------------------------------------------------------------------------
(* Code that can run.                                                      *)

LEMMA RunTypes ==
    ASSUME NEW p, NEW c, NEW s, NEW e, CanRun(p, c, s, e)
    PROVE  IsSeq(c) /\ s \in Places(p) /\ e \in Places(p)
BY DEF CanRun, IsSeq

LEMMA RunNothing ==
    ASSUME NEW p, NEW s \in Places(p)
    PROVE  CanRun(p, << >>, s, s)
<1> DEFINE runs == {<<<< >>, s, s>>}
<1>1. runs \in SUBSET (Seq({}) \X Places(p) \X Places(p))
  <2>1. << >> \in Seq({})
    BY EmptySeq
  <2> HIDE DEF runs
  <2>2. <<<< >>, s, s>> \in Seq({}) \X Places(p) \X Places(p)
    BY <2>1
  <2> QED BY <2>2 DEF runs
<1>2. Nested(p, runs)
  BY DEF Nested
<1> QED BY <1>1, <1>2 DEF CanRun

LEMMA RunEnds ==
    ASSUME NEW p, NEW s, NEW e, CanRun(p, << >>, s, e)
    PROVE  s = e
BY DEF CanRun, Nested

LEMMA RunStep ==
    ASSUME NEW p, NEW c, NEW s, NEW e, CanRun(p, c, s, e), c # << >>
    PROVE  /\ Allowed(p, Head(c), s)
           /\ CanRun(p, Tail(c), After(Head(c), s), e)
           /\ \A b \in Inner(Head(c)) : CanRun(p, b, Inside(Head(c), s), Inside(Head(c), s))
<1>1. PICK ops, runs : /\ runs \in SUBSET (Seq(ops) \X Places(p) \X Places(p))
                       /\ Nested(p, runs)
                       /\ <<c, s, e>> \in runs
  BY DEF CanRun
<1>2. /\ Allowed(p, Head(c), s)
      /\ <<Tail(c), After(Head(c), s), e>> \in runs
      /\ \A b \in Inner(Head(c)) : <<b, Inside(Head(c), s), Inside(Head(c), s)>> \in runs
  BY <1>1 DEF Nested
<1> QED BY <1>1, <1>2 DEF CanRun

LEMMA BothNest ==
    ASSUME NEW p, NEW c, NEW s, NEW e, CanRun(p, c, s, e),
           NEW d, NEW t, NEW f, CanRun(p, d, t, f)
    PROVE  \E ops, runs : /\ runs \in SUBSET (Seq(ops) \X Places(p) \X Places(p))
                          /\ Nested(p, runs)
                          /\ <<c, s, e>> \in runs /\ <<d, t, f>> \in runs
<1>1. PICK ops1, runs1 : /\ runs1 \in SUBSET (Seq(ops1) \X Places(p) \X Places(p))
                         /\ Nested(p, runs1)
                         /\ <<c, s, e>> \in runs1
  BY DEF CanRun
<1>2. PICK ops2, runs2 : /\ runs2 \in SUBSET (Seq(ops2) \X Places(p) \X Places(p))
                         /\ Nested(p, runs2)
                         /\ <<d, t, f>> \in runs2
  BY DEF CanRun
<1> DEFINE ops == ops1 \cup ops2
           runs == runs1 \cup runs2
<1>3. \A q : (q \in Seq(ops1) => q \in Seq(ops)) /\ (q \in Seq(ops2) => q \in Seq(ops))
  BY SeqMonotonic
<1>4. runs \in SUBSET (Seq(ops) \X Places(p) \X Places(p))
  <2> HIDE DEF ops
  <2> QED BY <1>1, <1>2, <1>3
<1>5. Nested(p, runs)
  <2> SUFFICES ASSUME NEW r \in runs
               PROVE  \/ r[1] = << >> /\ r[2] = r[3]
                      \/ /\ r[1] # << >>
                         /\ Allowed(p, Head(r[1]), r[2])
                         /\ <<Tail(r[1]), After(Head(r[1]), r[2]), r[3]>> \in runs
                         /\ LET x == Inside(Head(r[1]), r[2])
                            IN  \A b \in Inner(Head(r[1])) : <<b, x, x>> \in runs
    BY DEF Nested
  <2>1. CASE r \in runs1
    BY <1>1, <2>1 DEF Nested
  <2>2. CASE r \in runs2
    BY <1>2, <2>2 DEF Nested
  <2> QED BY <2>1, <2>2
<1>6. <<c, s, e>> \in runs /\ <<d, t, f>> \in runs
  BY <1>1, <1>2
<1> HIDE DEF ops, runs
<1> QED BY <1>4, <1>5, <1>6

\* A loop before code that can run.
LEMMA RunLoop ==
    ASSUME NEW p, NEW h, h.op = "for", NEW c, NEW s \in Places(p), NEW e,
           Allowed(p, h, s), CanRun(p, c, s, e),
           CanRun(p, h.body, Inside(h, s), Inside(h, s))
    PROVE  CanRun(p, <<h>> \o c, s, e)
<1> DEFINE x == Inside(h, s)
<1>1. PICK ops1, runs1 : /\ runs1 \in SUBSET (Seq(ops1) \X Places(p) \X Places(p))
                         /\ Nested(p, runs1)
                         /\ <<c, s, e>> \in runs1 /\ <<h.body, x, x>> \in runs1
  BY BothNest
<1> DEFINE ops == ops1 \cup {h}
           runs == runs1 \cup {<<<<h>> \o c, s, e>>}
<1>2. c \in Seq(ops1) /\ e \in Places(p)
  BY <1>1
<1>3. c \in Seq(ops) /\ <<h>> \in Seq(ops)
  BY <1>2, SeqMonotonic
<1>4. <<h>> \o c \in Seq(ops)
  <2> HIDE DEF ops
  <2> QED BY <1>3, ConcatProperties
<1>5. \A q : q \in Seq(ops1) => q \in Seq(ops)
  BY SeqMonotonic
<1>6. runs \in SUBSET (Seq(ops) \X Places(p) \X Places(p))
  <2> HIDE DEF ops
  <2>1. <<<<h>> \o c, s, e>> \in Seq(ops) \X Places(p) \X Places(p)
    BY <1>2, <1>4
  <2>2. ASSUME NEW r \in runs1 PROVE r \in Seq(ops) \X Places(p) \X Places(p)
    BY <1>1, <1>5
  <2> QED BY <2>1, <2>2
<1>7. /\ <<h>> \o c # << >> /\ Head(<<h>> \o c) = h /\ Tail(<<h>> \o c) = c
  BY <1>2, ConsParts DEF IsSeq
<1>8. After(h, s) = s /\ Inner(h) = {h.body}
  BY DEF After, Inner
<1>9. Nested(p, runs)
  <2> SUFFICES ASSUME NEW r \in runs
               PROVE  \/ r[1] = << >> /\ r[2] = r[3]
                      \/ /\ r[1] # << >>
                         /\ Allowed(p, Head(r[1]), r[2])
                         /\ <<Tail(r[1]), After(Head(r[1]), r[2]), r[3]>> \in runs
                         /\ LET y == Inside(Head(r[1]), r[2])
                            IN  \A b \in Inner(Head(r[1])) : <<b, y, y>> \in runs
    BY DEF Nested
  <2>1. CASE r \in runs1
    BY <1>1, <2>1 DEF Nested
  <2>2. CASE r = <<<<h>> \o c, s, e>>
    BY <1>1, <1>7, <1>8, <2>2
  <2> QED BY <2>1, <2>2
<1>10. <<<<h>> \o c, s, e>> \in runs
  OBVIOUS
<1> HIDE DEF ops, runs
<1> QED BY <1>6, <1>9, <1>10 DEF CanRun

\* Code after code.
LEMMA RunBoth ==
    ASSUME NEW p, NEW c, NEW s, NEW m, CanRun(p, c, s, m), NEW d, NEW e, CanRun(p, d, m, e)
    PROVE  CanRun(p, c \o d, s, e)
<1>1. PICK ops, runs1 : /\ runs1 \in SUBSET (Seq(ops) \X Places(p) \X Places(p))
                        /\ Nested(p, runs1)
                        /\ <<c, s, m>> \in runs1 /\ <<d, m, e>> \in runs1
  BY BothNest
<1> DEFINE longer(r) == <<r[1] \o d, r[2], e>>
           ending == {r \in runs1 : r[3] = m}
           runs == runs1 \cup {longer(r) : r \in ending}
<1>2. d \in Seq(ops) /\ e \in Places(p)
  BY <1>1
<1>3. \A q \in Seq(ops) : q \o d \in Seq(ops)
  BY <1>2, ConcatProperties
<1>4. runs \in SUBSET (Seq(ops) \X Places(p) \X Places(p))
  <2>1. ASSUME NEW r \in ending PROVE longer(r) \in Seq(ops) \X Places(p) \X Places(p)
    <3>1. r \in Seq(ops) \X Places(p) \X Places(p)
      BY <1>1
    <3>2. r[1] \in Seq(ops) /\ r[2] \in Places(p)
      BY <3>1
    <3>3. r[1] \o d \in Seq(ops)
      BY <1>3, <3>2
    <3> QED BY <1>2, <3>2, <3>3
  <2> HIDE DEF longer, ending
  <2> QED BY <1>1, <2>1
<1>5. Nested(p, runs)
  <2> DEFINE Good(r) == \/ r[1] = << >> /\ r[2] = r[3]
                        \/ /\ r[1] # << >>
                           /\ Allowed(p, Head(r[1]), r[2])
                           /\ <<Tail(r[1]), After(Head(r[1]), r[2]), r[3]>> \in runs
                           /\ \A b \in Inner(Head(r[1])) :
                                 <<b, Inside(Head(r[1]), r[2]), Inside(Head(r[1]), r[2])>> \in runs
  <2>1. ASSUME NEW r \in runs1 PROVE Good(r)
    BY <1>1, <2>1 DEF Nested
  <2>2. ASSUME NEW r \in ending PROVE Good(longer(r))
    <3>1. r \in runs1 /\ r[3] = m /\ r[1] \in Seq(ops)
      BY <1>1
    <3>2. CASE r[1] = << >>
      <4>1. r[2] = m
        BY <1>1, <3>1, <3>2 DEF Nested
      <4>2. longer(r) = <<d, m, e>>
        BY <1>2, <3>2, <4>1, ConcatEmptySeq
      <4> HIDE DEF Good, longer
      <4> QED BY <1>1, <2>1, <4>2
    <3>3. CASE r[1] # << >>
      <4>1. /\ Allowed(p, Head(r[1]), r[2])
            /\ <<Tail(r[1]), After(Head(r[1]), r[2]), m>> \in runs1
            /\ \A b \in Inner(Head(r[1])) :
                  <<b, Inside(Head(r[1]), r[2]), Inside(Head(r[1]), r[2])>> \in runs1
        BY <1>1, <3>1, <3>3 DEF Nested
      <4>2. r[1] \o d # << >> /\ Head(r[1] \o d) = Head(r[1]) /\ Tail(r[1] \o d) = Tail(r[1]) \o d
        BY <1>2, <3>1, <3>3, Joining DEF IsSeq
      <4>3. <<Tail(r[1]) \o d, After(Head(r[1]), r[2]), e>> \in runs
        <5> DEFINE q == <<Tail(r[1]), After(Head(r[1]), r[2]), m>>
        <5>1. q \in ending /\ longer(q) = <<Tail(r[1]) \o d, After(Head(r[1]), r[2]), e>>
          BY <4>1
        <5> QED BY <5>1
      <4> QED BY <4>1, <4>2, <4>3
    <3> QED BY <3>2, <3>3
  <2>3. \A r \in runs : Good(r)
    <3> HIDE DEF Good
    <3> QED BY <2>1, <2>2
  <2> QED BY <2>3 DEF Nested
<1>6. <<c \o d, s, e>> \in runs
  <2>1. <<c, s, m>> \in ending /\ longer(<<c, s, m>>) = <<c \o d, s, e>>
    BY <1>1
  <2> QED BY <2>1
<1> HIDE DEF runs
<1> QED BY <1>4, <1>5, <1>6 DEF CanRun

\* Is the next of these two calls decr?
NextDecr(c) ==
    \E i \in DOMAIN c : c[i].op = "decr" /\ \A j \in 1 .. i - 1 : c[j].op # "incr"

LEMMA NextOfNothing == ~NextDecr(<< >>)
BY DEF NextDecr

LEMMA NextOfHead ==
    ASSUME NEW c, IsSeq(c), c # << >>
    PROVE  NextDecr(c) <=> Head(c).op = "decr" \/ (Head(c).op # "incr" /\ NextDecr(Tail(c)))
<1>1. PICK S : c \in Seq(S)
  BY DEF IsSeq
<1>2. /\ Len(c) \in Nat \ {0} /\ DOMAIN c = 1 .. Len(c) /\ Head(c) = c[1]
      /\ Tail(c) \in Seq(S) /\ Len(Tail(c)) = Len(c) - 1 /\ DOMAIN Tail(c) = 1 .. Len(c) - 1
      /\ \A i \in 1 .. Len(c) - 1 : Tail(c)[i] = c[i + 1]
  BY <1>1, EmptySeq, LenProperties, HeadTailProperties
<1>3. ASSUME NextDecr(c), Head(c).op # "decr" PROVE Head(c).op # "incr" /\ NextDecr(Tail(c))
  <2>1. PICK i \in 1 .. Len(c) : c[i].op = "decr" /\ \A j \in 1 .. i - 1 : c[j].op # "incr"
    BY <1>2, <1>3 DEF NextDecr
  <2>2. i # 1
    BY <1>2, <1>3, <2>1
  <2>3. i - 1 \in 1 .. Len(c) - 1 /\ Tail(c)[i - 1].op = "decr" /\ 1 \in 1 .. i - 1
    BY <1>2, <2>1, <2>2
  <2>4. ASSUME NEW j \in 1 .. i - 1 - 1 PROVE Tail(c)[j].op # "incr"
    <3>1. j \in 1 .. Len(c) - 1 /\ j + 1 \in 1 .. i - 1
      BY <1>2, <2>4
    <3> QED BY <1>2, <2>1, <3>1
  <2> QED BY <1>2, <2>1, <2>3, <2>4 DEF NextDecr
<1>4. ASSUME Head(c).op = "decr" PROVE NextDecr(c)
  <2>1. 1 \in DOMAIN c /\ \A j \in 1 .. 1 - 1 : c[j].op # "incr"
    BY <1>2
  <2> QED BY <1>2, <1>4, <2>1 DEF NextDecr
<1>5. ASSUME Head(c).op # "incr", NextDecr(Tail(c)) PROVE NextDecr(c)
  <2>1. PICK i \in 1 .. Len(c) - 1 :
           Tail(c)[i].op = "decr" /\ \A j \in 1 .. i - 1 : Tail(c)[j].op # "incr"
    BY <1>2, <1>5 DEF NextDecr
  <2>2. i + 1 \in DOMAIN c /\ c[i + 1].op = "decr"
    BY <1>2, <2>1
  <2>3. ASSUME NEW j \in 1 .. i + 1 - 1 PROVE c[j].op # "incr"
    <3>1. CASE j = 1
      BY <1>2, <1>5, <3>1
    <3>2. CASE j # 1
      <4>1. j - 1 \in 1 .. i - 1 /\ j - 1 \in 1 .. Len(c) - 1 /\ (j - 1) + 1 = j
        BY <2>1, <3>2
      <4> QED BY <1>2, <2>1, <4>1
    <3> QED BY <3>1, <3>2
  <2> QED BY <2>2, <2>3 DEF NextDecr
<1> QED BY <1>3, <1>4, <1>5

\* What cannot be next in the second part does not matter.
LEMMA NextOfBoth ==
    ASSUME NEW c, NEW d, IsSeq(c), IsSeq(d), ~NextDecr(d)
    PROVE  NextDecr(c \o d) <=> NextDecr(c)
<1>1. PICK S : c \in Seq(S) /\ d \in Seq(S)
  BY TwoSeqs
<1>2. /\ Len(c) \in Nat /\ Len(d) \in Nat
      /\ DOMAIN c = 1 .. Len(c) /\ DOMAIN d = 1 .. Len(d)
      /\ DOMAIN (c \o d) = 1 .. Len(c) + Len(d)
      /\ \A i \in 1 .. Len(c) + Len(d) : (c \o d)[i] = IF i <= Len(c) THEN c[i] ELSE d[i - Len(c)]
  BY <1>1, LenProperties, ConcatProperties
<1>3. ASSUME NextDecr(c) PROVE NextDecr(c \o d)
  <2>1. PICK i \in 1 .. Len(c) : c[i].op = "decr" /\ \A j \in 1 .. i - 1 : c[j].op # "incr"
    BY <1>2, <1>3 DEF NextDecr
  <2>2. i \in DOMAIN (c \o d) /\ (c \o d)[i].op = "decr"
    BY <1>2, <2>1
  <2>3. ASSUME NEW j \in 1 .. i - 1 PROVE (c \o d)[j].op # "incr"
    <3>1. j \in 1 .. Len(c) + Len(d) /\ j <= Len(c)
      BY <1>2, <2>1
    <3> QED BY <1>2, <2>1, <3>1
  <2> QED BY <2>2, <2>3 DEF NextDecr
<1>4. ASSUME NextDecr(c \o d) PROVE NextDecr(c)
  <2>1. PICK i \in 1 .. Len(c) + Len(d) :
           (c \o d)[i].op = "decr" /\ \A j \in 1 .. i - 1 : (c \o d)[j].op # "incr"
    BY <1>2, <1>4 DEF NextDecr
  <2>2. CASE i <= Len(c)
    <3>1. i \in DOMAIN c /\ c[i].op = "decr"
      BY <1>2, <2>1, <2>2
    <3>2. ASSUME NEW j \in 1 .. i - 1 PROVE c[j].op # "incr"
      <4>1. j \in 1 .. Len(c) + Len(d) /\ j <= Len(c)
        BY <1>2, <2>1, <2>2
      <4> QED BY <1>2, <2>1, <4>1
    <3> QED BY <3>1, <3>2 DEF NextDecr
  <2>3. CASE ~(i <= Len(c))
    <3>1. i - Len(c) \in DOMAIN d /\ d[i - Len(c)].op = "decr"
      BY <1>2, <2>1, <2>3
    <3>2. ASSUME NEW j \in 1 .. i - Len(c) - 1 PROVE d[j].op # "incr"
      <4>1. /\ j + Len(c) \in 1 .. i - 1 /\ j + Len(c) \in 1 .. Len(c) + Len(d)
            /\ ~(j + Len(c) <= Len(c)) /\ (j + Len(c)) - Len(c) = j
        BY <1>2, <2>1, <2>3
      <4> QED BY <1>2, <2>1, <4>1
    <3> QED BY <3>1, <3>2 DEF NextDecr
  <2> QED BY <2>2, <2>3
<1> QED BY <1>3, <1>4

\* What a step of code changes of the place.
LEMMA AfterParts ==
    ASSUME NEW p, NEW s \in Places(p), NEW c, Allowed(p, c, s)
    PROVE  /\ After(c, s) \in Places(p)
           /\ After(c, s).par = s.par
           /\ After(c, s).open = IF c.op = "enter" THEN c.area
                                 ELSE IF c.op = "leave" THEN NoArea ELSE s.open
           /\ After(c, s).active = IF c.op = "incr" THEN TRUE
                                   ELSE IF c.op = "decr" THEN FALSE ELSE s.active
           /\ After(c, s).func = IF c.op = "set_current_func" THEN c.func ELSE s.func
<1>1. CASE c.op = "enter"
  BY <1>1 DEF Places, Allowed, After
<1>2. CASE c.op = "leave"
  BY <1>2 DEF Places, Allowed, After
<1>3. CASE c.op = "incr"
  BY <1>3 DEF Places, Allowed, After
<1>4. CASE c.op = "decr"
  BY <1>4 DEF Places, Allowed, After
<1>5. CASE c.op = "set_current_func"
  BY <1>5 DEF Places, Allowed, After
<1>6. CASE c.op \notin {"enter", "leave", "incr", "decr", "set_current_func"}
  BY <1>6 DEF Places, Allowed, After
<1> QED BY <1>1, <1>2, <1>3, <1>4, <1>5, <1>6

\* In code that ends inactive, decr is next exactly where the thread is active.
LEMMA RunNext ==
    ASSUME NEW p, NEW e, e.active = FALSE, NEW d, NEW r, CanRun(p, d, r, e)
    PROVE  NextDecr(d) <=> r.active
<1> DEFINE Wrong(c, s) == CanRun(p, c, s, e) /\ ~(NextDecr(c) <=> s.active)
           T == {n \in Nat : \E c, s : Wrong(c, s) /\ Len(c) = n}
<1> SUFFICES ASSUME Wrong(d, r) PROVE FALSE
  OBVIOUS
<1>1. ASSUME NEW c, NEW s, Wrong(c, s) PROVE \E c2, s2 : Wrong(c2, s2) /\ Len(c2) \in Nat /\ Len(c) \in Nat /\ Len(c2) < Len(c)
  <2>1. IsSeq(c) /\ s \in Places(p)
    BY <1>1, RunTypes
  <2>2. c # << >>
    <3> SUFFICES ASSUME c = << >> PROVE FALSE
      OBVIOUS
    <3>1. s = e
      BY <1>1, RunEnds
    <3> QED BY <1>1, <3>1, NextOfNothing
  <2> DEFINE s2 == After(Head(c), s)
  <2>3. Allowed(p, Head(c), s) /\ CanRun(p, Tail(c), s2, e)
    BY <1>1, <2>2, RunStep
  <2>4. s2.active = IF Head(c).op = "incr" THEN TRUE
                    ELSE IF Head(c).op = "decr" THEN FALSE ELSE s.active
    BY <2>1, <2>3, AfterParts
  <2>5. NextDecr(c) <=> Head(c).op = "decr" \/ (Head(c).op # "incr" /\ NextDecr(Tail(c)))
    BY <2>1, <2>2, NextOfHead
  <2>6. /\ Head(c).op = "incr" => ~s.active
        /\ Head(c).op = "decr" => s.active
    BY <2>3 DEF Allowed
  <2> HIDE DEF s2
  <2>7. Wrong(Tail(c), s2)
    BY <1>1, <2>3, <2>4, <2>5, <2>6
  <2>8. Len(c) \in Nat /\ Len(Tail(c)) \in Nat /\ Len(Tail(c)) < Len(c)
    BY <2>1, <2>2, TailIsSeq
  <2> QED BY <2>7, <2>8
<1> HIDE DEF Wrong
<1>2. T \in SUBSET Nat /\ T # {}
  BY <1>1
<1>3. PICK n \in T : \A m \in T : n <= m
  <2> HIDE DEF T
  <2> QED BY <1>2, LeastNumber
<1>4. PICK c, s : Wrong(c, s) /\ Len(c) = n
  BY <1>3
<1>5. PICK c2, s2 : Wrong(c2, s2) /\ Len(c2) \in Nat /\ Len(c2) < n
  BY <1>1, <1>4
<1>6. Len(c2) \in T
  BY <1>5
<1> QED BY <1>3, <1>5, <1>6

-----------------------------------------------------------------------------
(* The invariant.  own is the code each thread has yet to run of the       *)
(* pipeline or of the parallel loop it works on, at the place it is at,    *)
(* base where all of these end, and rest what the caller runs after that.  *)

Put(f, t, v) == [x \in Threads |-> IF x = t THEN v ELSE f[x]]

Alone(own, base) ==
    /\ base.par = FALSE /\ base.open = NoArea
    /\ tasks = 0 /\ \A w \in Workers : own[w] = << >>

Forked(base, rest) ==
    /\ base.par = TRUE /\ CanRun(program, task, base, base)
    /\ \E y, e : /\ AtRest(e) /\ CanRun(program, y, [base EXCEPT !.par = FALSE], e)
                 /\ rest = <<Join>> \o (y \o <<End>>)

Todo(own, rest) == [t \in Threads |-> IF t = Main THEN own[Main] \o rest ELSE own[t]]

Shape(own, at, base, rest) ==
    /\ \A t \in Threads : /\ CanRun(program, own[t], at[t], base)
                          /\ at[t].par = base.par
                          /\ base.par => at[t].open = base.open
    /\ base.active = FALSE
    /\ todo = Todo(own, rest)
    /\ \/ rest = << >> /\ own[Main] = << >> /\ Alone(own, base)
       \/ rest = <<End>> /\ Alone(own, base)
       \/ Forked(base, rest)

\* The pointer names the region that the caller is in, if that is measured; what
\* a thread read of it still holds.
PointerTo(o) == IF o # NoArea /\ Sampled(o) THEN [area |-> o, run |-> run] ELSE NULL

Pointers(own, at) ==
    /\ \A t \in Threads : seen[t] # NULL => /\ seen[t] = last_counters
                                            /\ own[t] # << >> /\ Head(own[t]).op = "decr"
    /\ failed = {} => last_counters = PointerTo(at[Main].open) /\ ~fault

\* The current func is the one that some thread set last.
Funcs(at, base) ==
    /\ base.par = FALSE => at[Main].func = Nobody \/ at[Main].func = current_func
    /\ base.par = TRUE => base.func = Nobody \/ \E t \in Threads : at[t].func = current_func

\* Threads are counted where they are active; a call that failed runs nothing more.
ActiveAt(at) == {t \in Threads : at[t].active /\ seen[t] = NULL}

Counts(own, at, base) ==
    /\ active_threads = Cardinality(ActiveAt(at)) + Cardinality({c \in failed : c.active})
    /\ \A c \in failed : c.run = run => own[Main] = << >> /\ base.par = FALSE

\* What a thread counted in the region it is in, and has yet to be charged.
Pending(s, a, n) == IF s.open = a /\ s.active THEN n ELSE 0

Counting(s, n) == IF s.active THEN s.open # NoArea => n >= 0 ELSE n <= 0

Charged(a, t, s, o) ==
    /\ stats[a].counters[t] + Pending(s, a, counted[t]) = due[a][t]
    /\ t \notin stats[a].used => stats[a].counters[t] = 0
    /\ t \in stats[a].used => stats[a].iterations # 0 \/ a = o

Exact(a, t) ==
    /\ printed[a].counters[t] = due[a][t]
    /\ t \notin printed[a].used => printed[a].counters[t] = 0
    /\ t \in printed[a].used => printed[a].iterations # 0

Charges(at, rest) ==
    /\ failed = {} => \A t \in Threads : Counting(at[t], counted[t])
    /\ rest # << >> =>
          \A a \in Areas(program) : \A t \in Threads :
             /\ failed = {} => Charged(a, t, at[t], at[Main].open)
             /\ (\A c \in failed : c.run = run) => stats[a].counters[t] <= due[a][t]
    /\ rest = << >> /\ printed # << >> =>
          \A a \in Areas(program) : \A t \in Threads :
             /\ failed = {} => Exact(a, t)
             /\ (\A c \in failed : c.run = run) => printed[a].counters[t] <= due[a][t]

AreaStats == [iterations : Nat, counters : [Threads -> Nat], used : SUBSET Threads]
PointerType == {NULL} \cup [area : Areas(program), run : 1 .. run]

Types(rest) ==
    /\ program \in Programs
    /\ run \in 0 .. MaxRuns /\ tasks \in 0 .. Trips
    /\ last_counters \in PointerType
    /\ seen \in [Threads -> PointerType]
    /\ stats \in {<< >>} \cup [Areas(program) -> AreaStats]
    /\ rest # << >> => run \in 1 .. MaxRuns /\ stats \in [Areas(program) -> AreaStats]
    /\ printed \in {<< >>} \cup [Areas(program) -> AreaStats]
    /\ run # 0 => due \in [Areas(program) -> [Threads -> Nat]]
    /\ counted \in [Threads -> Nat \cup {-1}]
    /\ current_func \in FuncIds(program) \cup {-1}
    /\ active_threads \in Nat
    /\ failed \in SUBSET [run : 1 .. run, active : BOOLEAN] /\ IsFiniteSet(failed)

All(own, at, base, rest) ==
    /\ Shape(own, at, base, rest)
    /\ Pointers(own, at)
    /\ Funcs(at, base)
    /\ Counts(own, at, base)
    /\ Granularity = 1 => Charges(at, rest)
    /\ Types(rest)

IInv == \E own, at, base, rest : All(own, at, base, rest)

-----------------------------------------------------------------------------
LEMMA NoAreaIsNone == ASSUME NEW p PROVE NoArea \notin Areas(p)
BY DEF NoArea, Areas, LoopArea, Overhead, FuncArea

LEMMA ActiveFinite == ASSUME NEW at PROVE IsFiniteSet(ActiveAt(at))
<1>1. IsFiniteSet(Threads)
  BY ThreadAssumption, FS_Singleton, FS_Union DEF Threads
<1>2. ActiveAt(at) \subseteq Threads
  BY DEF ActiveAt
<1> QED BY <1>1, <1>2, FS_Subset

LEMMA FailedFinite ==
    ASSUME IsFiniteSet(failed)
    PROVE  IsFiniteSet({c \in failed : c.active}) /\ Cardinality({c \in failed : c.active}) \in Nat
<1> DEFINE F == {c \in failed : c.active}
<1>1. F \subseteq failed
  OBVIOUS
<1> HIDE DEF F
<1>2. IsFiniteSet(F) /\ Cardinality(F) \in Nat
  BY <1>1, FS_Subset, FS_CardinalityType
<1> QED BY <1>2 DEF F

LEMMA EndFacts ==
    IsSeq(<<End>>) /\ <<End>> # << >> /\ Head(<<End>>) = End /\ Tail(<<End>>) = << >> /\ ~NextDecr(<<End>>)
<1>1. IsSeq(<<End>>) /\ <<End>> # << >> /\ Head(<<End>>) = End /\ Tail(<<End>>) = << >>
  BY OneIsSeq
<1>2. End.op = "pipeline_end"
  BY DEF End, Call
<1>3. <<End>>[1] = End /\ DOMAIN <<End>> = 1 .. 1
  OBVIOUS
<1>4. ~NextDecr(<<End>>)
  BY <1>2, <1>3 DEF NextDecr
<1> QED BY <1>1, <1>4

\* What the caller runs after the loop.
LEMMA RestFacts ==
    ASSUME NEW own, NEW at, NEW base, NEW rest, Shape(own, at, base, rest)
    PROVE  /\ IsSeq(rest) /\ ~NextDecr(rest)
           /\ base \in Places(program)
           /\ rest # << >> => Head(rest) = IF base.par THEN Join ELSE End
           /\ base.par => rest # << >> /\ rest # <<End>> /\ Tail(rest) # << >>
<1>0. base \in Places(program)
  <2>1. CanRun(program, own[Main], at[Main], base)
    BY DEF Shape, Threads
  <2> QED BY <2>1, RunTypes
<1>1. CASE rest = << >> /\ Alone(own, base)
  BY <1>0, <1>1, EmptyIsSeq, NextOfNothing DEF Alone
<1>2. CASE rest = <<End>> /\ Alone(own, base)
  BY <1>0, <1>2, EndFacts DEF Alone
<1>3. CASE Forked(base, rest)
  <2>1. PICK y, e : /\ AtRest(e) /\ CanRun(program, y, [base EXCEPT !.par = FALSE], e)
                    /\ rest = <<Join>> \o (y \o <<End>>)
    BY <1>3 DEF Forked
  <2>2. base.active = FALSE /\ base.par = TRUE /\ e.active = FALSE
    <3>1. e \in Places(program)
      BY <2>1, RunTypes
    <3> QED BY <1>3, <2>1, <3>1 DEF Shape, Forked, AtRest, Places
  <2>3. IsSeq(y) /\ ~NextDecr(y)
    <3>1. [base EXCEPT !.par = FALSE].active = FALSE
      BY <1>0, <2>2 DEF Places
    <3> DEFINE s == [base EXCEPT !.par = FALSE]
    <3> HIDE DEF s
    <3>2. NextDecr(y) <=> s.active
      BY <2>1, <2>2, RunNext DEF s
    <3> QED BY <2>1, <3>1, <3>2, RunTypes DEF s
  <2>4. IsSeq(y \o <<End>>) /\ ~NextDecr(y \o <<End>>) /\ y \o <<End>> # << >>
    BY <2>3, EndFacts, NextOfBoth, Joining
  <2>5. PICK z : z = y \o <<End>>
    OBVIOUS
  <2>6. /\ rest = <<Join>> \o z /\ IsSeq(rest) /\ rest # << >>
        /\ Head(rest) = Join /\ Tail(rest) = z /\ z # << >>
    BY <2>1, <2>4, <2>5, ConsParts
  <2>7. ~NextDecr(rest)
    <3>1. Join.op = "join"
      BY DEF Join, Call
    <3> QED BY <2>4, <2>5, <2>6, <3>1, NextOfHead
  <2>8. rest # <<End>>
    BY <2>6, EndFacts
  <2> QED BY <1>0, <2>2, <2>6, <2>7, <2>8
<1> QED BY <1>1, <1>2, <1>3 DEF Shape

\* What a thread does next: a step of its own code, or, if that has ended, the
\* join or the end of the pipeline.
LEMMA NextFacts ==
    ASSUME NEW own, NEW at, NEW base, NEW rest, Shape(own, at, base, rest), NEW t \in Threads
    PROVE  /\ IsSeq(own[t]) /\ IsSeq(todo[t])
           /\ own[t] # << >> =>
                 /\ todo[t] # << >> /\ Head(todo[t]) = Head(own[t])
                 /\ Tail(todo[t]) = IF t = Main THEN Tail(own[t]) \o rest ELSE Tail(own[t])
                 /\ base.par \/ t = Main
                 /\ rest # << >>
           /\ own[t] = << >> => /\ at[t] = base
                                /\ todo[t] = IF t = Main THEN rest ELSE << >>
<1>1. CanRun(program, own[t], at[t], base) /\ IsSeq(own[t])
  BY RunTypes DEF Shape
<1>2. todo[t] = IF t = Main THEN own[t] \o rest ELSE own[t]
  BY DEF Shape, Todo
<1>3. IsSeq(rest)
  BY RestFacts
<1>4. IsSeq(todo[t])
  BY <1>1, <1>2, <1>3, Joining
<1>5. ASSUME own[t] # << >>
      PROVE  /\ todo[t] # << >> /\ Head(todo[t]) = Head(own[t])
             /\ Tail(todo[t]) = IF t = Main THEN Tail(own[t]) \o rest ELSE Tail(own[t])
             /\ base.par \/ t = Main
             /\ rest # << >>
  <2>1. base.par \/ t = Main
    BY <1>5 DEF Shape, Alone, Forked, Threads
  <2>2. rest # << >>
    <3>1. CASE base.par
      BY <3>1, RestFacts
    <3>2. CASE ~base.par /\ t = Main
      BY <1>5, <3>2, EndFacts DEF Shape, Forked
    <3> QED BY <2>1, <3>1, <3>2
  <2>3. /\ own[t] \o rest # << >> /\ Head(own[t] \o rest) = Head(own[t])
        /\ Tail(own[t] \o rest) = Tail(own[t]) \o rest
    BY <1>1, <1>3, <1>5, Joining
  <2>4. CASE t = Main
    BY <1>2, <2>1, <2>2, <2>3, <2>4
  <2>5. CASE t # Main
    BY <1>2, <1>5, <2>1, <2>2, <2>5
  <2> QED BY <2>4, <2>5
<1>6. ASSUME own[t] = << >> PROVE at[t] = base /\ todo[t] = IF t = Main THEN rest ELSE << >>
  <2>1. at[t] = base
    BY <1>1, <1>6, RunEnds
  <2>2. << >> \o rest = rest
    BY <1>3, EmptyIsSeq, Joining
  <2> QED BY <1>2, <1>6, <2>1, <2>2
<1> QED BY <1>1, <1>4, <1>5, <1>6

\* A thread that does anything else is in its own code.
LEMMA Busy ==
    ASSUME NEW own, NEW at, NEW base, NEW rest, Shape(own, at, base, rest), NEW t \in Threads,
           todo[t] # << >>, Head(todo[t]).op \notin {"join", "pipeline_end"}
    PROVE  /\ own[t] # << >> /\ Head(todo[t]) = Head(own[t])
           /\ at[t] \in Places(program)
           /\ Allowed(program, Head(own[t]), at[t])
           /\ CanRun(program, Tail(own[t]), After(Head(own[t]), at[t]), base)
           /\ \A b \in Inner(Head(own[t])) :
                 CanRun(program, b, Inside(Head(own[t]), at[t]), Inside(Head(own[t]), at[t]))
<1>1. own[t] # << >>
  <2> SUFFICES ASSUME own[t] = << >> PROVE FALSE
    OBVIOUS
  <2>1. todo[t] = rest /\ rest # << >>
    BY NextFacts
  <2>2. Head(rest) \in {Join, End}
    BY <2>1, RestFacts
  <2>3. Join.op = "join" /\ End.op = "pipeline_end"
    BY DEF Join, End, Call
  <2> QED BY <2>1, <2>2, <2>3
<1>2. CanRun(program, own[t], at[t], base)
  BY DEF Shape
<1> QED BY <1>1, <1>2, NextFacts, RunStep, RunTypes

LEMMA ActiveMeans ==
    ASSUME NEW own, NEW at, NEW base, NEW rest, Shape(own, at, base, rest), NEW t \in Threads
    PROVE  Active(t) <=> at[t].active /\ seen[t] = NULL
<1>1. CanRun(program, own[t], at[t], base) /\ base.active = FALSE /\ IsSeq(own[t])
  BY RunTypes DEF Shape
<1>2. NextDecr(own[t]) <=> at[t].active
  BY <1>1, RunNext
<1>3. todo[t] = IF t = Main THEN own[t] \o rest ELSE own[t]
  BY DEF Shape, Todo
<1>4. IsSeq(rest) /\ ~NextDecr(rest)
  BY RestFacts
<1>5. NextDecr(todo[t]) <=> at[t].active
  BY <1>1, <1>2, <1>3, <1>4, NextOfBoth
<1> QED BY <1>5 DEF Active, NextDecr

-----------------------------------------------------------------------------
(* Steps of a thread through its code.                                     *)

LEMMA ThreadMoves ==
    ASSUME NEW own, NEW at, NEW base, NEW rest, Shape(own, at, base, rest),
           NEW t \in Threads, own[t] # << >> \/ base.par,
           NEW c, NEW s, CanRun(program, c, s, base), s.par = base.par, base.par => s.open = base.open,
           program' = program, task' = task, base.par = FALSE => tasks' = tasks,
           todo' = [todo EXCEPT ![t] = IF t = Main THEN c \o rest ELSE c]
    PROVE  Shape(Put(own, t, c), Put(at, t, s), base, rest)'
<1> DEFINE own2 == Put(own, t, c)
           at2 == Put(at, t, s)
<1>1. \A x \in Threads : own2[x] = (IF x = t THEN c ELSE own[x]) /\ at2[x] = (IF x = t THEN s ELSE at[x])
  BY DEF Put
<1>2. Main \in Threads /\ \A w \in Workers : w \in Threads /\ w # Main
  BY ThreadAssumption DEF Threads
<1> HIDE DEF own2, at2
<1>3. \A x \in Threads : /\ CanRun(program', own2[x], at2[x], base)
                         /\ at2[x].par = base.par
                         /\ base.par => at2[x].open = base.open
  BY <1>1 DEF Shape
<1>4. todo' = Todo(own2, rest)
  BY <1>1, <1>2 DEF Shape, Todo
<1>5. CASE base.par
  <2>1. Forked(base, rest)
    BY <1>5 DEF Shape, Alone
  <2>2. Forked(base, rest)'
    BY <2>1 DEF Forked
  <2> QED BY <1>3, <1>4, <2>2 DEF Shape, Todo, own2, at2
<1>6. CASE ~base.par
  <2>0. own[t] # << >>
    BY <1>6
  <2>3. rest # << >> /\ t = Main
    BY <1>6, <2>0, NextFacts
  <2>1. rest = <<End>> /\ Alone(own, base) /\ t = Main
    BY <1>6, <2>3 DEF Shape, Forked
  <2>2. Alone(own2, base)'
    BY <1>1, <1>2, <2>1 DEF Alone
  <2> QED BY <1>3, <1>4, <2>1, <2>2 DEF Shape, Todo, own2, at2
<1> QED BY <1>5, <1>6

LEMMA DoneKeeps ==
    ASSUME NEW own, NEW at, NEW base, NEW rest, Shape(own, at, base, rest),
           NEW t \in Threads, own[t] # << >>, Done(t), program' = program
    PROVE  Shape(Put(own, t, Tail(own[t])), Put(at, t, After(Head(own[t]), at[t])), base, rest)'
<1> DEFINE s == After(Head(own[t]), at[t])
<1>1. CanRun(program, own[t], at[t], base) /\ at[t].par = base.par /\ (base.par => at[t].open = base.open)
  BY DEF Shape
<1>2. CanRun(program, Tail(own[t]), s, base) /\ Allowed(program, Head(own[t]), at[t]) /\ at[t] \in Places(program)
  BY <1>1, RunStep, RunTypes
<1>3. s.par = base.par /\ (base.par => s.open = base.open)
  <2>1. /\ After(Head(own[t]), at[t]).par = at[t].par
        /\ After(Head(own[t]), at[t]).open =
              IF Head(own[t]).op = "enter" THEN Head(own[t]).area
              ELSE IF Head(own[t]).op = "leave" THEN NoArea ELSE at[t].open
    <3>1. PICK h, x : h = Head(own[t]) /\ x = at[t]
      OBVIOUS
    <3>2. x \in Places(program) /\ Allowed(program, h, x)
      BY <1>2, <3>1
    <3>3. /\ After(h, x).par = x.par
          /\ After(h, x).open = IF h.op = "enter" THEN h.area ELSE IF h.op = "leave" THEN NoArea ELSE x.open
      BY <3>2, AfterParts
    <3> QED BY <3>1, <3>3
  <2>2. base.par => Head(own[t]).op # "enter" /\ Head(own[t]).op # "leave"
    BY <1>1, <1>2 DEF Allowed
  <2>3. base.par => s.open = at[t].open
    BY <2>1, <2>2
  <2> QED BY <1>1, <2>1, <2>3
<1>4. /\ todo' = [todo EXCEPT ![t] = IF t = Main THEN Tail(own[t]) \o rest ELSE Tail(own[t])]
      /\ task' = task /\ tasks' = tasks
  <2>1. Tail(todo[t]) = IF t = Main THEN Tail(own[t]) \o rest ELSE Tail(own[t])
    BY NextFacts
  <2> QED BY <2>1 DEF Done
<1> HIDE DEF s
<1>5. Shape(Put(own, t, Tail(own[t])), Put(at, t, s), base, rest)'
  BY <1>2, <1>3, <1>4, ThreadMoves
<1> QED BY <1>5 DEF s

\* A loop or a branch is replaced by code that ends where it does.
LEMMA InsteadKeeps ==
    ASSUME NEW own, NEW at, NEW base, NEW rest, Shape(own, at, base, rest),
           NEW t \in Threads, own[t] # << >>, NEW code, IsSeq(code),
           CanRun(program, code \o Tail(own[t]), at[t], base),
           todo' = [todo EXCEPT ![t] = code \o Tail(@)],
           program' = program, task' = task, tasks' = tasks
    PROVE  Shape(Put(own, t, code \o Tail(own[t])), Put(at, t, at[t]), base, rest)'
<1>1. at[t].par = base.par /\ (base.par => at[t].open = base.open) /\ IsSeq(own[t])
  BY RunTypes DEF Shape
<1>2. IsSeq(Tail(own[t])) /\ IsSeq(rest)
  BY <1>1, TailIsSeq, RestFacts
<1>3. (code \o Tail(own[t])) \o rest = code \o (Tail(own[t]) \o rest)
  <2>1. PICK d : d = Tail(own[t])
    OBVIOUS
  <2>2. IsSeq(d) /\ IsSeq(rest) /\ IsSeq(code)
    BY <1>2, <2>1
  <2>3. (code \o d) \o rest = code \o (d \o rest)
    BY ONLY <2>2, JoiningThree
  <2> QED BY <2>1, <2>3
<1>4. Tail(todo[t]) = IF t = Main THEN Tail(own[t]) \o rest ELSE Tail(own[t])
  BY NextFacts
<1>5. todo' = [todo EXCEPT ![t] = IF t = Main THEN (code \o Tail(own[t])) \o rest ELSE code \o Tail(own[t])]
  <2>1. CASE t = Main
    BY <1>3, <1>4, <2>1
  <2>2. CASE t # Main
    BY <1>4, <2>2
  <2> QED BY <2>1, <2>2
<1> QED BY <1>1, <1>5, ThreadMoves

\* The rest of the invariant does not see how code is replaced by code.
LEMMA OthersKeep ==
    ASSUME NEW own, NEW at, NEW base, NEW rest, All(own, at, base, rest),
           NEW own2, NEW at2, \A x \in Threads : at2[x] = at[x] /\ (seen[x] # NULL => own2[x] = own[x]),
           own[Main] # << >> \/ base.par, tasks' \in 0 .. Trips,
           UNCHANGED <<chosen, run, counterVars, current_func, active_threads, due, printed, failed>>
    PROVE  /\ Pointers(own2, at2)' /\ Funcs(at2, base)' /\ Counts(own2, at2, base)'
           /\ (Granularity = 1 => Charges(at2, rest)') /\ Types(rest)'
<1>0. /\ program' = program /\ run' = run /\ last_counters' = last_counters /\ stats' = stats
      /\ seen' = seen /\ counted' = counted /\ fault' = fault /\ current_func' = current_func
      /\ active_threads' = active_threads /\ due' = due /\ printed' = printed /\ failed' = failed
  BY DEF chosen, counterVars
<1>1. Main \in Threads
  BY DEF Threads
<1>2. Pointers(own2, at2)'
  BY <1>0, <1>1 DEF All, Pointers, PointerTo, Sampled
<1>3. Funcs(at2, base)'
  BY <1>0, <1>1 DEF All, Funcs
<1>4. Counts(own2, at2, base)'
  <2>1. ActiveAt(at2)' = ActiveAt(at)
    BY <1>0 DEF ActiveAt
  <2>2. \A c \in failed : c.run # run
    BY DEF All, Counts
  <2> QED BY <1>0, <2>1, <2>2 DEF All, Counts
<1>5. Granularity = 1 => Charges(at2, rest)'
  BY <1>0, <1>1 DEF All, Charges, Charged, Pending, Exact
<1>6. Types(rest)'
  BY <1>0 DEF All, Types, PointerType
<1> QED BY <1>2, <1>3, <1>4, <1>5, <1>6

-----------------------------------------------------------------------------
(* Each action keeps the invariant.                                        *)

\* A thread that ends a step: where it was and where it is.
LEMMA StepFacts ==
    ASSUME NEW own, NEW at, NEW base, NEW rest, All(own, at, base, rest),
           NEW t \in Threads, todo[t] # << >>, Head(todo[t]).op \notin {"join", "pipeline_end"}
    PROVE  /\ own[t] # << >> /\ Head(own[t]) = Head(todo[t])
           /\ own[Main] # << >> \/ base.par
           /\ ~base.par => t = Main
           /\ rest # << >> /\ run \in 1 .. MaxRuns /\ stats \in [Areas(program) -> AreaStats]
           /\ due \in [Areas(program) -> [Threads -> Nat]]
           /\ Head(todo[t]).op # "decr" => seen[t] = NULL
           /\ at[t] \in Places(program) /\ Allowed(program, Head(todo[t]), at[t])
           /\ at[t].par = base.par /\ at[t].active \in BOOLEAN
           /\ \A c \in failed : c.run # run
<1>1. Shape(own, at, base, rest)
  BY DEF All
<1>2. own[t] # << >> /\ Head(own[t]) = Head(todo[t])
  BY <1>1, Busy
<1>3. (base.par \/ t = Main) /\ rest # << >>
  BY <1>1, <1>2, NextFacts
<1>4. at[t] \in Places(program) /\ Allowed(program, Head(todo[t]), at[t])
  BY <1>1, <1>2, Busy
<1>5. at[t].par = base.par /\ at[t].active \in BOOLEAN
  BY <1>1, <1>4 DEF Shape, Places
<1>6. Head(todo[t]).op # "decr" => seen[t] = NULL
  BY <1>2 DEF All, Pointers
<1>7. \A c \in failed : c.run # run
  BY <1>2, <1>3 DEF All, Counts
<1>8. run \in 1 .. MaxRuns /\ stats \in [Areas(program) -> AreaStats] /\ due \in [Areas(program) -> [Threads -> Nat]]
  BY <1>3 DEF All, Types
<1> QED BY <1>2, <1>3, <1>4, <1>5, <1>6, <1>7, <1>8

\* Where the threads are after thread t has made a step through its code.
Moved(own, at, t, own2, at2) ==
    LET c == Head(todo[t])
    IN  /\ \A x \in Threads : x # t => own2[x] = own[x] /\ at2[x] = at[x]
        /\ at2[t] \in Places(program)
        /\ at2[t].open = IF c.op = "enter" THEN c.area
                         ELSE IF c.op = "leave" THEN NoArea ELSE at[t].open
        /\ at2[t].active = IF c.op = "incr" THEN TRUE
                           ELSE IF c.op = "decr" THEN FALSE ELSE at[t].active
        /\ at2[t].func = IF c.op = "set_current_func" THEN c.func ELSE at[t].func

LEMMA StepMoves ==
    ASSUME NEW own, NEW at, NEW base, NEW rest, All(own, at, base, rest),
           NEW t \in Threads, todo[t] # << >>, Head(todo[t]).op \notin {"join", "pipeline_end"},
           Done(t), program' = program
    PROVE  \E own2, at2 : Shape(own2, at2, base, rest)' /\ Moved(own, at, t, own2, at2)
<1>1. Shape(own, at, base, rest)
  BY DEF All
<1>2. PICK h, s : h = Head(todo[t]) /\ s = at[t]
  OBVIOUS
<1>3. own[t] # << >> /\ h = Head(own[t]) /\ s \in Places(program) /\ Allowed(program, h, s)
  BY <1>2, StepFacts
<1> DEFINE own2 == Put(own, t, Tail(own[t]))
           at2 == Put(at, t, After(h, s))
<1>4. Shape(own2, at2, base, rest)'
  BY <1>1, <1>2, <1>3, DoneKeeps
<1>5. /\ \A x \in Threads : x # t => own2[x] = own[x] /\ at2[x] = at[x]
      /\ at2[t] = After(h, s)
  BY DEF Put
<1>6. s \in Places(program) /\ Allowed(program, h, s)
  BY <1>3
<1>7. /\ After(h, s) \in Places(program)
      /\ After(h, s).open = IF h.op = "enter" THEN h.area
                            ELSE IF h.op = "leave" THEN NoArea ELSE s.open
      /\ After(h, s).active = IF h.op = "incr" THEN TRUE
                              ELSE IF h.op = "decr" THEN FALSE ELSE s.active
      /\ After(h, s).func = IF h.op = "set_current_func" THEN h.func ELSE s.func
  BY ONLY <1>6, AfterParts
<1> HIDE DEF own2, at2
<1>8. /\ at2[t] \in Places(program)
      /\ at2[t].open = IF h.op = "enter" THEN h.area
                       ELSE IF h.op = "leave" THEN NoArea ELSE s.open
      /\ at2[t].active = IF h.op = "incr" THEN TRUE
                         ELSE IF h.op = "decr" THEN FALSE ELSE s.active
      /\ at2[t].func = IF h.op = "set_current_func" THEN h.func ELSE s.func
  BY <1>5, <1>7
<1>9. /\ at2[t].open = IF Head(todo[t]).op = "enter" THEN Head(todo[t]).area
                       ELSE IF Head(todo[t]).op = "leave" THEN NoArea ELSE at[t].open
      /\ at2[t].active = IF Head(todo[t]).op = "incr" THEN TRUE
                         ELSE IF Head(todo[t]).op = "decr" THEN FALSE ELSE at[t].active
      /\ at2[t].func = IF Head(todo[t]).op = "set_current_func" THEN Head(todo[t]).func ELSE at[t].func
  BY <1>2, <1>8
<1>10. Moved(own, at, t, own2, at2)
  BY <1>5, <1>8, <1>9 DEF Moved
<1> QED BY <1>4, <1>10

LEMMA PassKeeps ==
    ASSUME NEW own, NEW at, NEW base, NEW rest, All(own, at, base, rest), NEW t \in Threads, Pass(t)
    PROVE  IInv'
<1>1. /\ todo[t] # << >> /\ Head(todo[t]).op \in {"enter_parallel", "leave_parallel", "kernel"}
      /\ Done(t)
      /\ UNCHANGED <<chosen, run, counterVars, current_func, active_threads, due, printed, failed>>
  BY DEF Pass, Doing
<1>2. program' = program /\ tasks' = tasks
  BY <1>1 DEF chosen, Done
<1>3. own[t] # << >> /\ (own[Main] # << >> \/ base.par) /\ seen[t] = NULL
      /\ Head(own[t]) = Head(todo[t]) /\ Allowed(program, Head(own[t]), at[t])
      /\ at[t] \in Places(program)
  BY <1>1, StepFacts
<1> DEFINE own2 == Put(own, t, Tail(own[t]))
           at2 == Put(at, t, After(Head(own[t]), at[t]))
<1>4. Shape(own2, at2, base, rest)'
  BY <1>1, <1>2, <1>3, DoneKeeps DEF All
<1>5. After(Head(own[t]), at[t]) = at[t]
  BY <1>1, <1>3 DEF After
<1>6. \A x \in Threads : at2[x] = at[x] /\ (seen[x] # NULL => own2[x] = own[x])
  BY <1>3, <1>5 DEF Put
<1>7. tasks' \in 0 .. Trips
  BY <1>2 DEF All, Types
<1> HIDE DEF own2, at2
<1>8. /\ Pointers(own2, at2)' /\ Funcs(at2, base)' /\ Counts(own2, at2, base)'
      /\ (Granularity = 1 => Charges(at2, rest)') /\ Types(rest)'
  BY <1>1, <1>3, <1>6, <1>7, OthersKeep
<1> QED BY <1>4, <1>8 DEF All, IInv

LEMMA InsteadStep ==
    ASSUME NEW own, NEW at, NEW base, NEW rest, All(own, at, base, rest),
           NEW t \in Threads, todo[t] # << >>, Head(todo[t]).op \in {"for", "if"},
           NEW code, IsSeq(code), CanRun(program, code \o Tail(own[t]), at[t], base),
           Instead(t, code), UNCHANGED <<tasks, task>>
    PROVE  IInv'
<1>1. /\ todo' = [todo EXCEPT ![t] = code \o Tail(@)]
      /\ UNCHANGED <<chosen, run, counterVars, current_func, active_threads, due, printed, failed>>
      /\ program' = program /\ tasks' = tasks /\ task' = task
  BY DEF Instead, chosen
<1>2. own[t] # << >> /\ (own[Main] # << >> \/ base.par) /\ seen[t] = NULL
  BY StepFacts
<1> DEFINE own2 == Put(own, t, code \o Tail(own[t]))
           at2 == Put(at, t, at[t])
<1>3. Shape(own2, at2, base, rest)'
  BY <1>1, <1>2, InsteadKeeps DEF All
<1>4. \A x \in Threads : at2[x] = at[x] /\ (seen[x] # NULL => own2[x] = own[x])
  BY <1>2 DEF Put
<1>5. tasks' \in 0 .. Trips
  BY <1>1 DEF All, Types
<1> HIDE DEF own2, at2
<1>6. /\ Pointers(own2, at2)' /\ Funcs(at2, base)' /\ Counts(own2, at2, base)'
      /\ (Granularity = 1 => Charges(at2, rest)') /\ Types(rest)'
  BY <1>1, <1>2, <1>4, <1>5, OthersKeep
<1> QED BY <1>3, <1>6 DEF All, IInv

LEMMA ChooseKeeps ==
    ASSUME NEW own, NEW at, NEW base, NEW rest, All(own, at, base, rest), NEW t \in Threads, Choose(t)
    PROVE  IInv'
<1>1. todo[t] # << >> /\ Head(todo[t]).op = "if" /\ UNCHANGED <<tasks, task>>
  BY DEF Choose, Doing
<1>2. PICK code \in {Head(todo[t]).body, Head(todo[t]).other} : Instead(t, code)
  BY DEF Choose
<1>3. PICK h, s : h = Head(todo[t]) /\ s = at[t]
  OBVIOUS
<1>4. /\ Head(own[t]) = h
      /\ CanRun(program, Tail(own[t]), After(h, s), base)
      /\ \A b \in Inner(h) : CanRun(program, b, Inside(h, s), Inside(h, s))
  BY <1>1, <1>3, Busy DEF All
<1>5. After(h, s) = s /\ Inside(h, s) = s /\ code \in Inner(h)
  BY <1>1, <1>2, <1>3 DEF After, Inside, Inner
<1>6. CanRun(program, code, s, s) /\ CanRun(program, Tail(own[t]), s, base)
  BY <1>4, <1>5
<1>7. CanRun(program, code \o Tail(own[t]), s, base) /\ IsSeq(code)
  BY <1>6, RunBoth, RunTypes
<1> QED BY <1>1, <1>2, <1>3, <1>7, InsteadStep

LEMMA SerialLoopKeeps ==
    ASSUME NEW own, NEW at, NEW base, NEW rest, All(own, at, base, rest), NEW t \in Threads, SerialLoop(t)
    PROVE  IInv'
<1>1. PICK h, s : h = Head(todo[t]) /\ s = at[t]
  OBVIOUS
<1>2. /\ todo[t] # << >> /\ h.op = "for" /\ ~h.par /\ UNCHANGED <<tasks, task>>
      /\ Instead(t, IF h.done + 1 < Trips THEN Append(h.body, Again(h)) ELSE h.body)
  BY <1>1 DEF SerialLoop, Doing
<1>3. /\ Head(own[t]) = h /\ s \in Places(program) /\ Allowed(program, h, s)
      /\ CanRun(program, Tail(own[t]), After(h, s), base)
      /\ \A b \in Inner(h) : CanRun(program, b, Inside(h, s), Inside(h, s))
  BY <1>1, <1>2, Busy DEF All
<1>4. After(h, s) = s /\ Inside(h, s) = s /\ Inner(h) = {h.body}
  BY <1>2 DEF After, Inside, Inner
<1>5. PICK d : d = Tail(own[t])
  OBVIOUS
<1>6. CanRun(program, h.body, s, s) /\ CanRun(program, d, s, base) /\ IsSeq(h.body) /\ IsSeq(d)
  BY <1>3, <1>4, <1>5, RunTypes
<1>7. CASE ~(h.done + 1 < Trips)
  <2>1. CanRun(program, h.body \o d, s, base)
    BY <1>6, RunBoth
  <2> QED BY <1>1, <1>2, <1>5, <1>6, <1>7, <2>1, InsteadStep
<1>8. CASE h.done + 1 < Trips
  <2>1. PICK g : g = Again(h)
    OBVIOUS
  <2>2. g.op = "for" /\ g.par = h.par /\ g.body = h.body
    BY <2>1 DEF Again
  <2>3. Allowed(program, g, s) /\ Inside(g, s) = s
    BY <1>2, <1>3, <2>2 DEF Allowed, Inside
  <2>4. CanRun(program, <<g>> \o d, s, base)
    BY <1>3, <1>6, <2>2, <2>3, RunLoop
  <2>5. CanRun(program, h.body \o (<<g>> \o d), s, base)
    BY <1>6, <2>4, RunBoth
  <2>6. IsSeq(<<g>>) /\ Append(h.body, g) = h.body \o <<g>>
    BY <1>6, OneIsSeq, AppendJoins
  <2>7. PICK b, one : b = h.body /\ one = <<g>>
    OBVIOUS
  <2>8. IsSeq(b) /\ IsSeq(one) /\ IsSeq(d)
    BY <1>6, <2>6, <2>7
  <2>9. (b \o one) \o d = b \o (one \o d)
    BY ONLY <2>8, JoiningThree
  <2>10. IsSeq(b \o one)
    BY ONLY <2>8, Joining
  <2>11. PICK code : code = Append(h.body, Again(h))
    OBVIOUS
  <2>12. code = b \o one
    BY <2>1, <2>6, <2>7, <2>11
  <2>13. CanRun(program, code \o d, s, base) /\ IsSeq(code)
    BY <2>5, <2>7, <2>9, <2>10, <2>12
  <2>14. Instead(t, code)
    BY <1>2, <1>8, <2>11
  <2> QED BY <1>1, <1>2, <1>5, <2>13, <2>14, InsteadStep
<1> QED BY <1>7, <1>8
LEMMA MovedFuncs ==
    ASSUME NEW own, NEW at, NEW base, NEW rest, All(own, at, base, rest),
           NEW t \in Threads, todo[t] # << >>,
           Head(todo[t]).op \notin {"join", "pipeline_end"},
           NEW own2, NEW at2, Moved(own, at, t, own2, at2),
           current_func' = IF Head(todo[t]).op = "set_current_func" THEN Head(todo[t]).func ELSE current_func
    PROVE  Funcs(at2, base)'
<1>1. ~base.par => t = Main
  BY StepFacts
<1>2. Main \in Threads
  BY DEF Threads
<1>3. \A x \in Threads : x # t => at2[x] = at[x]
  BY DEF Moved
<1>4. at2[t].func = IF Head(todo[t]).op = "set_current_func" THEN Head(todo[t]).func ELSE at[t].func
  BY DEF Moved
<1>5. CASE Head(todo[t]).op = "set_current_func"
  <2>1. at2[t].func = current_func'
    BY <1>4, <1>5
  <2> QED BY <1>1, <2>1 DEF Funcs
<1>6. CASE Head(todo[t]).op # "set_current_func"
  <2>1. current_func' = current_func /\ \A x \in Threads : at2[x].func = at[x].func
    BY <1>3, <1>4, <1>6
  <2>2. Funcs(at, base)
    BY DEF All
  <2> QED BY <1>2, <2>1, <2>2 DEF Funcs
<1> QED BY <1>5, <1>6

\* A step that makes nobody active or inactive.
LEMMA MovedCounts ==
    ASSUME NEW own, NEW at, NEW base, NEW rest, All(own, at, base, rest),
           NEW t \in Threads, todo[t] # << >>,
           Head(todo[t]).op \notin {"join", "pipeline_end", "incr", "decr"},
           NEW own2, NEW at2, Moved(own, at, t, own2, at2),
           seen' = seen, active_threads' = active_threads, failed' = failed, run' = run
    PROVE  Counts(own2, at2, base)'
<1>1. \A c \in failed : c.run # run
  BY StepFacts
<1>2. \A x \in Threads : at2[x].active = at[x].active
  BY DEF Moved
<1>3. ActiveAt(at2)' = ActiveAt(at)
  BY <1>2 DEF ActiveAt
<1>4. Counts(own, at, base)
  BY DEF All
<1> QED BY <1>1, <1>3, <1>4 DEF Counts

\* What a thread read of the pointer stays so where neither changes.
LEMMA MovedSeen ==
    ASSUME NEW own, NEW at, NEW base, NEW rest, All(own, at, base, rest),
           NEW t \in Threads, todo[t] # << >>,
           Head(todo[t]).op \notin {"join", "pipeline_end"}, seen[t] = NULL,
           NEW own2, NEW at2, Moved(own, at, t, own2, at2)
    PROVE  \A x \in Threads : seen[x] # NULL => /\ seen[x] = last_counters
                                                /\ own2[x] # << >> /\ Head(own2[x]).op = "decr"
<1>1. Pointers(own, at)
  BY DEF All
<1>2. \A x \in Threads : x # t => own2[x] = own[x]
  BY DEF Moved
<1> QED BY <1>1, <1>2 DEF Pointers

LEMMA MovedPointers ==
    ASSUME NEW own, NEW at, NEW base, NEW rest, All(own, at, base, rest),
           NEW t \in Threads, todo[t] # << >>,
           Head(todo[t]).op \notin {"join", "pipeline_end", "enter", "leave"}, seen[t] = NULL,
           NEW own2, NEW at2, Moved(own, at, t, own2, at2),
           seen' = seen, last_counters' = last_counters, stats' = stats, run' = run,
           fault' = fault, failed' = failed
    PROVE  Pointers(own2, at2)'
<1>1. \A x \in Threads : seen[x] # NULL => /\ seen[x] = last_counters
                                           /\ own2[x] # << >> /\ Head(own2[x]).op = "decr"
  BY MovedSeen
<1>2. failed = {} => last_counters = PointerTo(at[Main].open) /\ ~fault
  BY DEF All, Pointers
<1>3. at2[Main].open = at[Main].open
  BY DEF Moved, Threads
<1>4. PointerTo(at2[Main].open)' = PointerTo(at[Main].open)
  BY <1>3 DEF PointerTo, Sampled
<1> QED BY <1>1, <1>2, <1>4 DEF Pointers

\* Who has a call to run is not in one that failed: the charges are exact there.
LEMMA ChargesStep ==
    ASSUME NEW at2, NEW rest, rest # << >>, \A c \in failed : c.run # run,
           failed' = failed, run' = run, program' = program,
           stats' \in [Areas(program) -> AreaStats], due' \in [Areas(program) -> [Threads -> Nat]],
           counted' \in [Threads -> Nat \cup {-1}],
           failed = {} =>
              /\ \A x \in Threads : Counting(at2[x], counted'[x])
              /\ \A a \in Areas(program) : \A x \in Threads : Charged(a, x, at2[x], at2[Main].open)'
    PROVE  Charges(at2, rest)'
<1>1. NoArea \notin Areas(program)
  BY NoAreaIsNone
<1>2. ASSUME NEW a \in Areas(program'), NEW x \in Threads, \A c \in failed' : c.run = run'
      PROVE  stats'[a].counters[x] <= due'[a][x]
  <2>1. failed = {}
    BY <1>2
  <2>2. Charged(a, x, at2[x], at2[Main].open)' /\ Counting(at2[x], counted'[x])
    BY <2>1
  <2>3. stats'[a].counters[x] \in Nat /\ due'[a][x] \in Nat /\ counted'[x] \in Nat \cup {-1}
    BY DEF AreaStats
  <2>4. a # NoArea
    BY <1>1
  <2>5. Pending(at2[x], a, counted'[x]) \in Nat
    BY <2>2, <2>3, <2>4 DEF Pending, Counting
  <2> QED BY <2>2, <2>3, <2>5 DEF Charged
<1> QED BY <1>2 DEF Charges

\* A step that leaves the area open that was open.
LEMMA StaysCharged ==
    ASSUME NEW own, NEW at, NEW base, NEW rest, All(own, at, base, rest),
           NEW t \in Threads, todo[t] # << >>,
           Head(todo[t]).op \notin {"join", "pipeline_end", "enter", "leave"},
           NEW own2, NEW at2, Moved(own, at, t, own2, at2),
           Granularity = 1, failed = {}, stats' = stats, due' = due,
           NEW x \in Threads, x # t, counted'[x] = counted[x]
    PROVE  /\ Counting(at2[x], counted'[x])
           /\ \A a \in Areas(program) : Charged(a, x, at2[x], at2[Main].open)'
<1>1. at2[x] = at[x] /\ at2[Main].open = at[Main].open
  BY DEF Moved, Threads
<1>2. rest # << >>
  BY StepFacts
<1>3. /\ Counting(at[x], counted[x])
      /\ \A a \in Areas(program) : Charged(a, x, at[x], at[Main].open)
  BY <1>2 DEF All, Charges
<1> QED BY <1>1, <1>3 DEF Charged

\* The charges do not depend on anything else.
LEMMA SameCharges ==
    ASSUME NEW at, NEW at2, NEW rest, Charges(at, rest),
           \A x \in Threads : at2[x].open = at[x].open /\ at2[x].active = at[x].active,
           program' = program, run' = run, stats' = stats, counted' = counted, due' = due,
           printed' = printed, failed' = failed
    PROVE  Charges(at2, rest)'
<1>1. Main \in Threads
  BY DEF Threads
<1>2. ASSUME NEW x \in Threads PROVE Counting(at2[x], counted[x]) <=> Counting(at[x], counted[x])
  BY DEF Counting
<1>3. ASSUME NEW x \in Threads, NEW a
      PROVE  Charged(a, x, at2[x], at2[Main].open)' <=> Charged(a, x, at[x], at[Main].open)
  BY <1>1 DEF Charged, Pending
<1>4. \A a, x : Exact(a, x)' <=> Exact(a, x)
  BY DEF Exact
<1> QED BY <1>2, <1>3, <1>4 DEF Charges

LEMMA SetCurrentKeeps ==
    ASSUME NEW own, NEW at, NEW base, NEW rest, All(own, at, base, rest), NEW t \in Threads, SetCurrentFunc(t)
    PROVE  IInv'
<1>1. /\ todo[t] # << >> /\ Head(todo[t]).op = "set_current_func"
      /\ Done(t) /\ current_func' = Head(todo[t]).func
      /\ program' = program /\ run' = run /\ last_counters' = last_counters /\ stats' = stats
      /\ seen' = seen /\ counted' = counted /\ fault' = fault /\ tasks' = tasks
      /\ active_threads' = active_threads /\ due' = due /\ printed' = printed /\ failed' = failed
  BY DEF SetCurrentFunc, Doing, chosen, counterVars, Done
<1>2. PICK own2, at2 : Shape(own2, at2, base, rest)' /\ Moved(own, at, t, own2, at2)
  BY <1>1, StepMoves
<1>3. /\ own[Main] # << >> \/ base.par
      /\ ~base.par => t = Main
      /\ seen[t] = NULL /\ Allowed(program, Head(todo[t]), at[t])
      /\ at[t] \in Places(program)
  BY <1>1, StepFacts
<1>4. Main \in Threads
  BY DEF Threads
<1>5. \A x \in Threads : at2[x].open = at[x].open /\ at2[x].active = at[x].active
  BY <1>1, <1>2 DEF Moved
<1>6. Pointers(own2, at2)'
  BY <1>1, <1>2, <1>3, MovedPointers
<1>7. Funcs(at2, base)'
  BY <1>1, <1>2, MovedFuncs
<1>8. Counts(own2, at2, base)'
  BY <1>1, <1>2, MovedCounts
<1>9. Granularity = 1 => Charges(at2, rest)'
  BY <1>1, <1>5, SameCharges DEF All
<1>10. Types(rest)'
  BY <1>1, <1>3 DEF All, Types, PointerType, Allowed
<1> QED BY <1>2, <1>6, <1>7, <1>8, <1>9, <1>10 DEF All, IInv
LEMMA IncrKeeps ==
    ASSUME NEW own, NEW at, NEW base, NEW rest, All(own, at, base, rest), NEW t \in Threads, IncrActive(t)
    PROVE  IInv'
<1>1. /\ todo[t] # << >> /\ Head(todo[t]).op = "incr"
      /\ Done(t) /\ active_threads' = active_threads + 1 /\ counted' = [counted EXCEPT ![t] = 0]
      /\ program' = program /\ run' = run /\ last_counters' = last_counters /\ stats' = stats
      /\ seen' = seen /\ fault' = fault /\ tasks' = tasks
      /\ current_func' = current_func /\ due' = due /\ printed' = printed /\ failed' = failed
  BY DEF IncrActive, Doing, chosen, Done
<1>2. PICK own2, at2 : Shape(own2, at2, base, rest)' /\ Moved(own, at, t, own2, at2)
  BY <1>1, StepMoves
<1>3. /\ seen[t] = NULL /\ Allowed(program, Head(todo[t]), at[t]) /\ rest # << >>
      /\ \A c \in failed : c.run # run
      /\ stats \in [Areas(program) -> AreaStats] /\ due \in [Areas(program) -> [Threads -> Nat]]
  BY <1>1, StepFacts
<1>4. at2[t].open = at[t].open /\ at2[t].active = TRUE /\ at[t].active = FALSE
  BY <1>1, <1>2, <1>3 DEF Moved, Allowed
<1>5. Pointers(own2, at2)'
  BY <1>1, <1>2, <1>3, MovedPointers
<1>6. Funcs(at2, base)'
  BY <1>1, <1>2, MovedFuncs
<1>7. counted \in [Threads -> Nat \cup {-1}] /\ active_threads \in Nat /\ IsFiniteSet(failed)
  BY DEF All, Types
<1>8. Counts(own2, at2, base)'
  <2>1. \A x \in Threads : x # t => at2[x] = at[x]
    BY <1>2 DEF Moved
  <2>2. ActiveAt(at2)' = ActiveAt(at) \cup {t} /\ t \notin ActiveAt(at)
    BY <1>1, <1>3, <1>4, <2>1 DEF ActiveAt
  <2>3. Cardinality(ActiveAt(at2)') = Cardinality(ActiveAt(at)) + 1
    BY <2>2, ActiveFinite, FS_AddElement
  <2>4. Cardinality(ActiveAt(at)) \in Nat /\ Cardinality({c \in failed : c.active}) \in Nat
    BY <1>7, ActiveFinite, FailedFinite, FS_CardinalityType
  <2>5. active_threads = Cardinality(ActiveAt(at)) + Cardinality({c \in failed : c.active})
    BY DEF All, Counts
  <2>6. active_threads' = Cardinality(ActiveAt(at2)') + Cardinality({c \in failed : c.active})
    BY <1>1, <2>3, <2>4, <2>5
  <2> QED BY <1>1, <1>3, <2>6 DEF Counts
<1>9. ASSUME Granularity = 1 PROVE Charges(at2, rest)'
  <2>1. ASSUME failed = {} PROVE /\ \A x \in Threads : Counting(at2[x], counted'[x])
                                 /\ \A a \in Areas(program) : \A x \in Threads : Charged(a, x, at2[x], at2[Main].open)'
    <3>1. ASSUME NEW x \in Threads, x # t
          PROVE  Counting(at2[x], counted'[x]) /\ \A a \in Areas(program) : Charged(a, x, at2[x], at2[Main].open)'
      BY <1>1, <1>2, <1>7, <1>9, <2>1, <3>1, StaysCharged
    <3>2. Counting(at2[t], counted'[t])
      BY <1>1, <1>7 DEF Counting
    <3>3. ASSUME NEW a \in Areas(program) PROVE Charged(a, t, at2[t], at2[Main].open)'
      <4>1. Charged(a, t, at[t], at[Main].open)
        BY <1>3, <1>9, <2>1 DEF All, Charges
      <4>2. at2[Main].open = at[Main].open
        BY <1>2, <1>4 DEF Moved, Threads
      <4>3. Pending(at[t], a, counted[t]) = 0 /\ Pending(at2[t], a, counted'[t]) = 0
        BY <1>1, <1>4, <1>7 DEF Pending
      <4> QED BY <1>1, <4>1, <4>2, <4>3 DEF Charged
    <3> QED BY <3>1, <3>2, <3>3
  <2>2. counted' \in [Threads -> Nat \cup {-1}]
    BY <1>1, <1>7
  <2> QED BY <1>1, <1>3, <2>1, <2>2, ChargesStep
<1>10. Types(rest)'
  BY <1>1, <1>3, <1>7 DEF All, Types, PointerType
<1> QED BY <1>2, <1>5, <1>6, <1>8, <1>9, <1>10 DEF All, IInv
\* Regions begin and end where the caller works alone: nobody is about to use
\* the pointer.
LEMMA AtRegion ==
    ASSUME NEW own, NEW at, NEW base, NEW rest, All(own, at, base, rest),
           NEW t \in Threads, todo[t] # << >>, Head(todo[t]).op \in {"enter", "leave"}
    PROVE  /\ t = Main /\ Area(t) \in Areas(program) /\ Area(t) # NoArea
           /\ at[t].open = IF Head(todo[t]).op = "enter" THEN NoArea ELSE Area(t)
           /\ \A x \in Threads : seen[x] = NULL
           /\ stats[Area(t)].iterations \in Nat
<1>1. /\ Allowed(program, Head(todo[t]), at[t]) /\ at[t].par = base.par
      /\ (~base.par => t = Main) /\ seen[t] = NULL /\ own[t] # << >>
      /\ rest # << >> /\ stats \in [Areas(program) -> AreaStats]
  BY StepFacts
<1>2. /\ Area(t) \in Areas(program) /\ ~at[t].par
      /\ at[t].open = IF Head(todo[t]).op = "enter" THEN NoArea ELSE Area(t)
  BY <1>1 DEF Allowed, Area
<1>3. t = Main /\ ~base.par
  BY <1>1, <1>2
<1>4. Alone(own, base)
  BY <1>1, <1>2 DEF All, Shape, Forked
<1>5. ASSUME NEW x \in Threads PROVE seen[x] = NULL
  <2>1. CASE x = Main
    BY <1>1, <1>3, <2>1
  <2>2. CASE x # Main
    BY <1>4, <2>2 DEF Alone, Threads, All, Pointers
  <2> QED BY <2>1, <2>2
<1>6. Area(t) # NoArea
  BY <1>2, NoAreaIsNone
<1>7. stats[Area(t)].iterations \in Nat
  <2>1. stats[Area(t)] \in AreaStats
    BY <1>1, <1>2
  <2> QED BY <2>1 DEF AreaStats
<1> QED BY <1>1, <1>2, <1>3, <1>5, <1>6, <1>7

LEMMA EnterKeeps ==
    ASSUME NEW own, NEW at, NEW base, NEW rest, All(own, at, base, rest), NEW t \in Threads, EnterRegion(t)
    PROVE  IInv'
<1>1. /\ todo[t] # << >> /\ Head(todo[t]).op = "enter"
      /\ Done(t) /\ active_threads' = active_threads
      /\ program' = program /\ run' = run /\ stats' = stats
      /\ seen' = seen /\ fault' = fault /\ tasks' = tasks
      /\ current_func' = current_func /\ due' = due /\ printed' = printed /\ failed' = failed
      /\ IF Sampled(Area(t))
         THEN /\ last_counters' = [area |-> Area(t), run |-> run]
              /\ counted' = [counted EXCEPT ![t] = 0]
         ELSE last_counters' = last_counters /\ counted' = counted
  BY DEF EnterRegion, Doing, chosen, Done
<1>2. PICK own2, at2 : Shape(own2, at2, base, rest)' /\ Moved(own, at, t, own2, at2)
  BY <1>1, StepMoves
<1>3. /\ rest # << >> /\ \A c \in failed : c.run # run
      /\ stats \in [Areas(program) -> AreaStats] /\ due \in [Areas(program) -> [Threads -> Nat]]
      /\ run \in 1 .. MaxRuns
  BY <1>1, StepFacts
<1>4. /\ t = Main /\ Area(t) \in Areas(program) /\ Area(t) # NoArea /\ at[t].open = NoArea
      /\ \A x \in Threads : seen[x] = NULL
      /\ stats[Area(t)].iterations \in Nat
  BY <1>1, AtRegion
<1>5. at2[t].open = Area(t) /\ at2[t].active = at[t].active /\ \A x \in Threads : x # t => at2[x] = at[x]
  BY <1>1, <1>2 DEF Moved, Area
<1>6. Pointers(own2, at2)'
  <2>1. failed = {} => last_counters = PointerTo(NoArea) /\ ~fault
    BY <1>4 DEF All, Pointers
  <2>2. PICK a : a = Area(t)
    OBVIOUS
  <2>3. failed = {} => last_counters' = PointerTo(a)
    BY <1>1, <1>4, <2>1, <2>2 DEF PointerTo
  <2>4. PointerTo(a)' = PointerTo(a)
    BY <1>1 DEF PointerTo, Sampled
  <2>5. at2[Main].open = a
    BY <1>4, <1>5, <2>2
  <2> QED BY <1>1, <1>4, <2>1, <2>3, <2>4, <2>5 DEF Pointers
<1>7. Funcs(at2, base)'
  BY <1>1, <1>2, MovedFuncs
<1>8. Counts(own2, at2, base)'
  BY <1>1, <1>2, MovedCounts
<1>9. counted \in [Threads -> Nat \cup {-1}] /\ last_counters \in PointerType
  BY DEF All, Types
<1>10. counted' \in [Threads -> Nat \cup {-1}]
  BY <1>1, <1>9
<1>11. ASSUME Granularity = 1 PROVE Charges(at2, rest)'
  <2>1. counted' = [counted EXCEPT ![t] = 0]
    BY <1>1, <1>4, <1>11 DEF Sampled
  <2>2. ASSUME failed = {}, NEW x \in Threads
        PROVE  /\ Counting(at2[x], counted'[x])
               /\ \A a \in Areas(program) : Charged(a, x, at2[x], at2[Main].open)'
    <3>1. Counting(at[x], counted[x]) /\ \A a \in Areas(program) : Charged(a, x, at[x], at[Main].open)
      BY <1>3, <1>11, <2>2 DEF All, Charges
    <3>2. Counting(at2[x], counted'[x])
      BY <1>5, <1>9, <2>1, <3>1 DEF Counting
    <3>3. ASSUME NEW a \in Areas(program) PROVE Charged(a, x, at2[x], at2[Main].open)'
      <4>1. a # NoArea
        BY NoAreaIsNone
      <4>2. Pending(at2[x], a, counted'[x]) = Pending(at[x], a, counted[x])
        BY <1>4, <1>5, <1>9, <2>1, <4>1 DEF Pending
      <4> QED BY <1>1, <1>4, <1>5, <3>1, <4>1, <4>2 DEF Charged
    <3> QED BY <3>2, <3>3
  <2> QED BY <1>1, <1>3, <1>10, <2>2, ChargesStep
<1>12. Types(rest)'
  <2>1. last_counters' \in PointerType
    BY <1>1, <1>3, <1>4, <1>9 DEF PointerType
  <2> QED BY <1>1, <1>3, <1>10, <2>1 DEF All, Types, PointerType
<1> QED BY <1>2, <1>6, <1>7, <1>8, <1>11, <1>12 DEF All, IInv

LEMMA WorkKeeps ==
    ASSUME NEW own, NEW at, NEW base, NEW rest, All(own, at, base, rest), NEW t \in Threads, DoWork(t)
    PROVE  IInv'
<1> DEFINE here == AreaAsked(program, Head(todo[t]))
<1>1. /\ todo[t] # << >> /\ Head(todo[t]).op = "work"
      /\ Done(t) /\ active_threads' = active_threads
      /\ program' = program /\ run' = run /\ last_counters' = last_counters /\ stats' = stats
      /\ seen' = seen /\ fault' = fault /\ tasks' = tasks
      /\ current_func' = current_func /\ printed' = printed /\ failed' = failed
      /\ due' = IF here = NoArea THEN due ELSE [due EXCEPT ![here][t] = @ + 1]
      /\ counted' = [counted EXCEPT ![t] = IF @ < 0 THEN @ ELSE @ + 1]
  BY DEF DoWork, Doing, chosen, Done
<1>2. PICK own2, at2 : Shape(own2, at2, base, rest)' /\ Moved(own, at, t, own2, at2)
  BY <1>1, StepMoves
<1>3. /\ rest # << >> /\ \A c \in failed : c.run # run /\ seen[t] = NULL
      /\ stats \in [Areas(program) -> AreaStats] /\ due \in [Areas(program) -> [Threads -> Nat]]
      /\ Allowed(program, Head(todo[t]), at[t]) /\ at[t] \in Places(program)
  BY <1>1, StepFacts
<1>4. at[t].active /\ at[t].open = here /\ here \in Areas(program) \cup {NoArea}
  BY <1>1, <1>3 DEF Allowed, Places
<1> HIDE DEF here
<1>5. /\ at2[t].open = here /\ at2[t].active = at[t].active /\ \A x \in Threads : x # t => at2[x] = at[x]
      /\ at2[Main].open = at[Main].open
  BY <1>1, <1>2, <1>4 DEF Moved, Threads
<1>6. seen[t] = NULL
  BY <1>1, StepFacts
<1>7. Pointers(own2, at2)' /\ Funcs(at2, base)' /\ Counts(own2, at2, base)'
  BY <1>1, <1>2, <1>6, MovedPointers, MovedFuncs, MovedCounts
<1>8. counted \in [Threads -> Nat \cup {-1}]
  BY DEF All, Types
<1>9. counted' \in [Threads -> Nat \cup {-1}]
  BY <1>1, <1>8
<1>10. due' \in [Areas(program) -> [Threads -> Nat]]
  BY <1>1, <1>3, <1>4
<1>11. ASSUME Granularity = 1 PROVE Charges(at2, rest)'
  <2>1. ASSUME failed = {}, NEW x \in Threads
        PROVE  /\ Counting(at2[x], counted'[x])
               /\ \A a \in Areas(program) : Charged(a, x, at2[x], at2[Main].open)'
    <3>1. Counting(at[x], counted[x]) /\ \A a \in Areas(program) : Charged(a, x, at[x], at[Main].open)
      BY <1>3, <1>11, <2>1 DEF All, Charges
    <3>2. Counting(at2[x], counted'[x])
      <4>1. CASE x # t
        BY <1>1, <1>5, <1>8, <3>1, <4>1
      <4>2. CASE x = t
        <5>1. counted'[t] = (IF counted[t] < 0 THEN counted[t] ELSE counted[t] + 1) /\ counted[t] \in Nat \cup {-1}
          BY <1>1, <1>8
        <5>2. here # NoArea => counted[t] >= 0
          BY <1>4, <3>1, <4>2 DEF Counting
        <5>3. here # NoArea => counted'[t] >= 0
          BY <5>1, <5>2
        <5>4. at2[x].active /\ at2[x].open = here
          BY <1>4, <1>5, <4>2
        <5> QED BY <4>2, <5>3, <5>4 DEF Counting
      <4> QED BY <4>1, <4>2
    <3>3. ASSUME NEW a \in Areas(program) PROVE Charged(a, x, at2[x], at2[Main].open)'
      <4>1. a # NoArea
        BY NoAreaIsNone
      <4>2. CASE x = t /\ a = here
        <5>1. Pending(at[x], a, counted[x]) = counted[x] /\ Pending(at2[x], a, counted'[x]) = counted'[x]
          BY <1>4, <1>5, <4>2 DEF Pending
        <5>2. counted[x] >= 0
          BY <1>4, <3>1, <4>1, <4>2 DEF Counting
        <5>3. counted'[x] = counted[x] + 1 /\ counted[x] \in Nat
          BY <1>1, <1>8, <4>2, <5>2
        <5>4. due'[a][x] = due[a][x] + 1 /\ due[a][x] \in Nat
          BY <1>1, <1>3, <4>1, <4>2
        <5>5. stats[a].counters[x] \in Nat
          BY <1>3 DEF AreaStats
        <5> QED BY <1>1, <1>5, <3>1, <5>1, <5>3, <5>4, <5>5 DEF Charged
      <4>3. CASE ~(x = t /\ a = here)
        <5>1. Pending(at2[x], a, counted'[x]) = Pending(at[x], a, counted[x])
          BY <1>1, <1>4, <1>5, <1>8, <4>3 DEF Pending
        <5>2. due'[a][x] = due[a][x]
          BY <1>1, <1>3, <1>4, <4>3
        <5> QED BY <1>1, <1>5, <3>1, <5>1, <5>2 DEF Charged
      <4> QED BY <4>2, <4>3
    <3> QED BY <3>2, <3>3
  <2> QED BY <1>1, <1>3, <1>9, <1>10, <2>1, ChargesStep
<1>12. Types(rest)'
  BY <1>1, <1>3, <1>9, <1>10 DEF All, Types, PointerType
<1> QED BY <1>2, <1>7, <1>11, <1>12 DEF All, IInv
\* What marker_stop and the end of an iteration change of the areas.
LEMMA Stopped ==
    ASSUME stats \in [Areas(program) -> AreaStats], counted \in [Threads -> Nat \cup {-1}],
           NEW a \in Areas(program), NEW t \in Threads
    PROVE  /\ StoppedInto(a, t) \in [Areas(program) -> AreaStats]
           /\ \A b \in Areas(program) : b # a => StoppedInto(a, t)[b] = stats[b]
           /\ StoppedInto(a, t)[a].iterations = stats[a].iterations
           /\ StoppedInto(a, t)[a].used = stats[a].used \cup {t}
           /\ \A x \in Threads : StoppedInto(a, t)[a].counters[x] =
                 stats[a].counters[x] + (IF x = t /\ counted[t] >= 0 THEN counted[t] ELSE 0)
<1>1. PICK n : n = IF counted[t] < 0 THEN 0 ELSE counted[t]
  OBVIOUS
<1>2. n \in Nat /\ n = IF counted[t] >= 0 THEN counted[t] ELSE 0
  BY <1>1
<1>3. /\ stats[a].counters \in [Threads -> Nat] /\ stats[a].used \subseteq Threads /\ stats[a].iterations \in Nat
      /\ stats[a] \in AreaStats
  BY DEF AreaStats
<1>4. PICK s : s = [stats[a] EXCEPT !.counters[t] = @ + n, !.used = @ \cup {t}]
  OBVIOUS
<1>5. StoppedInto(a, t) = [stats EXCEPT ![a] = s]
  BY <1>1, <1>4 DEF StoppedInto
<1>6. /\ s.iterations = stats[a].iterations /\ s.used = stats[a].used \cup {t}
      /\ s.counters = [stats[a].counters EXCEPT ![t] = @ + n]
  BY <1>3, <1>4 DEF AreaStats
<1>7. s \in AreaStats
  <2>1. s.counters \in [Threads -> Nat] /\ s.used \in SUBSET Threads /\ s.iterations \in Nat
    BY <1>2, <1>3, <1>6
  <2>2. s = [stats[a] EXCEPT !.counters = s.counters, !.used = s.used]
    BY <1>3, <1>4 DEF AreaStats
  <2> QED BY <1>3, <2>1, <2>2 DEF AreaStats
<1>8. \A x \in Threads : s.counters[x] = stats[a].counters[x] + (IF x = t THEN n ELSE 0)
  BY <1>2, <1>3, <1>6
<1> QED BY <1>2, <1>5, <1>6, <1>7, <1>8

LEMMA OneIteration ==
    ASSUME NEW A, NEW f \in [A -> AreaStats], NEW a \in A,
           NEW g, g = [f EXCEPT ![a].iterations = @ + 1]
    PROVE  /\ g \in [A -> AreaStats]
           /\ \A b \in A : /\ b # a => g[b] = f[b]
                           /\ g[b].counters = f[b].counters /\ g[b].used = f[b].used
           /\ g[a].iterations # 0
<1>1. f[a] \in AreaStats /\ f[a].iterations \in Nat
  BY DEF AreaStats
<1>2. PICK s : s = [f[a] EXCEPT !.iterations = @ + 1]
  OBVIOUS
<1>3. s \in AreaStats /\ s.counters = f[a].counters /\ s.used = f[a].used /\ s.iterations = f[a].iterations + 1
  BY <1>1, <1>2 DEF AreaStats
<1>4. g = [f EXCEPT ![a] = s]
  BY <1>2
<1> QED BY <1>1, <1>3, <1>4

LEMMA LeaveKeeps ==
    ASSUME NEW own, NEW at, NEW base, NEW rest, All(own, at, base, rest), NEW t \in Threads, LeaveRegion(t)
    PROVE  IInv'
<1>1. PICK a : a = Area(t)
  OBVIOUS
<1>2. /\ todo[t] # << >> /\ Head(todo[t]).op = "leave"
      /\ Done(t) /\ active_threads' = active_threads
      /\ program' = program /\ run' = run /\ seen' = seen /\ tasks' = tasks
      /\ current_func' = current_func /\ due' = due /\ printed' = printed /\ failed' = failed
  BY DEF LeaveRegion, Doing, chosen, Done
<1>3. \/ /\ ~Sampled(a) /\ stats' = [stats EXCEPT ![a].iterations = @ + 1]
         /\ last_counters' = last_counters /\ counted' = counted /\ fault' = fault
      \/ /\ Sampled(a) /\ last_counters = NULL /\ stats' = stats
         /\ last_counters' = last_counters /\ counted' = counted
      \/ /\ Sampled(a) /\ (variant = "alt" => last_counters # NULL)
         /\ stats' = [StoppedInto(AreaLeft(a), t) EXCEPT ![a].iterations = @ + 1]
         /\ last_counters' = NULL /\ counted' = [counted EXCEPT ![t] = -1] /\ fault' = fault
  BY <1>1 DEF LeaveRegion
<1>4. PICK own2, at2 : Shape(own2, at2, base, rest)' /\ Moved(own, at, t, own2, at2)
  BY <1>2, StepMoves
<1>5. /\ rest # << >> /\ \A c \in failed : c.run # run
      /\ stats \in [Areas(program) -> AreaStats] /\ due \in [Areas(program) -> [Threads -> Nat]]
  BY <1>2, StepFacts
<1>6. /\ t = Main /\ a \in Areas(program) /\ a # NoArea /\ at[t].open = a
      /\ \A x \in Threads : seen[x] = NULL
      /\ stats[a].iterations \in Nat
  BY <1>1, <1>2, AtRegion
<1>7. at2[t].open = NoArea /\ at2[t].active = at[t].active /\ \A x \in Threads : x # t => at2[x] = at[x]
  BY <1>2, <1>4 DEF Moved
<1>8. /\ counted \in [Threads -> Nat \cup {-1}] /\ last_counters \in PointerType
      /\ failed = {} => last_counters = PointerTo(a) /\ ~fault
  BY <1>6 DEF All, Types, Pointers
<1>9. PointerTo(a) = IF Sampled(a) THEN [area |-> a, run |-> run] ELSE NULL
  BY <1>6 DEF PointerTo
<1>10. NULL # [area |-> a, run |-> run]
  BY <1>6 DEF NULL
<1>11. Pointers(own2, at2)'
  <2>1. PointerTo(NoArea)' = NULL
    BY DEF PointerTo, NULL
  <2>2. failed = {} => last_counters' = NULL /\ ~fault'
    BY <1>3, <1>8, <1>9, <1>10
  <2> QED BY <1>2, <1>6, <1>7, <2>1, <2>2 DEF Pointers
<1>12. Funcs(at2, base)' /\ Counts(own2, at2, base)'
  BY <1>2, <1>4, MovedFuncs, MovedCounts
<1>13. AreaLeft(a) \in Areas(program) \/ last_counters = NULL
  BY <1>6, <1>8 DEF AreaLeft, PointerType
<1>14. counted' \in [Threads -> Nat \cup {-1}] /\ last_counters' \in PointerType
  BY <1>3, <1>8 DEF PointerType
<1>15. stats' \in [Areas(program) -> AreaStats]
  <2>1. ASSUME NEW b \in Areas(program), stats' = [StoppedInto(b, t) EXCEPT ![a].iterations = @ + 1]
        PROVE  stats' \in [Areas(program) -> AreaStats]
    <3>1. PICK f : f = StoppedInto(b, t)
      OBVIOUS
    <3>2. f \in [Areas(program) -> AreaStats]
      BY <1>5, <1>6, <1>8, <2>1, <3>1, Stopped
    <3>3. stats' = [f EXCEPT ![a].iterations = @ + 1]
      BY <2>1, <3>1
    <3> QED BY <1>6, <3>2, <3>3, OneIteration
  <2>2. ASSUME stats' = [stats EXCEPT ![a].iterations = @ + 1] PROVE stats' \in [Areas(program) -> AreaStats]
    BY <1>5, <1>6, <2>2, OneIteration
  <2>3. last_counters = NULL /\ variant # "alt" => AreaLeft(a) = a
    BY DEF AreaLeft
  <2> QED BY <1>3, <1>5, <1>6, <1>13, <2>1, <2>2, <2>3
<1>16. ASSUME Granularity = 1 PROVE Charges(at2, rest)'
  <2>1. Sampled(a)
    BY <1>6, <1>16 DEF Sampled
  <2>2. ASSUME failed = {}, NEW x \in Threads
        PROVE  /\ Counting(at2[x], counted'[x])
               /\ \A b \in Areas(program) : Charged(b, x, at2[x], at2[Main].open)'
    <3>1. Counting(at[x], counted[x]) /\ \A b \in Areas(program) : Charged(b, x, at[x], at[Main].open)
      BY <1>5, <1>16, <2>2 DEF All, Charges
    <3>2. last_counters = [area |-> a, run |-> run]
      BY <1>8, <1>9, <2>1, <2>2
    <3>3. AreaLeft(a) = a /\ last_counters # NULL
      BY <1>10, <3>2 DEF AreaLeft
    <3>4. /\ stats' = [StoppedInto(a, t) EXCEPT ![a].iterations = @ + 1]
          /\ counted' = [counted EXCEPT ![t] = -1]
      BY <1>3, <2>1, <3>3
    <3>5. /\ \A b \in Areas(program) : b # a => stats'[b] = stats[b]
          /\ stats'[a].iterations # 0 /\ stats'[a].used = stats[a].used \cup {t}
          /\ stats'[a].counters[x] = stats[a].counters[x] + (IF x = t /\ counted[t] >= 0 THEN counted[t] ELSE 0)
      BY <1>5, <1>6, <1>8, <3>4, Stopped, OneIteration
    <3>6. Counting(at2[x], counted'[x])
      BY <1>7, <1>8, <3>1, <3>4 DEF Counting
    <3>7. ASSUME NEW b \in Areas(program), b # a PROVE Charged(b, x, at2[x], at2[Main].open)'
      <4>1. b # NoArea
        BY NoAreaIsNone
      <4>2. Pending(at2[x], b, counted'[x]) = Pending(at[x], b, counted[x])
        BY <1>6, <1>7, <1>8, <3>4, <3>7, <4>1 DEF Pending
      <4> QED BY <1>2, <1>6, <1>7, <3>1, <3>5, <3>7, <4>1, <4>2 DEF Charged
    <3>8. Charged(a, x, at2[x], at2[Main].open)'
      <4>1. Charged(a, x, at[x], at[Main].open)
        BY <1>6, <3>1
      <4>2. stats[a].counters[x] \in Nat /\ counted[x] \in Nat \cup {-1}
        BY <1>5, <1>6, <1>8 DEF AreaStats
      <4>3. CASE x = t
        <5>1. Pending(at2[x], a, counted'[x]) = 0
          BY <1>6, <1>7, <4>3 DEF Pending
        <5>2. Pending(at[x], a, counted[x]) = IF counted[x] >= 0 THEN counted[x] ELSE 0
          BY <1>6, <3>1, <4>2, <4>3 DEF Pending, Counting
        <5> QED BY <1>2, <3>5, <4>1, <4>2, <4>3, <5>1, <5>2 DEF Charged
      <4>4. CASE x # t
        <5>1. Pending(at2[x], a, counted'[x]) = Pending(at[x], a, counted[x])
          BY <1>7, <1>8, <3>4, <4>4
        <5>2. stats'[a].counters[x] = stats[a].counters[x]
          BY <3>5, <4>2, <4>4
        <5> QED BY <1>2, <3>5, <4>1, <4>4, <5>1, <5>2 DEF Charged
      <4> QED BY <4>3, <4>4
    <3> QED BY <3>6, <3>7, <3>8
  <2> QED BY <1>2, <1>5, <1>14, <1>15, <2>2, ChargesStep
<1>17. Types(rest)'
  BY <1>2, <1>5, <1>14, <1>15 DEF All, Types, PointerType
<1> QED BY <1>4, <1>11, <1>12, <1>16, <1>17 DEF All, IInv
LEMMA OneLess ==
    ASSUME NEW own, NEW at, NEW base, NEW rest, All(own, at, base, rest), NEW t \in ActiveAt(at)
    PROVE  /\ active_threads - 1 \in Nat
           /\ active_threads - 1 = Cardinality(ActiveAt(at) \ {t}) + Cardinality({c \in failed : c.active})
<1>1. active_threads = Cardinality(ActiveAt(at)) + Cardinality({c \in failed : c.active})
  BY DEF All, Counts
<1>2. IsFiniteSet(failed)
  BY DEF All, Types
<1>3. Cardinality({c \in failed : c.active}) \in Nat
  BY <1>2, FailedFinite
<1>4. /\ Cardinality(ActiveAt(at) \ {t}) = Cardinality(ActiveAt(at)) - 1
      /\ Cardinality(ActiveAt(at) \ {t}) \in Nat /\ Cardinality(ActiveAt(at)) \in Nat
  BY ActiveFinite, FS_RemoveElement, FS_CardinalityType
<1> QED BY <1>1, <1>3, <1>4

\* Every thread is in the region the caller is in.
LEMMA SameOpen ==
    ASSUME NEW own, NEW at, NEW base, NEW rest, All(own, at, base, rest),
           NEW t \in Threads, todo[t] # << >>, Head(todo[t]).op \notin {"join", "pipeline_end"}
    PROVE  at[t].open = at[Main].open /\ at[Main].open \in Areas(program) \cup {NoArea}
<1>1. ~base.par => t = Main
  BY StepFacts
<1>2. Main \in Threads
  BY DEF Threads
<1>3. at[Main] \in Places(program)
  BY <1>2, RunTypes DEF All, Shape
<1>4. base.par => at[t].open = base.open /\ at[Main].open = base.open
  BY <1>2 DEF All, Shape
<1> QED BY <1>1, <1>3, <1>4 DEF Places

LEMMA DecrKeeps ==
    ASSUME NEW own, NEW at, NEW base, NEW rest, All(own, at, base, rest), NEW t \in Threads, DecrActive(t)
    PROVE  IInv'
<1>1. /\ todo[t] # << >> /\ Head(todo[t]).op = "decr" /\ seen[t] = NULL
      /\ active_threads' = active_threads - 1
      /\ program' = program /\ run' = run /\ last_counters' = last_counters /\ stats' = stats
      /\ fault' = fault /\ current_func' = current_func
      /\ due' = due /\ printed' = printed /\ failed' = failed
  BY DEF DecrActive, Doing, chosen
<1>2. /\ rest # << >> /\ \A c \in failed : c.run # run
      /\ stats \in [Areas(program) -> AreaStats] /\ due \in [Areas(program) -> [Threads -> Nat]]
      /\ Allowed(program, Head(todo[t]), at[t])
      /\ own[t] # << >> /\ Head(own[t]) = Head(todo[t])
  BY <1>1, StepFacts
<1>3. at[t].active /\ t \in ActiveAt(at)
  BY <1>1, <1>2 DEF Allowed, ActiveAt
<1>4. /\ active_threads' \in Nat
      /\ active_threads' = Cardinality(ActiveAt(at) \ {t}) + Cardinality({c \in failed : c.active})
  BY <1>1, <1>3, OneLess
<1>5. counted \in [Threads -> Nat \cup {-1}] /\ last_counters \in PointerType /\ seen \in [Threads -> PointerType]
  BY DEF All, Types
<1>6. CASE last_counters = NULL
  <2>1. counted' = [counted EXCEPT ![t] = -1] /\ Done(t) /\ seen' = seen /\ tasks' = tasks
    BY <1>6 DEF DecrActive, Done
  <2>2. PICK own2, at2 : Shape(own2, at2, base, rest)' /\ Moved(own, at, t, own2, at2)
    BY <1>1, <2>1, StepMoves DEF Done
  <2>3. /\ at2[t].active = FALSE /\ \A x \in Threads : x # t => at2[x] = at[x]
        /\ at2[Main].open = at[Main].open
    BY <1>1, <2>2 DEF Moved, Threads
  <2>4. Pointers(own2, at2)'
    BY <1>1, <2>1, <2>2, MovedPointers
  <2>5. Funcs(at2, base)'
    BY <1>1, <2>2, MovedFuncs
  <2>6. Counts(own2, at2, base)'
    <3>1. ActiveAt(at2)' = ActiveAt(at) \ {t}
      BY <1>1, <2>1, <2>3 DEF ActiveAt
    <3> QED BY <1>1, <1>2, <1>4, <3>1 DEF Counts
  <2>7. counted' \in [Threads -> Nat \cup {-1}]
    BY <1>5, <2>1
  <2>8. ASSUME Granularity = 1 PROVE Charges(at2, rest)'
    <3>1. ASSUME failed = {}, NEW x \in Threads
          PROVE  /\ Counting(at2[x], counted'[x])
                 /\ \A a \in Areas(program) : Charged(a, x, at2[x], at2[Main].open)'
      <4>1. CASE x # t
        <5>1. counted'[x] = counted[x]
          BY <1>5, <2>1, <4>1
        <5> QED BY <1>1, <2>2, <2>8, <3>1, <4>1, <5>1, StaysCharged
      <4>2. CASE x = t
        <5>1. Counting(at2[x], counted'[x])
          BY <1>5, <2>1, <2>3, <4>2 DEF Counting
        <5>2. at[t].open = NoArea
          <6>1. last_counters = PointerTo(at[Main].open)
            BY <3>1 DEF All, Pointers
          <6>2. at[t].open = at[Main].open /\ at[t].open \in Areas(program) \cup {NoArea}
            BY <1>1, SameOpen
          <6>3. ASSUME at[t].open \in Areas(program) PROVE FALSE
            <7>1. Sampled(at[t].open)
              BY <1>2, <2>8, <6>3 DEF Sampled, AreaStats
            <7>2. at[t].open # NoArea
              BY <6>3, NoAreaIsNone
            <7>3. last_counters = [area |-> at[t].open, run |-> run]
              BY <6>1, <6>2, <7>1, <7>2 DEF PointerTo
            <7> QED BY <1>6, <7>2, <7>3 DEF NULL
          <6> QED BY <6>2, <6>3
        <5>3. ASSUME NEW a \in Areas(program) PROVE Charged(a, x, at2[x], at2[Main].open)'
          <6>1. Charged(a, t, at[t], at[Main].open)
            BY <1>2, <2>8, <3>1 DEF All, Charges
          <6>2. a # NoArea
            BY NoAreaIsNone
          <6>3. Pending(at[t], a, counted[t]) = 0 /\ Pending(at2[t], a, counted'[t]) = 0
            BY <2>3, <5>2, <6>2 DEF Pending
          <6> QED BY <1>1, <2>3, <4>2, <6>1, <6>3 DEF Charged
        <5> QED BY <5>1, <5>3
      <4> QED BY <4>1, <4>2
    <3> QED BY <1>1, <1>2, <2>7, <3>1, ChargesStep
  <2>9. Types(rest)'
    BY <1>1, <1>2, <1>4, <2>1, <2>7 DEF All, Types, PointerType
  <2> QED BY <2>2, <2>4, <2>5, <2>6, <2>8, <2>9 DEF All, IInv
<1>7. CASE last_counters # NULL
  <2>1. /\ seen' = [seen EXCEPT ![t] = last_counters] /\ counted' = counted
        /\ todo' = todo /\ tasks' = tasks /\ task' = task
    BY <1>7 DEF DecrActive, threadVars
  <2>2. Shape(own, at, base, rest)'
    BY <1>1, <2>1 DEF All, Shape, Alone, Forked, Todo
  <2>3. Pointers(own, at)'
    <3>1. PointerTo(at[Main].open)' = PointerTo(at[Main].open)
      BY <1>1 DEF PointerTo, Sampled
    <3>2. Pointers(own, at)
      BY DEF All
    <3>3. ASSUME NEW x \in Threads, seen'[x] # NULL
          PROVE  seen'[x] = last_counters' /\ own[x] # << >> /\ Head(own[x]).op = "decr"
      <4>1. CASE x = t
        BY <1>1, <1>2, <1>5, <2>1, <4>1
      <4>2. CASE x # t
        BY <1>1, <1>5, <2>1, <3>2, <3>3, <4>2 DEF Pointers
      <4> QED BY <4>1, <4>2
    <3> QED BY <1>1, <3>1, <3>2, <3>3 DEF Pointers
  <2>4. Funcs(at, base)'
    BY <1>1 DEF All, Funcs
  <2>5. Counts(own, at, base)'
    <3>1. ActiveAt(at)' = ActiveAt(at) \ {t}
      BY <1>5, <1>7, <2>1 DEF ActiveAt
    <3> QED BY <1>1, <1>2, <1>4, <3>1 DEF Counts
  <2>6. Granularity = 1 => Charges(at, rest)'
    BY <1>1, <2>1, SameCharges DEF All
  <2>7. Types(rest)'
    <3>1. seen' \in [Threads -> PointerType]
      BY <1>5, <2>1
    <3> QED BY <1>1, <1>2, <1>4, <2>1, <3>1 DEF All, Types, PointerType
  <2> QED BY <2>2, <2>3, <2>4, <2>5, <2>6, <2>7 DEF All, IInv
<1> QED BY <1>6, <1>7

LEMMA DecrStopKeeps ==
    ASSUME NEW own, NEW at, NEW base, NEW rest, All(own, at, base, rest), NEW t \in Threads, DecrStop(t)
    PROVE  IInv'
<1>1. /\ todo[t] # << >> /\ Head(todo[t]).op = "decr" /\ seen[t] # NULL
      /\ counted' = [counted EXCEPT ![t] = -1] /\ seen' = [seen EXCEPT ![t] = NULL] /\ Done(t)
      /\ program' = program /\ run' = run /\ last_counters' = last_counters
      /\ active_threads' = active_threads /\ current_func' = current_func /\ tasks' = tasks
      /\ due' = due /\ printed' = printed /\ failed' = failed
  BY DEF DecrStop, Doing, chosen, Done
<1>2. /\ rest # << >> /\ \A c \in failed : c.run # run
      /\ stats \in [Areas(program) -> AreaStats] /\ due \in [Areas(program) -> [Threads -> Nat]]
      /\ Allowed(program, Head(todo[t]), at[t])
  BY <1>1, StepFacts
<1>3. seen[t] = last_counters
  BY <1>1 DEF All, Pointers
<1>4. \/ last_counters.run # run /\ fault' = TRUE /\ stats' = stats
      \/ stats' = StoppedInto(last_counters.area, t) /\ fault' = fault
  BY <1>1, <1>3 DEF DecrStop
<1>5. counted \in [Threads -> Nat \cup {-1}] /\ last_counters \in PointerType /\ seen \in [Threads -> PointerType]
  BY DEF All, Types
<1>6. last_counters.area \in Areas(program)
  BY <1>1, <1>3, <1>5 DEF PointerType
<1>7. PICK own2, at2 : Shape(own2, at2, base, rest)' /\ Moved(own, at, t, own2, at2)
  BY <1>1, StepMoves
<1>8. /\ at2[t].active = FALSE /\ \A x \in Threads : x # t => at2[x] = at[x] /\ own2[x] = own[x]
      /\ at2[Main].open = at[Main].open
  BY <1>1, <1>7 DEF Moved, Threads
<1>9. ASSUME failed = {}
      PROVE  /\ last_counters = [area |-> at[Main].open, run |-> run]
             /\ last_counters = PointerTo(at[Main].open)
             /\ stats' = StoppedInto(at[Main].open, t) /\ ~fault' /\ at[Main].open \in Areas(program)
  <2>1. last_counters = PointerTo(at[Main].open) /\ ~fault
    BY <1>9 DEF All, Pointers
  <2>2. last_counters = [area |-> at[Main].open, run |-> run]
    BY <1>1, <1>3, <2>1 DEF PointerTo
  <2> QED BY <1>4, <1>6, <2>1, <2>2
<1>10. /\ stats' \in [Areas(program) -> AreaStats]
       /\ \A a \in Areas(program) : stats'[a].iterations = stats[a].iterations
  <2>1. CASE stats' = stats
    BY <1>2, <2>1
  <2>2. CASE stats' = StoppedInto(last_counters.area, t)
    <3>1. PICK a : a = last_counters.area
      OBVIOUS
    <3>2. /\ StoppedInto(a, t) \in [Areas(program) -> AreaStats]
          /\ \A b \in Areas(program) : b # a => StoppedInto(a, t)[b] = stats[b]
          /\ StoppedInto(a, t)[a].iterations = stats[a].iterations
      BY <1>2, <1>5, <1>6, <3>1, Stopped
    <3>3. stats' = StoppedInto(a, t)
      BY <2>2, <3>1
    <3> QED BY <3>2, <3>3
  <2> QED BY <1>4, <2>1, <2>2
<1>11. Pointers(own2, at2)'
  <2>1. ASSUME NEW x \in Threads, seen'[x] # NULL
        PROVE  seen'[x] = last_counters' /\ own2[x] # << >> /\ Head(own2[x]).op = "decr"
    <3>1. x # t
      BY <1>1, <1>5, <2>1
    <3> QED BY <1>1, <1>5, <1>8, <2>1, <3>1 DEF All, Pointers
  <2>2. ASSUME failed = {} PROVE PointerTo(at2[Main].open)' = PointerTo(at[Main].open)
    BY <1>1, <1>8, <1>9, <1>10, <2>2 DEF PointerTo, Sampled
  <2> QED BY <1>1, <1>9, <2>1, <2>2 DEF Pointers
<1>12. Funcs(at2, base)'
  BY <1>1, <1>7, MovedFuncs
<1>13. Counts(own2, at2, base)'
  <2>1. ActiveAt(at2)' = ActiveAt(at)
    BY <1>1, <1>5, <1>8 DEF ActiveAt
  <2> QED BY <1>1, <1>2, <2>1 DEF Counts, All
<1>14. counted' \in [Threads -> Nat \cup {-1}] /\ seen' \in [Threads -> PointerType]
  BY <1>1, <1>5 DEF PointerType
<1>15. ASSUME Granularity = 1 PROVE Charges(at2, rest)'
  <2>1. ASSUME failed = {}, NEW x \in Threads
        PROVE  /\ Counting(at2[x], counted'[x])
               /\ \A a \in Areas(program) : Charged(a, x, at2[x], at2[Main].open)'
    <3>1. PICK o : o = at[Main].open
      OBVIOUS
    <3>2. o \in Areas(program) /\ stats' = StoppedInto(o, t) /\ at[t].open = o /\ o # NoArea
      BY <1>1, <1>9, <2>1, <3>1, SameOpen, NoAreaIsNone
    <3>3. /\ \A a \in Areas(program) : a # o => stats'[a] = stats[a]
          /\ stats'[o].iterations = stats[o].iterations /\ stats'[o].used = stats[o].used \cup {t}
          /\ stats'[o].counters[x] = stats[o].counters[x] + (IF x = t /\ counted[t] >= 0 THEN counted[t] ELSE 0)
      BY <1>2, <1>5, <3>2, Stopped
    <3>4. Counting(at[x], counted[x]) /\ \A a \in Areas(program) : Charged(a, x, at[x], o)
      BY <1>2, <1>15, <2>1, <3>1 DEF All, Charges
    <3>5. Counting(at2[x], counted'[x])
      BY <1>1, <1>5, <1>8, <3>4 DEF Counting
    <3>6. ASSUME NEW a \in Areas(program), a # o PROVE Charged(a, x, at2[x], o)'
      <4>1. Pending(at2[x], a, counted'[x]) = Pending(at[x], a, counted[x])
        BY <1>1, <1>5, <1>8, <3>2, <3>6 DEF Pending
      <4> QED BY <1>1, <3>3, <3>4, <3>6, <4>1 DEF Charged
    <3>7. Charged(o, x, at2[x], o)'
      <4>1. Charged(o, x, at[x], o)
        BY <3>2, <3>4
      <4>2. stats[o].counters[x] \in Nat /\ counted[x] \in Nat \cup {-1}
        BY <1>2, <1>5, <3>2 DEF AreaStats
      <4>3. CASE x = t
        <5>1. Pending(at2[x], o, counted'[x]) = 0
          BY <1>8, <4>3 DEF Pending
        <5>2. at[t].active
          BY <1>1, <1>2 DEF Allowed
        <5>3. counted[x] >= 0 /\ Pending(at[x], o, counted[x]) = counted[x]
          BY <3>2, <3>4, <4>3, <5>2 DEF Pending, Counting
        <5> QED BY <1>1, <3>3, <4>1, <4>2, <4>3, <5>1, <5>3 DEF Charged
      <4>4. CASE x # t
        <5>1. Pending(at2[x], o, counted'[x]) = Pending(at[x], o, counted[x])
          BY <1>1, <1>5, <1>8, <4>4
        <5>2. stats'[o].counters[x] = stats[o].counters[x]
          BY <3>3, <4>2, <4>4
        <5> QED BY <1>1, <3>3, <4>1, <4>4, <5>1, <5>2 DEF Charged
      <4> QED BY <4>3, <4>4
    <3>8. at2[Main].open = o
      BY <1>8, <3>1
    <3> QED BY <3>5, <3>6, <3>7, <3>8
  <2> QED BY <1>1, <1>2, <1>10, <1>14, <2>1, ChargesStep
<1>16. Types(rest)'
  BY <1>1, <1>2, <1>10, <1>14 DEF All, Types, PointerType
<1> QED BY <1>7, <1>11, <1>12, <1>13, <1>15, <1>16 DEF All, IInv
\* An iteration of the parallel loop starts where the loop is.
LEMMA TakeKeeps ==
    ASSUME NEW own, NEW at, NEW base, NEW rest, All(own, at, base, rest), NEW t \in Threads, Take(t)
    PROVE  IInv'
<1>1. /\ tasks > 0 /\ (todo[t] = << >> \/ Head(todo[t]).op = "join")
      /\ tasks' = tasks - 1 /\ todo' = [todo EXCEPT ![t] = task \o @] /\ task' = task
      /\ UNCHANGED <<chosen, run, counterVars, current_func, active_threads, due, printed, failed>>
      /\ program' = program
  BY DEF Take, Doing, chosen
<1>2. tasks \in 0 .. Trips /\ Trips \in Nat
  BY BoundAssumption DEF All, Types
<1>3. Forked(base, rest) /\ base.par = TRUE
  <2>1. ~Alone(own, base)
    BY <1>1, <1>2 DEF Alone
  <2>2. Forked(base, rest)
    BY <2>1 DEF All, Shape
  <2> QED BY <2>2 DEF Forked
<1>4. own[t] = << >>
  <2> SUFFICES ASSUME own[t] # << >> PROVE FALSE
    OBVIOUS
  <2>1. todo[t] # << >> /\ Head(todo[t]) = Head(own[t])
    BY NextFacts DEF All
  <2>2. CanRun(program, own[t], at[t], base)
    BY DEF All, Shape
  <2>3. Allowed(program, Head(own[t]), at[t])
    BY <2>2, RunStep
  <2> QED BY <1>1, <2>1, <2>3 DEF Allowed
<1>5. at[t] = base /\ todo[t] = IF t = Main THEN rest ELSE << >>
  BY <1>4, NextFacts DEF All
<1>6. CanRun(program, task, base, base) /\ IsSeq(task)
  BY <1>3, RunTypes DEF Forked
<1>7. task \o << >> = task
  BY <1>6, EmptyIsSeq, Joining
<1>8. todo' = [todo EXCEPT ![t] = IF t = Main THEN task \o rest ELSE task]
  BY <1>1, <1>5, <1>7
<1> PICK c : c = task
  OBVIOUS
<1>9. Shape(Put(own, t, c), Put(at, t, base), base, rest)'
  BY <1>1, <1>3, <1>6, <1>8, ThreadMoves DEF All
<1> DEFINE own2 == Put(own, t, c)
           at2 == Put(at, t, base)
<1>10. \A x \in Threads : at2[x] = at[x] /\ (seen[x] # NULL => own2[x] = own[x])
  BY <1>4, <1>5 DEF Put, All, Pointers
<1>11. tasks' \in 0 .. Trips
  BY <1>1, <1>2
<1>12. Shape(own2, at2, base, rest)'
  BY <1>9
<1> HIDE DEF own2, at2
<1>13. /\ Pointers(own2, at2)' /\ Funcs(at2, base)' /\ Counts(own2, at2, base)'
       /\ (Granularity = 1 => Charges(at2, rest)') /\ Types(rest)'
  BY <1>1, <1>3, <1>10, <1>11, OthersKeep
<1> QED BY <1>12, <1>13 DEF All, IInv


\* Between code and code nobody is active, and nothing else changes.
Quiet(at, at2) ==
    /\ \A c \in failed : c.run # run
    /\ \A x \in Threads : seen[x] = NULL /\ at[x].active = FALSE /\ at2[x].active = FALSE
    /\ at2[Main].open = at[Main].open
    /\ tasks' \in 0 .. Trips
    /\ UNCHANGED <<program, run, last_counters, stats, seen, counted, fault, current_func,
                   active_threads, due, printed, failed>>

LEMMA QuietKeeps ==
    ASSUME NEW own, NEW at, NEW base, NEW rest, All(own, at, base, rest), rest # << >>,
           NEW own2, NEW at2, NEW base2, NEW rest2, rest2 # << >>, Quiet(at, at2)
    PROVE  /\ Pointers(own2, at2)' /\ Counts(own2, at2, base2)'
           /\ (Granularity = 1 => Charges(at2, rest2)') /\ Types(rest2)'
<1>0. /\ \A c \in failed : c.run # run
      /\ \A x \in Threads : seen[x] = NULL /\ at[x].active = FALSE /\ at2[x].active = FALSE
      /\ at2[Main].open = at[Main].open
      /\ tasks' \in 0 .. Trips
      /\ UNCHANGED <<program, run, last_counters, stats, seen, counted, fault, current_func,
                     active_threads, due, printed, failed>>
  BY DEF Quiet
<1>1. Pointers(own2, at2)'
  BY <1>0 DEF All, Pointers, PointerTo, Sampled
<1>2. Counts(own2, at2, base2)'
  <2>1. ActiveAt(at2)' = ActiveAt(at)
    BY <1>0 DEF ActiveAt
  <2> QED BY <1>0, <2>1 DEF All, Counts
<1>3. ASSUME Granularity = 1 PROVE Charges(at2, rest2)'
  <2>1. /\ stats \in [Areas(program) -> AreaStats] /\ due \in [Areas(program) -> [Threads -> Nat]]
        /\ counted \in [Threads -> Nat \cup {-1}]
    BY <1>0 DEF All, Types
  <2>2. ASSUME failed = {}, NEW x \in Threads
        PROVE  /\ Counting(at2[x], counted[x])
               /\ \A a \in Areas(program) : Charged(a, x, at2[x], at2[Main].open)'
    <3>1. Counting(at[x], counted[x]) /\ \A a \in Areas(program) : Charged(a, x, at[x], at[Main].open)
      BY <1>0, <1>3, <2>2 DEF All, Charges
    <3>2. Counting(at2[x], counted[x])
      BY <1>0, <3>1 DEF Counting
    <3>3. ASSUME NEW a \in Areas(program) PROVE Charged(a, x, at2[x], at2[Main].open)'
      BY <1>0, <3>1 DEF Charged, Pending
    <3> QED BY <3>2, <3>3
  <2> QED BY <1>0, <2>1, <2>2, ChargesStep
<1>4. Types(rest2)'
  BY <1>0 DEF All, Types, PointerType
<1> QED BY <1>1, <1>2, <1>3, <1>4

LEMMA ForkKeeps ==
    ASSUME NEW own, NEW at, NEW base, NEW rest, All(own, at, base, rest), Fork
    PROVE  IInv'
<1>1. PICK h, d, s : h = Head(todo[Main]) /\ d = Tail(own[Main]) /\ s = at[Main]
  OBVIOUS
<1>2. /\ todo[Main] # << >> /\ h.op = "for" /\ h.par
      /\ tasks' = Trips /\ task' = h.body
      /\ todo' = [todo EXCEPT ![Main] = <<Join>> \o Tail(todo[Main])]
      /\ UNCHANGED <<chosen, run, counterVars, current_func, active_threads, due, printed, failed>>
      /\ program' = program
  BY <1>1 DEF Fork, Doing, Instead, chosen
<1>3. Main \in Threads
  BY DEF Threads
<1>4. /\ own[Main] # << >> /\ h = Head(own[Main]) /\ s \in Places(program)
      /\ Allowed(program, h, s) /\ seen[Main] = NULL /\ s.par = base.par
      /\ rest # << >> /\ \A c \in failed : c.run # run
      /\ stats \in [Areas(program) -> AreaStats] /\ due \in [Areas(program) -> [Threads -> Nat]]
  <2>1. Head(todo[Main]).op = "for"
    BY <1>1, <1>2
  <2> QED BY <1>1, <1>2, <1>3, <2>1, StepFacts
<1>5. s.par = FALSE /\ s.active = FALSE
  BY <1>2, <1>4 DEF Allowed, Places
<1>6. rest = <<End>> /\ Alone(own, base)
  BY <1>4, <1>5 DEF All, Shape, Forked
<1>7. /\ CanRun(program, d, s, base) /\ IsSeq(d)
      /\ \A b \in Inner(h) : CanRun(program, b, Inside(h, s), Inside(h, s))
  <2>1. CanRun(program, own[Main], s, base) /\ IsSeq(own[Main])
    BY <1>1, <1>3, RunTypes DEF All, Shape
  <2>2. CanRun(program, d, After(h, s), base) /\ \A b \in Inner(h) : CanRun(program, b, Inside(h, s), Inside(h, s))
    BY <1>1, <1>4, <2>1, RunStep
  <2>3. After(h, s) = s
    BY <1>2 DEF After
  <2> QED BY <1>1, <1>4, <2>1, <2>2, <2>3, TailIsSeq
<1>8. PICK f : f = [s EXCEPT !.par = TRUE]
  OBVIOUS
<1>9. CanRun(program, h.body, f, f)
  <2>1. Inside(h, s) = f /\ h.body \in Inner(h)
    BY <1>2, <1>8 DEF Inside, Inner
  <2> QED BY <1>7, <2>1
<1>10. /\ f \in Places(program) /\ f.par = TRUE /\ f.active = FALSE /\ f.open = s.open /\ f.func = s.func
       /\ [f EXCEPT !.par = FALSE] = s
  BY <1>4, <1>5, <1>8 DEF Places
<1> DEFINE own2 == [t \in Threads |-> << >>]
           at2 == [t \in Threads |-> f]
           rest2 == <<Join>> \o (d \o <<End>>)
<1>11. AtRest(base)
  BY <1>6 DEF All, Shape, Alone, AtRest
<1>12. Forked(f, rest2)'
  BY <1>2, <1>7, <1>9, <1>10, <1>11 DEF Forked
<1>13. todo' = Todo(own2, rest2)
  <2>0. Tail(todo[Main]) = Tail(own[Main]) \o rest
    <3>1. Shape(own, at, base, rest)
      BY DEF All
    <3>2. PICK t \in Threads : t = Main
      BY <1>3
    <3>3. own[t] # << >>
      BY <1>4, <3>2
    <3>4. Tail(todo[t]) = IF t = Main THEN Tail(own[t]) \o rest ELSE Tail(own[t])
      BY ONLY <3>1, <3>3, NextFacts
    <3> QED BY <3>2, <3>4
  <2>1. Tail(todo[Main]) = d \o <<End>>
    BY <1>1, <1>6, <2>0
  <2>2. todo'[Main] = << >> \o rest2
    <3>1. PICK z : z = d \o <<End>>
      OBVIOUS
    <3>2. IsSeq(z) /\ IsSeq(<<Join>>)
      BY <1>7, <3>1, EndFacts, OneIsSeq, Joining
    <3>3. IsSeq(<<Join>> \o z)
      BY ONLY <3>2, Joining
    <3>4. << >> \o (<<Join>> \o z) = <<Join>> \o z
      BY <3>3, EmptyIsSeq, Joining
    <3>5. todo \in [Threads -> {todo[x] : x \in Threads}]
      BY DEF All, Shape, Todo
    <3> QED BY <1>2, <1>3, <2>1, <3>1, <3>4, <3>5
  <2>3. \A w \in Workers : todo[w] = << >>
    BY <1>6, ThreadAssumption DEF All, Shape, Todo, Alone, Threads
  <2> QED BY <1>2, <1>3, <2>2, <2>3 DEF Todo, All, Shape, Threads
<1>14. \A t \in Threads : CanRun(program, own2[t], at2[t], f)
  BY <1>10, RunNothing
<1> HIDE DEF own2, at2, rest2
<1>15. /\ \A t \in Threads : at2[t] = f /\ own2[t] = << >>
  BY DEF own2, at2
<1>16. Shape(own2, at2, f, rest2)'
  BY <1>2, <1>10, <1>12, <1>13, <1>14, <1>15 DEF Shape
<1>17. \A x \in Threads : own[x] = << >> \/ x = Main
  BY <1>6 DEF Alone, Threads
<1>18. \A x \in Threads : seen[x] = NULL /\ at[x].active = FALSE
  <2>1. \A x \in Threads : x # Main => at[x] = base
    BY <1>17, NextFacts DEF All
  <2> QED BY <1>1, <1>4, <1>5, <1>17, <2>1 DEF All, Pointers, Shape
<1>19. UNCHANGED <<program, run, last_counters, stats, seen, counted, fault, current_func, active_threads, due, printed, failed>>
  BY <1>2 DEF chosen, counterVars
<1>20. rest2 # << >>
  <2>1. PICK z : z = d \o <<End>>
    OBVIOUS
  <2>2. IsSeq(z)
    BY <1>7, <2>1, EndFacts, Joining
  <2> QED BY <2>1, <2>2, ConsParts DEF rest2
<1>21. /\ \A x \in Threads : seen[x] = NULL /\ at[x].active = FALSE /\ at2[x].active = FALSE
       /\ at2[Main].open = at[Main].open
       /\ tasks' \in 0 .. Trips
  BY <1>1, <1>2, <1>3, <1>10, <1>15, <1>18, BoundAssumption
<1>22. Pointers(own2, at2)' /\ Counts(own2, at2, f)' /\ (Granularity = 1 => Charges(at2, rest2)') /\ Types(rest2)'
  <2>1. Quiet(at, at2)
    BY <1>4, <1>19, <1>21 DEF Quiet
  <2>2. All(own, at, base, rest) /\ rest # << >>
    BY <1>4
  <2> QED BY ONLY <1>20, <2>1, <2>2, QuietKeeps
<1>23. Funcs(at2, f)'
  BY <1>1, <1>3, <1>4, <1>5, <1>10, <1>15, <1>19 DEF All, Funcs
<1> QED BY <1>16, <1>22, <1>23 DEF All, IInv
LEMMA JoinedKeeps ==
    ASSUME NEW own, NEW at, NEW base, NEW rest, All(own, at, base, rest), Joined
    PROVE  IInv'
<1>1. /\ todo[Main] # << >> /\ Head(todo[Main]).op = "join" /\ tasks = 0 /\ tasks' = tasks
      /\ \A w \in Workers : todo[w] = << >>
      /\ todo' = [todo EXCEPT ![Main] = << >> \o Tail(todo[Main])]
      /\ UNCHANGED <<program, run, last_counters, stats, seen, counted, fault, current_func, active_threads, due, printed, failed>>
  BY DEF Joined, Doing, Instead, chosen, counterVars
<1>2. Main \in Threads /\ Shape(own, at, base, rest) /\ \A x \in Threads : x = Main \/ x \in Workers
  BY DEF Threads, All
<1>3. ASSUME NEW x \in Threads PROVE own[x] = << >> /\ at[x] = base
  <2>1. own[x] = << >>
    <3> SUFFICES ASSUME own[x] # << >> PROVE FALSE
      OBVIOUS
    <3>1. todo[x] # << >> /\ Head(todo[x]) = Head(own[x])
      BY <1>2, NextFacts
    <3>2. CanRun(program, own[x], at[x], base)
      BY <1>2 DEF Shape
    <3>3. Allowed(program, Head(own[x]), at[x])
      BY <3>2, RunStep
    <3> QED BY <1>1, <1>2, <3>1, <3>3 DEF Allowed
  <2> QED BY <1>2, <2>1, NextFacts
<1>4. todo[Main] = rest
  <2>1. PICK t \in Threads : t = Main
    BY <1>2
  <2>2. todo[t] = IF t = Main THEN rest ELSE << >>
    BY <1>2, <1>3, NextFacts
  <2> QED BY <2>1, <2>2
<1>5. base.par
  <2>1. Head(rest) = (IF base.par THEN Join ELSE End) /\ rest # << >>
    BY <1>1, <1>2, <1>4, RestFacts
  <2>2. End.op = "pipeline_end"
    BY DEF End, Call
  <2> QED BY <1>1, <1>4, <2>1, <2>2
<1>6. Forked(base, rest) /\ base.active = FALSE
  BY <1>2, <1>5 DEF Shape, Alone
<1>7. PICK f : f = [base EXCEPT !.par = FALSE]
  OBVIOUS
<1>8. PICK y, e : AtRest(e) /\ CanRun(program, y, f, e) /\ rest = <<Join>> \o (y \o <<End>>)
  BY <1>6, <1>7 DEF Forked
<1>9. /\ IsSeq(y) /\ f \in Places(program) /\ e \in Places(program) /\ base \in Places(program)
  BY <1>2, <1>8, RunTypes, RestFacts
<1>10. /\ f.open = base.open /\ f.func = base.func /\ f.active = FALSE /\ f.par = FALSE
       /\ e.open = NoArea /\ e.active = FALSE /\ e.par = FALSE
  BY <1>6, <1>7, <1>8, <1>9 DEF Places, AtRest
<1> DEFINE own2 == [t \in Threads |-> IF t = Main THEN y ELSE << >>]
           at2 == [t \in Threads |-> IF t = Main THEN f ELSE e]
<1>11. \A t \in Threads : CanRun(program, own2[t], at2[t], e) /\ at2[t].par = FALSE /\ at2[t].active = FALSE
  BY <1>8, <1>9, <1>10, RunNothing
<1>12. todo' = Todo(own2, <<End>>)
  <2>1. PICK z : z = y \o <<End>>
    OBVIOUS
  <2>2. IsSeq(z)
    BY <1>9, <2>1, EndFacts, Joining
  <2>3. Tail(rest) = z /\ << >> \o z = z
    BY <1>8, <2>1, <2>2, ConsParts, EmptyIsSeq, Joining
  <2>4. todo' = [todo EXCEPT ![Main] = z]
    BY <1>1, <1>4, <2>3
  <2> QED BY <1>1, <1>2, <2>1, <2>4 DEF Shape, Todo
<1>13. Alone(own2, e)'
  BY <1>1, <1>10, ThreadAssumption DEF Alone, Threads
<1> HIDE DEF own2
<1>14. Shape(own2, at2, e, <<End>>)'
  BY <1>1, <1>10, <1>11, <1>12, <1>13 DEF Shape
<1>15. \A c \in failed : c.run # run
  BY <1>5, <1>6 DEF All, Counts, Forked
<1>16. rest # << >> /\ <<End>> # << >>
  BY <1>1, <1>4, EndFacts
<1>17. /\ \A x \in Threads : seen[x] = NULL /\ at[x].active = FALSE /\ at2[x].active = FALSE
       /\ at2[Main].open = at[Main].open /\ at2[Main].func = at[Main].func
  BY <1>2, <1>3, <1>6, <1>10, <1>11 DEF All, Pointers
<1>18. tasks' \in 0 .. Trips
  BY <1>1 DEF All, Types
<1> HIDE DEF at2
<1>19. Pointers(own2, at2)' /\ Counts(own2, at2, e)' /\ (Granularity = 1 => Charges(at2, <<End>>)') /\ Types(<<End>>)'
  <2>1. PICK rest2 : rest2 = <<End>>
    OBVIOUS
  <2>2. Quiet(at, at2)
    BY <1>1, <1>15, <1>17, <1>18 DEF Quiet
  <2>3. All(own, at, base, rest) /\ rest # << >> /\ rest2 # << >>
    BY <1>16, <2>1
  <2>4. Pointers(own2, at2)' /\ Counts(own2, at2, e)' /\ (Granularity = 1 => Charges(at2, rest2)') /\ Types(rest2)'
    BY ONLY <2>2, <2>3, QuietKeeps
  <2> QED BY <2>1, <2>4
<1>20. Funcs(at2, e)'
  <2>1. base.func = Nobody \/ base.func = current_func
    BY <1>3, <1>5, <1>6 DEF All, Funcs, Forked
  <2> QED BY <1>1, <1>2, <1>3, <1>10, <1>17, <2>1 DEF Funcs
<1> QED BY <1>14, <1>19, <1>20 DEF All, IInv
-----------------------------------------------------------------------------
(* Pipelines begin and end.                                                *)

LEMMA AtTheOutermost ==
    ASSUME NEW p
    PROVE  /\ Outermost \in Places(p) /\ CanRun(p, << >>, Outermost, Outermost)
           /\ Outermost.open = NoArea /\ Outermost.active = FALSE /\ Outermost.par = FALSE
           /\ Outermost.func = Nobody
<1>1. Outermost \in Places(p)
  BY DEF Outermost, Places
<1> QED BY <1>1, RunNothing DEF Outermost

\* Where the caller has nothing of its own to run, outside of parallel loops,
\* everybody is at rest.
LEMMA AllRest ==
    ASSUME NEW own, NEW at, NEW base, NEW rest, All(own, at, base, rest), Alone(own, base), own[Main] = << >>
    PROVE  /\ tasks = 0
           /\ \A x \in Threads : /\ own[x] = << >> /\ at[x] = base /\ seen[x] = NULL
                                 /\ todo[x] = IF x = Main THEN rest ELSE << >>
           /\ base.open = NoArea /\ base.active = FALSE /\ base.par = FALSE
           /\ failed = {} => last_counters = NULL /\ ~fault
           /\ ActiveAt(at) = {}
<1>1. Shape(own, at, base, rest) /\ Pointers(own, at)
  BY DEF All
<1>2. \A x \in Threads : own[x] = << >>
  BY DEF Alone, Threads
<1>3. \A x \in Threads : at[x] = base /\ todo[x] = IF x = Main THEN rest ELSE << >>
  BY <1>1, <1>2, NextFacts
<1>4. base.open = NoArea /\ base.active = FALSE /\ base.par = FALSE /\ tasks = 0
  BY <1>1 DEF Alone, Shape
<1>5. \A x \in Threads : seen[x] = NULL
  BY <1>1, <1>2 DEF Pointers
<1>6. failed = {} => last_counters = NULL /\ ~fault
  BY <1>1, <1>3, <1>4 DEF Pointers, PointerTo, Threads
<1>7. ActiveAt(at) = {}
  BY <1>3, <1>4 DEF ActiveAt
<1> QED BY <1>2, <1>3, <1>4, <1>5, <1>6, <1>7

NestedPrograms == \A p \in Programs : p.disjoint /\ p.oneThreaded => WellNested(p)

LEMMA StartKeeps ==
    ASSUME Careful, NestedPrograms,
           NEW own, NEW at, NEW base, NEW rest, All(own, at, base, rest), Start
    PROVE  IInv'
<1>1. /\ ~fault /\ run < MaxRuns /\ todo[Main] = << >> /\ program.disjoint /\ program.oneThreaded
      /\ run' = run + 1
      /\ todo' = [todo EXCEPT ![Main] = Append(program.code, End)]
      /\ stats' = Cleared
      /\ due' = [a \in Areas(program) |-> [t \in Threads |-> 0]]
      /\ counted' = [t \in Threads |-> -1]
      /\ program' = program /\ tasks' = tasks /\ last_counters' = last_counters /\ seen' = seen
      /\ fault' = fault /\ current_func' = current_func /\ active_threads' = active_threads
      /\ printed' = printed /\ failed' = failed
  BY DEF Start, chosen
<1>2. Main \in Threads /\ Shape(own, at, base, rest) /\ Types(rest) /\ IsFiniteSet(failed)
  BY DEF Threads, All, Types
<1>3. own[Main] = << >> /\ rest = << >>
  <2>1. own[Main] = << >>
    BY <1>1, <1>2, NextFacts
  <2>2. PICK t \in Threads : t = Main
    BY <1>2
  <2>3. todo[t] = IF t = Main THEN rest ELSE << >>
    BY <1>2, <2>1, <2>2, NextFacts
  <2> QED BY <1>1, <2>1, <2>2, <2>3
<1>4. Alone(own, base)
  BY <1>2, <1>3, EndFacts, RestFacts DEF Shape, Forked
<1>5. /\ tasks = 0 /\ ActiveAt(at) = {}
      /\ \A x \in Threads : own[x] = << >> /\ seen[x] = NULL /\ todo[x] = << >>
      /\ failed = {} => last_counters = NULL /\ ~fault
  <2>1. All(own, at, base, rest) /\ Alone(own, base) /\ own[Main] = << >>
    BY <1>3, <1>4
  <2>2. /\ tasks = 0
        /\ \A x \in Threads : /\ own[x] = << >> /\ at[x] = base /\ seen[x] = NULL
                              /\ todo[x] = IF x = Main THEN rest ELSE << >>
        /\ base.open = NoArea /\ base.active = FALSE /\ base.par = FALSE
        /\ failed = {} => last_counters = NULL /\ ~fault
        /\ ActiveAt(at) = {}
    BY ONLY <2>1, AllRest
  <2> QED BY <1>3, <2>2
<1>6. program \in Programs
  BY <1>2 DEF Types
<1>7. PICK e : AtRest(e) /\ CanRun(program, program.code, Outermost, e)
  BY <1>1, <1>6 DEF NestedPrograms, WellNested
<1>8. PICK c : c = program.code
  OBVIOUS
<1>9. CanRun(program, c, Outermost, e) /\ IsSeq(c) /\ e \in Places(program)
  BY <1>7, <1>8, RunTypes
<1>10. e.open = NoArea /\ e.active = FALSE /\ e.par = FALSE
  BY <1>7, <1>9 DEF Places, AtRest
<1> DEFINE own2 == [t \in Threads |-> IF t = Main THEN c ELSE << >>]
           at2 == [t \in Threads |-> IF t = Main THEN Outermost ELSE e]
<1>11. \A t \in Threads : CanRun(program, own2[t], at2[t], e) /\ at2[t].par = FALSE /\ at2[t].active = FALSE
  BY <1>9, <1>10, RunNothing, AtTheOutermost
<1>12. todo' = Todo(own2, <<End>>)
  <2>1. todo' = [todo EXCEPT ![Main] = c \o <<End>>]
    BY <1>1, <1>8, <1>9, AppendJoins
  <2> QED BY <1>2, <1>5, <2>1 DEF Shape, Todo
<1>13. Alone(own2, e)'
  BY <1>1, <1>5, <1>10, ThreadAssumption DEF Alone, Threads
<1>14. at2[Main] = Outermost
  BY <1>2
<1> HIDE DEF own2
<1>15. Shape(own2, at2, e, <<End>>)'
  BY <1>1, <1>10, <1>11, <1>12, <1>13 DEF Shape
<1> HIDE DEF at2
<1>16. Pointers(own2, at2)'
  BY <1>1, <1>5, <1>14, AtTheOutermost DEF Pointers, PointerTo
<1>17. Funcs(at2, e)'
  BY <1>10, <1>14, AtTheOutermost DEF Funcs
<1>18. run \in Nat /\ failed \in SUBSET [run : 1 .. run, active : BOOLEAN]
  BY <1>2, BoundAssumption DEF Types
<1>19. Counts(own2, at2, e)'
  <2>1. ActiveAt(at2)' = ActiveAt(at)
    BY <1>1, <1>5, <1>11 DEF ActiveAt
  <2>2. \A f \in failed : f.run # run'
    BY <1>1, <1>18
  <2> QED BY <1>1, <2>1, <2>2 DEF All, Counts
<1>20. /\ stats' \in [Areas(program) -> AreaStats]
       /\ \A a \in Areas(program) : \A x \in Threads : stats'[a].counters[x] = 0 /\ x \notin stats'[a].used
  BY <1>1 DEF Cleared, AreaStats
<1>21. ASSUME Granularity = 1 PROVE Charges(at2, <<End>>)'
  <2>1. ASSUME NEW x \in Threads PROVE Counting(at2[x], counted'[x])
    BY <1>1, <1>11 DEF Counting
  <2>2. ASSUME NEW x \in Threads, NEW a \in Areas(program')
        PROVE  Charged(a, x, at2[x], at2[Main].open)' /\ stats'[a].counters[x] <= due'[a][x]
    <3>1. Pending(at2[x], a, counted'[x]) = 0
      BY <1>11 DEF Pending
    <3>2. stats'[a].counters[x] = 0 /\ x \notin stats'[a].used /\ due'[a][x] = 0
      BY <1>1, <1>20
    <3> QED BY <3>1, <3>2 DEF Charged
  <2> QED BY <2>1, <2>2, EndFacts DEF Charges
<1>22. Types(<<End>>)'
  <2>1. run' \in 1 .. MaxRuns /\ 1 .. run \subseteq 1 .. run' /\ run' # 0
    BY <1>1, <1>18, BoundAssumption
  <2>2. PointerType \subseteq PointerType'
    BY <1>1, <2>1 DEF PointerType
  <2>3. last_counters' \in PointerType' /\ seen' \in [Threads -> PointerType']
    BY <1>1, <1>2, <2>2 DEF Types
  <2>4. failed' \in SUBSET [run : 1 .. run', active : BOOLEAN]
    BY <1>1, <1>18, <2>1
  <2>5. /\ due' \in [Areas(program) -> [Threads -> Nat]] /\ counted' \in [Threads -> Nat \cup {-1}]
        /\ run' \in 0 .. MaxRuns
    BY <1>1, <2>1
  <2> QED BY <1>1, <1>2, <1>20, <2>1, <2>3, <2>4, <2>5 DEF Types
<1> QED BY <1>15, <1>16, <1>17, <1>19, <1>21, <1>22 DEF All, IInv

LEMMA FinishKeeps ==
    ASSUME NEW own, NEW at, NEW base, NEW rest, All(own, at, base, rest), Finish
    PROVE  IInv'
<1>1. /\ todo[Main] # << >> /\ Head(todo[Main]).op = "pipeline_end"
      /\ printed' = stats /\ stats' = << >> /\ current_func' = -1
      /\ todo' = [todo EXCEPT ![Main] = Tail(@)] /\ tasks' = tasks /\ task' = task
      /\ program' = program /\ run' = run /\ last_counters' = last_counters /\ seen' = seen
      /\ counted' = counted /\ fault' = fault /\ active_threads' = active_threads
      /\ due' = due /\ failed' = failed
  BY DEF Finish, Doing, Done, chosen
<1>2. Main \in Threads /\ Shape(own, at, base, rest) /\ Types(rest)
  BY DEF Threads, All
<1>3. own[Main] = << >> /\ todo[Main] = rest
  <2>1. own[Main] = << >>
    <3> SUFFICES ASSUME own[Main] # << >> PROVE FALSE
      OBVIOUS
    <3>1. todo[Main] # << >> /\ Head(todo[Main]) = Head(own[Main])
      BY <1>2, NextFacts
    <3>2. CanRun(program, own[Main], at[Main], base)
      BY <1>2 DEF Shape
    <3>3. Allowed(program, Head(own[Main]), at[Main])
      BY <3>2, RunStep
    <3> QED BY <1>1, <3>1, <3>3 DEF Allowed
  <2>2. PICK t \in Threads : t = Main
    BY <1>2
  <2>3. todo[t] = IF t = Main THEN rest ELSE << >>
    BY <1>2, <2>1, <2>2, NextFacts
  <2> QED BY <2>1, <2>2, <2>3
<1>4. rest = <<End>> /\ Alone(own, base)
  <2>1. Join.op = "join"
    BY DEF Join, Call
  <2>2. ~base.par
    BY <1>1, <1>2, <1>3, <2>1, RestFacts
  <2> QED BY <1>1, <1>2, <1>3, <2>2 DEF Shape, Forked
<1>5. /\ tasks = 0 /\ ActiveAt(at) = {}
      /\ \A x \in Threads : /\ own[x] = << >> /\ at[x] = base /\ seen[x] = NULL
                            /\ todo[x] = IF x = Main THEN rest ELSE << >>
      /\ base.open = NoArea /\ base.active = FALSE
      /\ failed = {} => last_counters = NULL /\ ~fault
  <2>1. All(own, at, base, rest) /\ Alone(own, base) /\ own[Main] = << >>
    BY <1>3, <1>4
  <2>2. /\ tasks = 0
        /\ \A x \in Threads : /\ own[x] = << >> /\ at[x] = base /\ seen[x] = NULL
                              /\ todo[x] = IF x = Main THEN rest ELSE << >>
        /\ base.open = NoArea /\ base.active = FALSE /\ base.par = FALSE
        /\ failed = {} => last_counters = NULL /\ ~fault
        /\ ActiveAt(at) = {}
    BY ONLY <2>1, AllRest
  <2> QED BY <1>3, <2>2
<1>6. rest # << >> /\ Tail(rest) = << >> /\ << >> \o << >> = << >>
  BY <1>4, EndFacts, EmptyIsSeq, Joining
<1> DEFINE own2 == [t \in Threads |-> << >>]
           at2 == [t \in Threads |-> Outermost]
<1>7. todo' = Todo(own2, << >>)
  BY <1>1, <1>2, <1>5, <1>6 DEF Shape, Todo
<1>8. Alone(own2, Outermost)'
  BY <1>1, <1>5, AtTheOutermost DEF Alone, Threads
<1>9. \A x \in Threads : own2[x] = << >> /\ at2[x] = Outermost
  OBVIOUS
<1> HIDE DEF own2, at2
<1>10. Shape(own2, at2, Outermost, << >>)'
  BY <1>1, <1>2, <1>7, <1>8, <1>9, AtTheOutermost DEF Shape
<1>11. Pointers(own2, at2)'
  BY <1>1, <1>2, <1>5, <1>9, AtTheOutermost DEF Pointers, PointerTo
<1>12. Funcs(at2, Outermost)'
  BY <1>2, <1>9, AtTheOutermost DEF Funcs
<1>13. Counts(own2, at2, Outermost)'
  <2>1. ActiveAt(at2)' = ActiveAt(at)
    BY <1>1, <1>5, <1>9, AtTheOutermost DEF ActiveAt
  <2> QED BY <1>1, <1>2, <1>9, <2>1, AtTheOutermost DEF All, Counts
<1>14. ASSUME Granularity = 1 PROVE Charges(at2, << >>)'
  <2>1. Charges(at, rest)
    BY <1>14 DEF All
  <2>2. ASSUME failed = {}, NEW x \in Threads
        PROVE  Counting(at2[x], counted[x]) /\ \A a \in Areas(program) : Exact(a, x)'
    <3>1. Counting(at[x], counted[x]) /\ \A a \in Areas(program) : Charged(a, x, at[x], at[Main].open)
      BY <1>6, <2>1, <2>2 DEF Charges
    <3>2. Counting(at2[x], counted[x])
      BY <1>5, <1>9, <3>1, AtTheOutermost DEF Counting
    <3>3. ASSUME NEW a \in Areas(program) PROVE Exact(a, x)'
      <4>1. a # NoArea
        BY NoAreaIsNone
      <4>2. Pending(at[x], a, counted[x]) = 0
        BY <1>5 DEF Pending
      <4>3. stats[a].counters[x] \in Nat
        BY <1>2, <1>6 DEF Types, AreaStats
      <4> QED BY <1>1, <1>2, <1>5, <3>1, <4>1, <4>2, <4>3 DEF Charged, Exact
    <3> QED BY <3>2, <3>3
  <2>3. \A a \in Areas(program) : \A x \in Threads :
           (\A c \in failed : c.run = run) => stats[a].counters[x] <= due[a][x]
    BY <1>6, <2>1 DEF Charges
  <2> QED BY <1>1, <2>2, <2>3 DEF Charges
<1>15. Types(<< >>)'
  BY <1>1, <1>2, <1>6 DEF Types, PointerType
<1> QED BY <1>10, <1>11, <1>12, <1>13, <1>14, <1>15 DEF All, IInv
LEMMA AbortKeeps ==
    ASSUME NEW own, NEW at, NEW base, NEW rest, All(own, at, base, rest), Abort
    PROVE  IInv'
<1>1. /\ tasks = 0 /\ \A w \in Workers : todo[w] = << >>
      /\ Len(todo[Main]) > 1 /\ seen[Main] = NULL
      /\ todo' = [todo EXCEPT ![Main] = <<End>>]
      /\ failed' = failed \cup {[run |-> run, active |-> Active(Main)]}
      /\ UNCHANGED <<program, run, tasks, task, last_counters, stats, seen, counted, fault,
                     current_func, active_threads, due, printed>>
  BY DEF Abort, chosen, counterVars
<1>2. Main \in Threads /\ Shape(own, at, base, rest) /\ Types(rest) /\ Counts(own, at, base)
  BY DEF Threads, All
<1>3. todo[Main] # << >> /\ todo[Main] # <<End>>
  <2>1. PICK c : c = todo[Main]
    OBVIOUS
  <2>2. Len(c) > 1
    BY <1>1, <2>1
  <2>3. Len(<< >>) = 0 /\ Len(<<End>>) = 1
    OBVIOUS
  <2>4. ASSUME c = << >> PROVE FALSE
    <3>1. Len(c) = 0
      BY <2>3, <2>4, Zenon
    <3> QED BY <2>2, <3>1
  <2>5. ASSUME c = <<End>> PROVE FALSE
    <3>1. Len(c) = 1
      BY <2>3, <2>5, Zenon
    <3> QED BY <2>2, <3>1
  <2> QED BY <2>1, <2>4, <2>5
<1>4. rest # << >> /\ (own[Main] = << >> => rest = todo[Main])
  <2>1. PICK t \in Threads : t = Main
    BY <1>2
  <2>2. own[t] = << >> => todo[t] = IF t = Main THEN rest ELSE << >>
    BY <1>2, NextFacts
  <2>3. own[t] # << >> => rest # << >>
    BY <1>2, NextFacts
  <2> QED BY <1>3, <2>1, <2>2, <2>3
<1>5. \A c \in failed : c.run # run
  <2> SUFFICES ASSUME own[Main] = << >>, base.par = FALSE PROVE FALSE
    BY <1>2 DEF Counts
  <2> QED BY <1>2, <1>3, <1>4 DEF Shape, Forked
<1>6. ASSUME NEW w \in Threads, w # Main PROVE own[w] = << >> /\ at[w].active = FALSE /\ seen[w] = NULL
  <2>1. own[w] = << >>
    BY <1>1, <1>2, <1>6 DEF Threads, Shape, Todo
  <2>2. at[w] = base
    BY <1>2, <2>1, NextFacts
  <2>3. base.active = FALSE
    BY <1>2 DEF Shape
  <2> QED BY <2>1, <2>2, <2>3 DEF All, Pointers
<1> DEFINE own2 == [t \in Threads |-> << >>]
           at2 == [t \in Threads |-> Outermost]
<1>7. todo' = Todo(own2, <<End>>)
  <2>1. << >> \o <<End>> = <<End>>
    BY EndFacts, EmptyIsSeq, Joining
  <2> QED BY <1>1, <1>2, <2>1 DEF Shape, Todo, Threads
<1>8. Alone(own2, Outermost)'
  BY <1>1, AtTheOutermost DEF Alone, Threads
<1>9. \A x \in Threads : own2[x] = << >> /\ at2[x] = Outermost
  OBVIOUS
<1> HIDE DEF own2, at2
<1>10. Shape(own2, at2, Outermost, <<End>>)'
  BY <1>1, <1>7, <1>8, <1>9, AtTheOutermost DEF Shape
<1>11. \A x \in Threads : seen[x] = NULL
  BY <1>1, <1>6
<1>12. failed' # {}
  BY <1>1
<1>13. Pointers(own2, at2)'
  BY <1>1, <1>11, <1>12 DEF Pointers
<1>14. Funcs(at2, Outermost)'
  BY <1>2, <1>9, AtTheOutermost DEF Funcs
<1>15. /\ IsFiniteSet(failed) /\ failed \in SUBSET [run : 1 .. run, active : BOOLEAN]
       /\ run \in 1 .. MaxRuns
       /\ stats \in [Areas(program) -> AreaStats] /\ due \in [Areas(program) -> [Threads -> Nat]]
       /\ counted \in [Threads -> Nat \cup {-1}]
  BY <1>2, <1>4 DEF Types
<1>16. PICK b \in BOOLEAN : b = Active(Main)
  <2>1. Active(Main) \in BOOLEAN
    BY DEF Active
  <2> QED BY <2>1
<1>17. PICK g : g = [run |-> run, active |-> b]
  OBVIOUS
<1>18. /\ failed' = failed \cup {g} /\ g \notin failed /\ g.active = b /\ g.run = run
       /\ g \in [run : 1 .. run, active : BOOLEAN]
  BY <1>1, <1>5, <1>15, <1>16, <1>17
<1>19. Counts(own2, at2, Outermost)'
  <2>1. ActiveAt(at2)' = {}
    BY <1>9, AtTheOutermost DEF ActiveAt
  <2>2. active_threads = Cardinality(ActiveAt(at)) + Cardinality({c \in failed : c.active})
    BY <1>2 DEF Counts
  <2>3. b <=> at[Main].active
    BY <1>2, <1>11, <1>16, ActiveMeans
  <2>4. /\ IsFiniteSet({c \in failed : c.active}) /\ Cardinality({c \in failed : c.active}) \in Nat
        /\ Cardinality({}) = 0
    BY <1>15, FailedFinite, FS_EmptySet
  <2>5. active_threads = Cardinality({c \in failed' : c.active})
    <3>1. CASE b
      <4>1. {c \in failed' : c.active} = {c \in failed : c.active} \cup {g}
        BY <1>18, <3>1
      <4>2. g \notin {c \in failed : c.active}
        BY <1>18
      <4>3. Cardinality({c \in failed' : c.active}) = Cardinality({c \in failed : c.active}) + 1
        <5>1. PICK F : F = {c \in failed : c.active}
          OBVIOUS
        <5>2. Cardinality(F \cup {g}) = Cardinality(F) + 1
          BY <2>4, <4>2, <5>1, FS_AddElement
        <5> QED BY <4>1, <5>1, <5>2
      <4>4. ActiveAt(at) = {Main}
        BY <1>2, <1>6, <1>11, <2>3, <3>1 DEF ActiveAt
      <4>5. Cardinality(ActiveAt(at)) = 1
        BY <4>4, FS_Singleton
      <4> QED BY <2>2, <2>4, <4>3, <4>5
    <3>2. CASE ~b
      <4>1. {c \in failed' : c.active} = {c \in failed : c.active}
        BY <1>18, <3>2
      <4>2. ActiveAt(at) = {}
        BY <1>6, <2>3, <3>2 DEF ActiveAt
      <4>3. Cardinality(ActiveAt(at)) = 0
        BY <2>4, <4>2
      <4> QED BY <2>2, <2>4, <4>1, <4>3
    <3> QED BY <3>1, <3>2
  <2>6. Cardinality({c \in failed' : c.active}) \in Nat
    BY <1>2, <2>5 DEF Types
  <2>7. active_threads' = Cardinality(ActiveAt(at2)') + Cardinality({c \in failed' : c.active})
    BY <1>1, <2>1, <2>4, <2>5, <2>6
  <2> QED BY <1>2, <1>9, <2>7, AtTheOutermost DEF Counts
<1>20. ASSUME Granularity = 1 PROVE Charges(at2, <<End>>)'
  <2>1. Charges(at, rest)
    BY <1>20 DEF All
  <2>2. ASSUME NEW a \in Areas(program'), NEW x \in Threads, \A c \in failed' : c.run = run'
        PROVE  stats'[a].counters[x] <= due'[a][x]
    <3>1. \A c \in failed : c.run = run
      BY <1>1, <2>2
    <3> QED BY <1>1, <1>4, <2>1, <3>1 DEF Charges
  <2> QED BY <1>12, <2>2, EndFacts DEF Charges
<1>21. Types(<<End>>)'
  <2>1. IsFiniteSet(failed')
    BY <1>15, <1>18, FS_AddElement
  <2>2. failed' \in SUBSET [run : 1 .. run, active : BOOLEAN]
    BY <1>15, <1>18
  <2>3. run \in 1 .. MaxRuns /\ stats \in [Areas(program) -> AreaStats]
    BY <1>15
  <2> QED BY <1>1, <1>2, <2>1, <2>2, <2>3 DEF Types, PointerType
<1> QED BY <1>10, <1>13, <1>14, <1>19, <1>20, <1>21 DEF All, IInv

-----------------------------------------------------------------------------
(* The invariant and what follows from it.                                 *)

LEMMA Beginning == Init => IInv
<1> SUFFICES ASSUME Init PROVE IInv
  OBVIOUS
<1> DEFINE own == [t \in Threads |-> << >>]
           at == [t \in Threads |-> Outermost]
<1>1. \A x \in Threads : own[x] = << >> /\ at[x] = Outermost
  OBVIOUS
<1>2. todo = Todo(own, << >>)
  <2>1. << >> \o << >> = << >>
    BY EmptyIsSeq, Joining
  <2> QED BY <2>1 DEF Init, Todo
<1> HIDE DEF own, at
<1>3. Main \in Threads /\ \A w \in Workers : w \in Threads
  BY DEF Threads
<1>4. Shape(own, at, Outermost, << >>)
  BY <1>1, <1>2, <1>3, AtTheOutermost DEF Init, Shape, Alone
<1>5. Pointers(own, at)
  BY <1>1, <1>3, AtTheOutermost DEF Init, Pointers, PointerTo
<1>6. Funcs(at, Outermost)
  BY <1>1, <1>3, AtTheOutermost DEF Funcs
<1>7. Counts(own, at, Outermost)
  <2>1. ActiveAt(at) = {} /\ {c \in failed : c.active} = {}
    BY <1>1, AtTheOutermost DEF ActiveAt, Init
  <2>2. Cardinality({}) = 0
    BY FS_EmptySet
  <2> QED BY <2>1, <2>2 DEF Counts, Init
<1>8. Charges(at, << >>)
  <2>1. /\ \A x \in Threads : counted[x] = -1
        /\ printed = << >>
    BY DEF Init
  <2>2. \A x \in Threads : Counting(at[x], counted[x])
    BY <1>1, <2>1 DEF Counting, Outermost
  <2> QED BY <2>1, <2>2 DEF Charges
<1>9. Types(<< >>)
  <2>1. IsFiniteSet({})
    BY FS_EmptySet
  <2>2. 0 \in FuncIds(program)
    BY ProgramAssumption DEF Init
  <2> QED BY <2>1, <2>2, BoundAssumption DEF Types, Init, PointerType
<1> QED BY <1>4, <1>5, <1>6, <1>7, <1>8, <1>9 DEF All, IInv

LEMMA NothingHappens == IInv /\ UNCHANGED vars => IInv'
<1> SUFFICES ASSUME IInv, UNCHANGED vars PROVE IInv'
  OBVIOUS
<1>1. PICK own, at, base, rest : All(own, at, base, rest)
  BY DEF IInv
<1>2. /\ program' = program /\ todo' = todo /\ tasks' = tasks /\ task' = task
      /\ run' = run /\ last_counters' = last_counters /\ stats' = stats
      /\ seen' = seen /\ counted' = counted /\ fault' = fault /\ current_func' = current_func
      /\ active_threads' = active_threads /\ due' = due /\ printed' = printed /\ failed' = failed
  BY DEF vars, chosen, threadVars, counterVars
<1>3. Shape(own, at, base, rest)'
  BY <1>1, <1>2 DEF All, Shape, Alone, Forked, Todo
<1>4. Pointers(own, at)' /\ Funcs(at, base)'
  BY <1>1, <1>2 DEF All, Pointers, PointerTo, Sampled, Funcs
<1>5. Counts(own, at, base)'
  BY <1>1, <1>2 DEF All, Counts, ActiveAt
<1>6. Granularity = 1 => Charges(at, rest)'
  BY <1>1, <1>2, SameCharges DEF All
<1>7. Types(rest)'
  BY <1>1, <1>2 DEF All, Types, PointerType
<1> QED BY <1>3, <1>4, <1>5, <1>6, <1>7 DEF All, IInv

LEMMA StepKeeps ==
    ASSUME Careful, NestedPrograms
    PROVE  IInv /\ [Next]_vars => IInv'
<1> SUFFICES ASSUME IInv, [Next]_vars PROVE IInv'
  OBVIOUS
<1>1. PICK own, at, base, rest : All(own, at, base, rest)
  BY DEF IInv
<1>2. CASE Start
  BY <1>1, <1>2, StartKeeps
<1>3. CASE Abort
  BY <1>1, <1>3, AbortKeeps
<1>4. CASE Fork
  BY <1>1, <1>4, ForkKeeps
<1>5. CASE Joined
  BY <1>1, <1>5, JoinedKeeps
<1>6. CASE Finish
  BY <1>1, <1>6, FinishKeeps
<1>7. ASSUME NEW t \in Threads, Step(t) PROVE IInv'
  <2>1. CASE SetCurrentFunc(t)
    BY <1>1, <2>1, SetCurrentKeeps
  <2>2. CASE EnterRegion(t)
    BY <1>1, <2>2, EnterKeeps
  <2>3. CASE LeaveRegion(t)
    BY <1>1, <2>3, LeaveKeeps
  <2>4. CASE IncrActive(t)
    BY <1>1, <2>4, IncrKeeps
  <2>5. CASE DecrActive(t)
    BY <1>1, <2>5, DecrKeeps
  <2>6. CASE DecrStop(t)
    BY <1>1, <2>6, DecrStopKeeps
  <2>7. CASE Pass(t)
    BY <1>1, <2>7, PassKeeps
  <2>8. CASE DoWork(t)
    BY <1>1, <2>8, WorkKeeps
  <2>9. CASE Choose(t)
    BY <1>1, <2>9, ChooseKeeps
  <2>10. CASE SerialLoop(t)
    BY <1>1, <2>10, SerialLoopKeeps
  <2>11. CASE Take(t)
    BY <1>1, <2>11, TakeKeeps
  <2> QED BY <1>7, <2>1, <2>2, <2>3, <2>4, <2>5, <2>6, <2>7, <2>8, <2>9, <2>10, <2>11 DEF Step
<1>8. CASE UNCHANGED vars
  BY <1>8, NothingHappens
<1> QED BY <1>2, <1>3, <1>4, <1>5, <1>6, <1>7, <1>8 DEF Next

LEMMA Invariance ==
    ASSUME Careful, NestedPrograms
    PROVE  Spec => []IInv
<1>1. Init => IInv
  BY Beginning
<1>2. IInv /\ [Next]_vars => IInv'
  BY StepKeeps
<1> QED BY <1>1, <1>2, PTL DEF Spec

\* What the threads read of the pointer holds, and the pointer is of this run.
THEOREM PointerRightThm ==
    ASSUME Careful, NestedPrograms
    PROVE  Spec => []PointerRight
<1>1. ASSUME IInv PROVE PointerRight
  <2>1. PICK own, at, base, rest : All(own, at, base, rest)
    BY <1>1 DEF IInv
  <2>2. PointerStable
    BY <2>1 DEF All, Pointers, PointerStable
  <2>3. ASSUME last_counters # NULL, failed = {} PROVE last_counters.run = run /\ stats # << >>
    <3>1. last_counters = PointerTo(at[Main].open) /\ at[Main].open # NoArea
      BY <2>1, <2>3 DEF All, Pointers, PointerTo
    <3>2. last_counters.run = run
      BY <2>3, <3>1 DEF PointerTo
    <3>3. Main \in Threads
      BY DEF Threads
    <3>4. rest # << >>
      <4> SUFFICES ASSUME rest = << >> PROVE FALSE
        OBVIOUS
      <4>1. own[Main] = << >> /\ base.open = NoArea
        <5>1. Shape(own, at, base, rest)
          BY <2>1 DEF All
        <5>2. ~base.par
          BY <5>1, RestFacts
        <5> QED BY <5>1, <5>2, EndFacts DEF Shape, Alone, Forked
      <4>2. at[Main] = base
        BY <2>1, <3>3, <4>1, NextFacts DEF All
      <4> QED BY <3>1, <4>1, <4>2
    <3>5. stats \in [Areas(program) -> AreaStats]
      BY <2>1, <3>4 DEF All, Types
    <3>6. Areas(program) # {}
      BY <2>1, ProgramAssumption DEF All, Types, Areas
    <3>7. stats # << >>
      <4>1. DOMAIN stats = Areas(program) /\ DOMAIN << >> = {}
        BY <3>5
      <4> QED BY <3>6, <4>1
    <3> QED BY <3>2, <3>7
  <2> QED BY <2>2, <2>3 DEF PointerRight, PointerFresh
<1> QED BY <1>1, Invariance, PTL

\* Neither NULL nor a freed area is dereferenced before a call fails.
THEOREM NoFaultThm ==
    ASSUME Careful, NestedPrograms
    PROVE  Spec => []NoFault
<1>1. IInv => NoFault
  BY DEF IInv, All, Pointers, NoFault
<1> QED BY <1>1, Invariance, PTL
\* The sampler reads the number of threads that work and the func they work on.
THEOREM SampledRightThm ==
    ASSUME Careful, NestedPrograms
    PROVE  Spec => []SampledRight
<1>1. ASSUME IInv PROVE SampledRight
  <2>1. PICK own, at, base, rest : All(own, at, base, rest)
    BY <1>1 DEF IInv
  <2>2. TypeOK
    BY <2>1 DEF All, Types, TypeOK, PointerType, AreaStats
  <2>3. ActiveThreadsExact
    <3>1. \A t \in Threads : Active(t) <=> at[t].active /\ seen[t] = NULL
      BY <2>1, ActiveMeans DEF All
    <3>2. {t \in Threads : Active(t)} = ActiveAt(at)
      BY <3>1 DEF ActiveAt
    <3>3. active_threads = Cardinality(ActiveAt(at)) + Cardinality({c \in failed : c.active})
      BY <2>1 DEF All, Counts
    <3> QED BY <3>2, <3>3 DEF ActiveThreadsExact
  <2>4. ASSUME Doing(Main, "work"), \A i \in DOMAIN todo[Main] : todo[Main][i] # Join
        PROVE  current_func = FuncAround(program, Head(todo[Main]))
    <3>1. Main \in Threads /\ Shape(own, at, base, rest)
      BY <2>1 DEF Threads, All
    <3>2. todo[Main] # << >> /\ Head(todo[Main]).op = "work"
      BY <2>4 DEF Doing
    <3>3. Allowed(program, Head(todo[Main]), at[Main])
      BY <2>1, <3>1, <3>2, StepFacts
    <3>4. at[Main].func # Nobody /\ at[Main].func = FuncAround(program, Head(todo[Main]))
      BY <3>2, <3>3 DEF Allowed
    <3>5. base.par = FALSE
      <4> SUFFICES ASSUME base.par PROVE FALSE
        BY <3>1 DEF Shape, Alone, Forked
      <4>1. PICK c : c = own[Main]
        OBVIOUS
      <4>2. IsSeq(c) /\ IsSeq(rest) /\ todo[Main] = c \o rest
        BY <3>1, <4>1, RunTypes, RestFacts DEF Shape, Todo
      <4>3. rest # << >> /\ Head(rest) = Join
        BY <3>1, RestFacts
      <4>4. \E i \in DOMAIN (c \o rest) : (c \o rest)[i] = Head(rest)
        BY ONLY <4>2, <4>3, HeadIsThere
      <4> QED BY <2>4, <4>2, <4>3, <4>4
    <3> QED BY <2>1, <3>4, <3>5 DEF All, Funcs
  <2> QED BY <2>2, <2>3, <2>4 DEF SampledRight, SampledFuncRight
<1> QED BY <1>1, Invariance, PTL

LEMMA ReportIsOver ==
    ASSUME NEW own, NEW at, NEW base, NEW rest, All(own, at, base, rest), todo[Main] = << >>
    PROVE  rest = << >>
<1>1. Main \in Threads /\ Shape(own, at, base, rest)
  BY DEF Threads, All
<1>2. PICK t \in Threads : t = Main
  BY <1>1
<1>3. own[t] # << >> => todo[t] # << >>
  BY <1>1, NextFacts
<1>4. own[t] = << >> => todo[t] = IF t = Main THEN rest ELSE << >>
  BY <1>1, NextFacts
<1> QED BY <1>2, <1>3, <1>4

\* With every iteration measured, each thread's work is in the area it was asked
\* for when a call ends, and nowhere else.
THEOREM ChargedWhereAskedThm ==
    ASSUME Careful, NestedPrograms, Granularity = 1
    PROVE  Spec => []ChargedWhereAsked
<1>1. ASSUME IInv PROVE ChargedWhereAsked
  <2>1. PICK own, at, base, rest : All(own, at, base, rest)
    BY <1>1 DEF IInv
  <2>2. Charges(at, rest)
    BY <2>1 DEF All
  <2>3. todo[Main] = << >> => rest = << >>
    BY <2>1, ReportIsOver
  <2> QED BY <2>2, <2>3 DEF Charges, Exact, ChargedWhereAsked
<1> QED BY <1>1, Invariance, PTL

\* A sum over a set is the sum over what of it counts.
LEMMA SumWithin ==
    ASSUME NEW S, IsFiniteSet(S), NEW T \in SUBSET S, NEW f, NEW g,
           \A x \in S : f[x] \in Nat /\ (x \notin T => f[x] = 0),
           \A x \in T : g[x] = f[x]
    PROVE  SumFunctionOnSet(g, T) = SumFunctionOnSet(f, S)
<1>1. IsFiniteSet(T) /\ IsFiniteSet(S \ T)
  BY FS_Subset
<1> DEFINE Q == {s \in SUBSET S : SumFunctionOnSet(g, s \cap T) # SumFunctionOnSet(f, s)}
<1>2. CASE Q = {}
  <2>1. S \cap T = T /\ S \in SUBSET S
    OBVIOUS
  <2> QED BY <1>2, <2>1
<1>3. CASE Q # {}
  <2>1. {} \notin Q
    <3>1. {} \cap T = {}
      OBVIOUS
    <3> QED BY <3>1, SumEmpty DEF Sum
  <2>2. PICK s \in Q : \E x \in s :
          s \in SUBSET S /\ s \ {x} \notin Q /\ IsFiniteSet(s) /\ IsFiniteSet(s \ {x})
    <3> HIDE DEF Q
    <3>1. Q \in SUBSET SUBSET S
      BY DEF Q
    <3> QED BY <1>3, <2>1, <3>1, SmallestFails
  <2>3. PICK x \in s :
          s \in SUBSET S /\ s \ {x} \notin Q /\ IsFiniteSet(s) /\ IsFiniteSet(s \ {x})
    BY <2>2
  <2>4. SumFunctionOnSet(g, (s \ {x}) \cap T) = SumFunctionOnSet(f, s \ {x})
    BY <2>3
  <2>5. /\ SumFunctionOnSet(f, s) = f[x] + SumFunctionOnSet(f, s \ {x})
        /\ SumFunctionOnSet(f, s \ {x}) \in Nat
    BY <2>3, SumRemove DEF Sum
  <2>6. CASE x \in T
    <3>1. IsFiniteSet(s \cap T) /\ x \in s \cap T /\ (s \cap T) \ {x} = (s \ {x}) \cap T
      BY <2>3, <2>6, FS_Subset
    <3>2. \A y \in s \cap T : g[y] \in Nat
      BY <2>3
    <3>3. SumFunctionOnSet(g, s \cap T) = g[x] + SumFunctionOnSet(g, (s \cap T) \ {x})
      BY <3>1, <3>2, SumRemove DEF Sum
    <3>4. g[x] = f[x]
      BY <2>6
    <3> QED BY <2>4, <2>5, <3>1, <3>3, <3>4
  <2>7. CASE x \notin T
    <3>1. s \cap T = (s \ {x}) \cap T /\ f[x] = 0
      BY <2>3, <2>7
    <3>2. SumFunctionOnSet(g, s \cap T) # SumFunctionOnSet(f, s)
      BY <2>2
    <3>3. SumFunctionOnSet(g, s \cap T) = SumFunctionOnSet(f, s \ {x})
      BY <2>4, <3>1
    <3>4. SumFunctionOnSet(f, s) = SumFunctionOnSet(f, s \ {x})
      BY <2>5, <3>1
    <3> QED BY <3>2, <3>3, <3>4
  <2> QED BY <2>6, <2>7
<1> QED BY <1>2, <1>3

\* An area of which every iteration is measured is reported as counted.
LEMMA EstimateOfAll ==
    ASSUME Granularity = 1, NEW c \in Nat, NEW n \in Nat \ {0}
    PROVE  Estimate(c, n) = c
<1>1. n >= 1 /\ n % 1 = 0
  OBVIOUS
<1>2. c * 0 = 0 /\ 0 \div n = 0 /\ c * 1 = c
  OBVIOUS
<1> QED BY <1>1, <1>2 DEF Estimate

\* The report's totals are the work done, and every area in use has a line.
THEOREM ReportedThm ==
    ASSUME Careful, NestedPrograms, Granularity = 1
    PROVE  Spec => []Reported
<1>1. ASSUME IInv PROVE Reported
  <2> SUFFICES ASSUME printed # << >>, todo[Main] = << >>, failed = {},
                      NEW a \in Areas(program), printed[a].used # {}
               PROVE  /\ TotalEvents(printed[a]) = SumFunctionOnSet(due[a], Threads)
                      /\ \/ a[1] = "loop" /\ LoopTotal(printed[a], Shows(a))
                         \/ a[1] # "loop" /\ FuncTotal(printed[a], Shows(a))
                         \/ ThreadLines(printed[a], Shows(a)) = printed[a].used
    BY DEF Reported
  <2>1. PICK own, at, base, rest : All(own, at, base, rest)
    BY <1>1 DEF IInv
  <2>2. rest = << >>
    BY <2>1, ReportIsOver
  <2>3. \A t \in Threads : Exact(a, t)
    BY <2>1, <2>2 DEF All, Charges
  <2>4. PICK s : s = printed[a]
    OBVIOUS
  <2>5. printed[a] \in AreaStats
    BY <2>1 DEF All, Types
  <2>6. s.counters \in [Threads -> Nat] /\ s.used \in SUBSET Threads /\ s.iterations \in Nat
    BY <2>4, <2>5 DEF AreaStats
  <2>7. IsFiniteSet(Threads)
    BY ThreadAssumption, FS_Singleton, FS_Union DEF Threads
  <2>8. \A t \in Threads : /\ s.counters[t] = due[a][t]
                           /\ t \notin s.used => s.counters[t] = 0
                           /\ t \in s.used => s.iterations # 0
    BY <2>3, <2>4 DEF Exact
  <2>9. TotalEvents(s) = SumFunctionOnSet(due[a], Threads)
    <3> DEFINE g == [t \in s.used |-> Estimate(s.counters[t], s.iterations)]
    <3>1. ASSUME NEW t \in s.used PROVE g[t] = due[a][t]
      <4>1. s.counters[t] \in Nat /\ s.iterations \in Nat \ {0} /\ s.counters[t] = due[a][t]
        BY <2>6, <2>8
      <4>2. Estimate(s.counters[t], s.iterations) = s.counters[t]
        BY <4>1, EstimateOfAll
      <4> QED BY <4>1, <4>2
    <3>2. \A t \in Threads : due[a][t] \in Nat /\ (t \notin s.used => due[a][t] = 0)
      BY <2>6, <2>8
    <3> HIDE DEF g
    <3>3. SumFunctionOnSet(g, s.used) = SumFunctionOnSet(due[a], Threads)
      <4>1. PICK f, T : f = due[a] /\ T = s.used
        OBVIOUS
      <4>2. T \in SUBSET Threads /\ \A t \in Threads : f[t] \in Nat /\ (t \notin T => f[t] = 0)
        BY <2>6, <3>2, <4>1
      <4>3. \A t \in T : g[t] = f[t]
        BY <3>1, <4>1
      <4>4. SumFunctionOnSet(g, T) = SumFunctionOnSet(f, Threads)
        BY <2>7, <4>2, <4>3, SumWithin
      <4> QED BY <4>1, <4>4
    <3> QED BY <3>3 DEF TotalEvents, g
  <2>10. \/ a[1] = "loop" /\ LoopTotal(s, Shows(a))
         \/ a[1] # "loop" /\ FuncTotal(s, Shows(a))
         \/ ThreadLines(s, Shows(a)) = s.used
    <3>1. CASE Shows(a)
      BY <3>1 DEF ThreadLines
    <3>2. CASE ~Shows(a)
      <4>1. IsFiniteSet(s.used) /\ s.used # {}
        BY <2>4, <2>6, <2>7, FS_Subset
      <4>2. Cardinality(s.used) \in Nat /\ Cardinality(s.used) # 0
        BY <4>1, FS_CardinalityType, FS_EmptySet
      <4> QED BY <3>2, <4>2 DEF LoopTotal, FuncTotal
    <3> QED BY <3>1, <3>2
  <2> QED BY <2>4, <2>9, <2>10
<1> QED BY <1>1, Invariance, PTL
=============================================================================
