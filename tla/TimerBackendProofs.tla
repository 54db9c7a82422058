------------------------ MODULE TimerBackendProofs ------------------------
(***************************************************************************)
(* The timer backend charges what it should, for every number of threads,  *)
(* slots and markers, every nesting of markers and every clock.            *)
(***************************************************************************)
EXTENDS TimerBackend, SetSums, SequenceTheorems, TLAPS

(* A thread keeps the slot that it got, and nobody else gets it.           *)
SlotInv ==
    /\ \A e, g \in table : e[1] = g[1] <=> e[2] = g[2]
    /\ \A e \in table : answer[e[2]] = e[1]
    /\ \A t \in Threads : answer[t] \in Slots => <<answer[t], t>> \in table

Served(t) == answer[t] \in Slots

(* Where a thread is, and which markers it is in.                          *)
CallInv ==
    \A t \in Threads :
       /\ pc[t] = "out" => t \notin pending
       /\ pc[t] # "out" => marker[t] \in Markers /\ marker[t] \notin ToSetOf(open[t])
       /\ pc[t] # "out" /\ t \notin pending => Served(t)
       /\ open[t] # <<>> \/ pc[t] = "stop" => Served(t)
       /\ \A i, j \in DOMAIN open[t] : open[t][i] = open[t][j] => i = j
       /\ ~up => pc[t] = "out" /\ open[t] = <<>>

(* What a thread spent in a marker since the start time that is stored,    *)
(* and has not been charged for yet.                                       *)
Due(t, m) ==
    IF m \in ToSetOf(open[t]) THEN clock - start_times[answer[t]]
    ELSE IF pc[t] = "stop" /\ marker[t] = m THEN now[t] - start_times[answer[t]]
    ELSE 0

ClockInv ==
    /\ \A i \in Slots : start_times[i] <= clock
    /\ \A t \in Threads : pc[t] = "stop" => start_times[answer[t]] <= now[t]

(* A slot that nobody has got was never charged.                           *)
UnusedInv ==
    \A i \in Slots : (\A e \in table : e[1] # i) => \A m \in Markers : timers_accum[m][i] = 0

AtMost == \A t \in Threads, m \in Markers : Charged(t, m) + Due(t, m) <= inside[t][m]

(* A thread that does not nest markers is in one at most.                  *)
Exactly ==
    \A t \in Threads \ Nesters :
       /\ Len(open[t]) <= 1
       /\ pc[t] # "out" => open[t] = <<>>
       /\ \A m \in Markers : Charged(t, m) + Due(t, m) = inside[t][m]

IInv == TypeOK /\ SlotInv /\ CallInv /\ ClockInv /\ UnusedInv /\ AtMost /\ Exactly

-----------------------------------------------------------------------------
(* Sequences of distinct markers.                                          *)

LEMMA AppendMarkers ==
    ASSUME NEW S, NEW s \in Seq(S), NEW m \in S
    PROVE  /\ Append(s, m) \in Seq(S) /\ Append(s, m) # <<>>
           /\ ToSetOf(Append(s, m)) = ToSetOf(s) \cup {m}
           /\ Len(Append(s, m)) = Len(s) + 1
<1> DEFINE a == Append(s, m)
<1>1. /\ a \in Seq(S) /\ Len(a) = Len(s) + 1 /\ a[Len(s) + 1] = m
      /\ \A i \in 1 .. Len(s) : a[i] = s[i]
  OBVIOUS
<1>2. DOMAIN a = 1 .. Len(a) /\ DOMAIN s = 1 .. Len(s) /\ Len(s) \in Nat
  BY <1>1
<1> HIDE DEF a
<1>3. \A i \in 1 .. Len(a) : i = Len(s) + 1 \/ i \in 1 .. Len(s)
  BY <1>1, <1>2
<1>4. Len(s) + 1 \in DOMAIN a /\ \A i \in DOMAIN s : i \in DOMAIN a
  BY <1>1, <1>2
<1>5. ToSetOf(a) = ToSetOf(s) \cup {m}
  BY <1>1, <1>2, <1>3, <1>4 DEF ToSetOf
<1> QED BY <1>1, <1>5 DEF a

LEMMA AppendDistinct ==
    ASSUME NEW S, NEW s \in Seq(S), NEW m \in S, m \notin ToSetOf(s),
           \A i, j \in DOMAIN s : s[i] = s[j] => i = j
    PROVE  \A i, j \in DOMAIN Append(s, m) : Append(s, m)[i] = Append(s, m)[j] => i = j
<1> DEFINE a == Append(s, m)
<1>1. /\ Len(a) = Len(s) + 1 /\ a[Len(s) + 1] = m
      /\ \A i \in 1 .. Len(s) : a[i] = s[i]
      /\ DOMAIN a = 1 .. Len(s) + 1 /\ DOMAIN s = 1 .. Len(s) /\ Len(s) \in Nat
  OBVIOUS
<1> HIDE DEF a
<1>2. \A i \in DOMAIN a : i = Len(s) + 1 \/ i \in DOMAIN s
  BY <1>1
<1>3. \A i \in DOMAIN s : a[i] # m
  BY <1>1 DEF ToSetOf
<1>4. \A i, j \in DOMAIN a : a[i] = a[j] => i = j
  BY <1>1, <1>2, <1>3
<1> QED BY <1>4 DEF a

LEMMA EmptySequence ==
    ASSUME NEW S, NEW s \in Seq(S), Len(s) = 0
    PROVE  s = <<>>
<1>1. s # <<>> => Len(s) \in Nat \ {0}
  BY EmptySeq
<1> QED BY <1>1

LEMMA ShortSequence ==
    ASSUME NEW S, NEW s \in Seq(S), Len(s) <= 1
    PROVE  s = <<>> \/ (s = <<s[1]>> /\ DOMAIN s = {1})
<1>1. Len(s) = 0 \/ Len(s) = 1
  <2>1. Len(s) \in Nat
    BY LenProperties
  <2>2. \A n \in Nat : n <= 1 => n = 0 \/ n = 1
    OBVIOUS
  <2> QED BY <2>1, <2>2, Zenon
<1>2. CASE Len(s) = 0
  BY <1>2, EmptySequence
<1>3. CASE Len(s) = 1
  BY <1>3
<1> QED BY <1>1, <1>2, <1>3

LEMMA PopMarkers ==
    ASSUME NEW S, NEW s \in Seq(S), s # <<>>,
           \A i, j \in DOMAIN s : s[i] = s[j] => i = j
    PROVE  LET p == SubSeq(s, 1, Len(s) - 1)
               m == s[Len(s)]
           IN /\ p \in Seq(S) /\ m \in S /\ Len(p) = Len(s) - 1
              /\ m \in ToSetOf(s) /\ m \notin ToSetOf(p)
              /\ ToSetOf(s) = ToSetOf(p) \cup {m}
              /\ \A i, j \in DOMAIN p : p[i] = p[j] => i = j
<1> DEFINE p == SubSeq(s, 1, Len(s) - 1)
           m == s[Len(s)]
<1>1. Len(s) \in Nat \ {0} /\ DOMAIN s = 1 .. Len(s)
  OBVIOUS
<1>2. p \in Seq(S) /\ Len(p) = Len(s) - 1 /\ DOMAIN p = 1 .. Len(s) - 1
      /\ \A i \in 1 .. Len(s) - 1 : p[i] = s[i]
  BY <1>1
<1>3. m \in S
  BY <1>1
<1> HIDE DEF p
<1>4. Len(s) \in DOMAIN s /\ \A i \in DOMAIN p : i \in DOMAIN s /\ i # Len(s)
  BY <1>1, <1>2
<1>5. \A i \in DOMAIN s : i = Len(s) \/ i \in DOMAIN p
  BY <1>1, <1>2
<1>6. \A i \in DOMAIN p : p[i] = s[i]
  BY <1>2
<1>7. m \in ToSetOf(s) /\ m \notin ToSetOf(p) /\ ToSetOf(s) = ToSetOf(p) \cup {m}
  BY <1>4, <1>5, <1>6 DEF ToSetOf
<1>8. \A i, j \in DOMAIN p : p[i] = p[j] => i = j
  BY <1>4, <1>6
<1> QED BY <1>2, <1>3, <1>7, <1>8 DEF p

-----------------------------------------------------------------------------
(* The steps.                                                              *)

LEMMA InitInv == Init => IInv
<1> SUFFICES ASSUME Init PROVE IInv OBVIOUS
<1> USE DEF Init, Registry!Init
<1>1. TypeOK
  <2>1. <<>> \in Seq(Markers)
    OBVIOUS
  <2>2. 0 \in 0 .. MaxClock
    BY ClockAssumption
  <2> QED BY <2>1, <2>2 DEF TypeOK, Zero, Unset
<1>2. \A t \in Threads : ~Served(t) /\ open[t] = <<>> /\ pc[t] = "out" /\ t \notin pending
  BY DEF Served, Slots
<1>3. \A t \in Threads : ToSetOf(open[t]) = {} /\ Len(open[t]) = 0
  BY <1>2 DEF ToSetOf
<1>4. SlotInv
  BY <1>2 DEF SlotInv, Served
<1>5. CallInv /\ ClockInv /\ UnusedInv
  BY <1>2 DEF CallInv, ClockInv, UnusedInv, Zero
<1>6. \A t \in Threads, m \in Markers : Charged(t, m) = 0 /\ Due(t, m) = 0 /\ inside[t][m] = 0
  BY <1>2, <1>3 DEF Charged, Due, Served
<1>7. AtMost /\ Exactly
  BY <1>2, <1>3, <1>6 DEF AtMost, Exactly
<1> QED BY <1>1, <1>4, <1>5, <1>7 DEF IInv

LEMMA ClockFacts ==
    ASSUME TypeOK
    PROVE  clock \in Nat /\ \A t \in Threads : now[t] \in Nat /\
           \A m \in Markers : /\ inside[t][m] \in Nat
                              /\ \A i \in Slots : timers_accum[m][i] \in Nat /\ start_times[i] \in Nat
BY ClockAssumption DEF TypeOK

LEMMA InitializeInv ==
    ASSUME IInv, Initialize
    PROVE  IInv'
<1> USE DEF IInv, Initialize, slotVars
<1>1. TypeOK'
  BY DEF TypeOK, Zero, Unset
<1>2. SlotInv' /\ CallInv' /\ ClockInv' /\ UnusedInv'
  BY DEF SlotInv, CallInv, ClockInv, UnusedInv, Served, Zero
<1>3. \A t \in Threads : ToSetOf(open[t]) = {} /\ pc[t] = "out" /\ open[t] = <<>>
  BY DEF CallInv, ToSetOf
<1>4. \A t \in Threads, m \in Markers : Charged(t, m)' = 0 /\ Due(t, m)' = 0 /\ inside'[t][m] = 0
  BY <1>3 DEF Charged, Due, Zero
<1>5. AtMost' /\ Exactly'
  BY <1>3, <1>4 DEF AtMost, Exactly
<1> QED BY <1>1, <1>2, <1>5

LEMMA StartMarker ==
    ASSUME IInv, NEW t \in Threads, MarkerStart(t)
    PROVE  IInv'
<1> USE DEF MarkerStart, Registry!Begin, timerVars
<1>1. PICK m \in Markers \ ToSetOf(open[t]) : marker' = [marker EXCEPT ![t] = m]
  OBVIOUS
<1>2. /\ pc' = [pc EXCEPT ![t] = "start"] /\ pending' = pending \cup {t}
      /\ pc[t] = "out" /\ t \notin pending
      /\ UNCHANGED <<table, answer, timers_accum, start_times, clock, up, now, open, inside>>
  OBVIOUS
<1>3. TypeOK'
  BY <1>1, <1>2 DEF IInv, TypeOK
<1>4. SlotInv'
  BY <1>2 DEF IInv, SlotInv
<1>5. CallInv'
  <2>1. m \in Markers /\ marker'[t] = m /\ pc'[t] = "start" /\ t \in pending'
    BY <1>1, <1>2 DEF IInv, TypeOK
  <2>2. \A u \in Threads \ {t} : /\ marker'[u] = marker[u] /\ pc'[u] = pc[u]
                                 /\ u \in pending' <=> u \in pending
    BY <1>1, <1>2 DEF IInv, TypeOK
  <2>3. up
    BY DEF MarkerStart
  <2> QED BY <1>1, <1>2, <2>1, <2>2, <2>3 DEF IInv, CallInv, Served
<1>9. ClockInv' /\ UnusedInv'
  <2>1. \A u \in Threads : pc'[u] = "stop" => pc[u] = "stop"
    BY <1>2 DEF IInv, TypeOK
  <2> QED BY <1>2, <2>1 DEF IInv, ClockInv, UnusedInv
<1>6. \A u \in Threads, x \in Markers : Charged(u, x)' = Charged(u, x) /\ Due(u, x)' = Due(u, x)
  BY <1>1, <1>2 DEF IInv, TypeOK, Charged, Due
<1>7. AtMost'
  BY <1>2, <1>6 DEF IInv, AtMost
<1>8. Exactly'
  BY <1>2, <1>6 DEF IInv, TypeOK, Exactly
<1> QED BY <1>3, <1>4, <1>5, <1>7, <1>8, <1>9 DEF IInv

LEMMA FindOrInsertInv ==
    ASSUME IInv, NEW t \in Threads, FindOrInsert(t)
    PROVE  IInv'
<1> USE DEF timerVars
<1>1. PICK i \in Slots :
        /\ t \in pending /\ pending' = pending \ {t} /\ answer' = [answer EXCEPT ![t] = i]
        /\ \/ <<i, t>> \in table /\ table' = table
           \/ /\ \A e \in table : e[2] # t /\ e[1] # i
              /\ table' = table \cup {<<i, t>>}
  <2>1. CASE Registry!Known(t)
    <3>1. PICK e \in table : e[2] = t /\ Registry!Reply(t, e[1]) /\ table' = table
      BY <2>1 DEF Registry!Known, Registry!SlotsOf
    <3>2. e[1] \in Slots /\ e = <<e[1], t>>
      BY <3>1 DEF IInv, TypeOK
    <3> QED BY <3>1, <3>2 DEF Registry!Reply
  <2>2. CASE Registry!Grant(t)
    BY <2>2 DEF Registry!Grant, Registry!SlotsOf, Registry!Reply, Slots
  <2> QED BY <2>1, <2>2 DEF FindOrInsert
<1>2. UNCHANGED <<start_times, timers_accum, timers_accum_flag, clock, up, total, pc, marker, now, open, inside>>
  BY DEF FindOrInsert
<1>3. TypeOK'
  BY <1>1, <1>2 DEF IInv, TypeOK
<1>4. SlotInv'
  <2>1. CASE <<i, t>> \in table
    <3>1. answer[t] = i
      BY <2>1 DEF IInv, SlotInv
    <3>2. answer' = answer /\ table' = table
      BY <1>1, <2>1, <3>1 DEF IInv, TypeOK
    <3> QED BY <3>2 DEF IInv, SlotInv
  <2>2. CASE <<i, t>> \notin table
    <3>1. /\ \A e \in table : e[2] # t /\ e[1] # i
          /\ table' = table \cup {<<i, t>>} /\ answer'[t] = i
          /\ \A u \in Threads \ {t} : answer'[u] = answer[u]
      BY <1>1, <2>2 DEF IInv, TypeOK
    <3>2. \A e \in table : e[2] \in Threads \ {t}
      BY <3>1 DEF IInv, TypeOK
    <3> QED BY <3>1, <3>2 DEF IInv, SlotInv
  <2> QED BY <2>1, <2>2
<1>5. Served(t) => answer' = answer
  BY <1>1 DEF IInv, TypeOK, SlotInv, Served
<1>6. CallInv'
  BY <1>1, <1>2, <1>5 DEF IInv, TypeOK, CallInv, Served
<1>7. ClockInv' /\ UnusedInv'
  <2>1. pc[t] = "stop" => Served(t)
    BY DEF IInv, CallInv
  <2> QED BY <1>1, <1>2, <1>5, <2>1 DEF IInv, TypeOK, ClockInv, UnusedInv
<1>8. \A u \in Threads, m \in Markers : Charged(u, m)' = Charged(u, m) /\ Due(u, m)' = Due(u, m)
  <2>1. ASSUME NEW u \in Threads, answer'[u] = answer[u], NEW m \in Markers
        PROVE  Charged(u, m)' = Charged(u, m) /\ Due(u, m)' = Due(u, m)
    BY <1>2, <2>1 DEF Charged, Due
  <2>2. \A u \in Threads \ {t} : answer'[u] = answer[u]
    BY <1>1 DEF IInv, TypeOK
  <2>3. CASE Served(t)
    BY <1>5, <2>1, <2>2, <2>3
  <2>4. CASE ~Served(t)
    <3>1. open[t] = <<>> /\ pc[t] # "stop"
      BY <2>4 DEF IInv, CallInv
    <3>2. ToSetOf(open[t]) = {}
      BY <3>1 DEF ToSetOf
    <3>3. \A m \in Markers : Due(t, m) = 0 /\ Due(t, m)' = 0
      BY <1>2, <3>1, <3>2 DEF Due
    <3>4. answer'[t] = i /\ \A e \in table : e[1] # i
      BY <1>1, <2>4 DEF IInv, TypeOK, SlotInv, Served
    <3>5. \A m \in Markers : Charged(t, m) = 0 /\ Charged(t, m)' = 0
      BY <1>2, <2>4, <3>4 DEF IInv, UnusedInv, Charged, Served
    <3> QED BY <2>1, <2>2, <3>3, <3>5
  <2> QED BY <2>3, <2>4
<1>9. AtMost' /\ Exactly'
  BY <1>2, <1>8 DEF IInv, AtMost, Exactly
<1> QED BY <1>3, <1>4, <1>6, <1>7, <1>9 DEF IInv

\* Threads that got a slot have slots of their own.
LEMMA OwnSlot ==
    ASSUME IInv, NEW t \in Threads, NEW u \in Threads \ {t}, Served(t)
    PROVE  answer[u] # answer[t]
BY DEF IInv, SlotInv, Served

LEMMA DueNat ==
    ASSUME IInv, NEW t \in Threads, NEW m \in Markers
    PROVE  Due(t, m) \in Nat /\ Charged(t, m) \in Nat /\ (Due(t, m) # 0 => Served(t))
<1>1. ToSetOf(open[t]) # {} => open[t] # <<>>
  BY DEF ToSetOf
<1>2. open[t] # <<>> \/ pc[t] = "stop" => answer[t] \in Slots
  BY DEF IInv, CallInv, Served
<1>3. clock \in Nat /\ now[t] \in Nat /\ \A i \in Slots : start_times[i] \in Nat
  BY ClockFacts DEF IInv
<1>4. CASE m \in ToSetOf(open[t])
  BY <1>1, <1>2, <1>3, <1>4, ClockFacts DEF IInv, ClockInv, Due, Charged, Served
<1>5. CASE m \notin ToSetOf(open[t]) /\ pc[t] = "stop" /\ marker[t] = m
  BY <1>2, <1>3, <1>5, ClockFacts DEF IInv, ClockInv, Due, Charged, Served
<1>6. CASE m \notin ToSetOf(open[t]) /\ ~(pc[t] = "stop" /\ marker[t] = m)
  BY <1>6, ClockFacts DEF IInv, Due, Charged
<1> QED BY <1>4, <1>5, <1>6

LEMMA StoreStartInv ==
    ASSUME IInv, NEW t \in Threads, StoreStart(t)
    PROVE  IInv'
<1> USE DEF slotVars
<1> DEFINE s == answer[t]
           m == marker[t]
<1>1. /\ pc[t] = "start" /\ t \notin pending /\ s \in Slots /\ m \in Markers
      /\ m \notin ToSetOf(open[t]) /\ open[t] \in Seq(Markers) /\ Served(t) /\ up
  BY DEF StoreStart, IInv, TypeOK, CallInv, Served
<1>2. /\ start_times' = [start_times EXCEPT ![s] = clock]
      /\ open' = [open EXCEPT ![t] = Append(@, m)]
      /\ pc' = [pc EXCEPT ![t] = "out"] /\ marker' = [marker EXCEPT ![t] = NoMarker]
      /\ UNCHANGED <<table, pending, answer, timers_accum, timers_accum_flag, clock, up, total, now, inside>>
  BY DEF StoreStart, Leave
<1>3. /\ open'[t] \in Seq(Markers) /\ open'[t] # <<>> /\ Len(open'[t]) = Len(open[t]) + 1
      /\ ToSetOf(open'[t]) = ToSetOf(open[t]) \cup {m}
      /\ \A i, j \in DOMAIN open'[t] : open'[t][i] = open'[t][j] => i = j
  <2>1. open'[t] = Append(open[t], m)
    BY <1>2 DEF IInv, TypeOK
  <2>2. \A i, j \in DOMAIN open[t] : open[t][i] = open[t][j] => i = j
    BY DEF IInv, CallInv
  <2> QED BY <1>1, <2>1, <2>2, AppendMarkers, AppendDistinct
<1>4. \A u \in Threads \ {t} : /\ open'[u] = open[u] /\ pc'[u] = pc[u] /\ marker'[u] = marker[u]
                               /\ Served(u) => start_times'[answer[u]] = start_times[answer[u]]
  BY <1>1, <1>2, OwnSlot DEF IInv, TypeOK, Served
<1>5. pc'[t] = "out" /\ marker'[t] = NoMarker /\ start_times'[s] = clock
  BY <1>1, <1>2 DEF IInv, TypeOK
<1>6. TypeOK'
  <2>1. open' \in [Threads -> Seq(Markers)]
    BY <1>2, <1>3, <1>4 DEF IInv, TypeOK
  <2>2. start_times' \in [Slots -> Nat]
    BY <1>1, <1>2, ClockFacts DEF IInv, TypeOK
  <2> QED BY <1>2, <2>1, <2>2 DEF IInv, TypeOK
<1>7. SlotInv' /\ UnusedInv'
  BY <1>2 DEF IInv, SlotInv, UnusedInv
<1>8. CallInv'
  BY <1>1, <1>2, <1>3, <1>4, <1>5 DEF IInv, CallInv, Served
<1>9. ClockInv'
  <2>1. \A i \in Slots : start_times'[i] = clock \/ start_times'[i] = start_times[i]
    BY <1>1, <1>2 DEF IInv, TypeOK
  <2>2. clock \in Nat
    BY ClockFacts DEF IInv
  <2>3. \A u \in Threads : pc'[u] = "stop" => start_times'[answer[u]] <= now[u]
    BY <1>4, <1>5 DEF IInv, CallInv, ClockInv
  <2> QED BY <1>2, <2>1, <2>2, <2>3 DEF IInv, ClockInv
<1>10. \A u \in Threads \ {t}, x \in Markers : Charged(u, x)' = Charged(u, x) /\ Due(u, x)' = Due(u, x)
  <2>1. ASSUME NEW u \in Threads \ {t}, NEW x \in Markers
        PROVE  Charged(u, x)' = Charged(u, x) /\ Due(u, x)' = Due(u, x)
    <3>1. Charged(u, x)' = Charged(u, x)
      BY <1>2 DEF Charged
    <3>2. CASE Served(u)
      BY <1>2, <1>4, <3>1, <3>2 DEF Due
    <3>3. CASE ~Served(u)
      <4>1. open[u] = <<>> /\ pc[u] # "stop"
        BY <3>3 DEF IInv, CallInv
      <4>2. ToSetOf(open[u]) = {}
        BY <4>1 DEF ToSetOf
      <4> QED BY <1>4, <3>1, <4>1, <4>2 DEF Due
    <3> QED BY <3>2, <3>3
  <2> QED BY <2>1
<1>11. \A x \in Markers : Charged(t, x)' = Charged(t, x) /\ Due(t, x)' = 0
  BY <1>1, <1>2, <1>5, ClockFacts DEF Charged, Due, IInv
<1>12. AtMost'
  <2>1. ASSUME NEW x \in Markers PROVE Charged(t, x)' + Due(t, x)' <= inside'[t][x]
    <3>1. Charged(t, x) + Due(t, x) <= inside[t][x] /\ inside[t][x] \in Nat
      BY ClockFacts DEF IInv, AtMost
    <3> QED BY <1>2, <1>11, <3>1, DueNat
  <2> QED BY <1>2, <1>10, <2>1 DEF IInv, AtMost
<1>13. Exactly'
  <2>1. ASSUME t \notin Nesters
        PROVE  Len(open'[t]) <= 1 /\ \A x \in Markers : Charged(t, x)' + Due(t, x)' = inside'[t][x]
    <3>1. open[t] = <<>> /\ \A x \in Markers : Charged(t, x) + Due(t, x) = inside[t][x]
      BY <1>1, <2>1 DEF IInv, Exactly
    <3>2. ToSetOf(open[t]) = {} /\ Len(open[t]) = 0
      BY <3>1 DEF ToSetOf
    <3>3. \A x \in Markers : Due(t, x) = 0
      BY <1>1, <3>2 DEF Due
    <3> QED BY <1>2, <1>3, <1>11, <3>1, <3>2, <3>3
  <2> QED BY <1>2, <1>4, <1>5, <1>10, <2>1 DEF IInv, Exactly
<1> QED BY <1>6, <1>7, <1>8, <1>9, <1>12, <1>13 DEF IInv

LEMMA MarkerStopInv ==
    ASSUME IInv, NEW t \in Threads, MarkerStop(t)
    PROVE  IInv'
<1> USE DEF timerVars
<1> DEFINE m == open[t][Len(open[t])]
           p == SubSeq(open[t], 1, Len(open[t]) - 1)
<1>1. /\ pc[t] = "out" /\ open[t] # <<>> /\ t \notin pending /\ Served(t) /\ up
      /\ now' = [now EXCEPT ![t] = clock] /\ marker' = [marker EXCEPT ![t] = m]
      /\ open' = [open EXCEPT ![t] = p] /\ pending' = pending \cup {t}
      /\ pc' = [pc EXCEPT ![t] = "stop"]
      /\ UNCHANGED <<table, answer, start_times, timers_accum, timers_accum_flag, clock, up, total, inside>>
  BY DEF MarkerStop, Registry!Begin, IInv, TypeOK, CallInv
<1>2. /\ p \in Seq(Markers) /\ m \in Markers /\ Len(p) = Len(open[t]) - 1
      /\ m \in ToSetOf(open[t]) /\ m \notin ToSetOf(p)
      /\ ToSetOf(open[t]) = ToSetOf(p) \cup {m}
      /\ \A i, j \in DOMAIN p : p[i] = p[j] => i = j
  <2>1. \A i, j \in DOMAIN open[t] : open[t][i] = open[t][j] => i = j
    BY DEF IInv, CallInv
  <2>2. open[t] \in Seq(Markers)
    BY DEF IInv, TypeOK
  <2> QED BY <1>1, <2>1, <2>2, PopMarkers
<1> HIDE DEF m, p
<1>3. open'[t] = p /\ marker'[t] = m /\ now'[t] = clock /\ pc'[t] = "stop" /\ t \in pending'
  BY <1>1 DEF IInv, TypeOK
<1>4. \A u \in Threads \ {t} : /\ open'[u] = open[u] /\ marker'[u] = marker[u] /\ now'[u] = now[u]
                               /\ pc'[u] = pc[u] /\ (u \in pending' <=> u \in pending)
  BY <1>1 DEF IInv, TypeOK
<1>5. TypeOK'
  <2>1. now' \in [Threads -> Nat]
    BY <1>1, ClockFacts DEF IInv, TypeOK
  <2> QED BY <1>1, <1>2, <2>1 DEF IInv, TypeOK
<1>6. SlotInv' /\ UnusedInv'
  BY <1>1 DEF IInv, SlotInv, UnusedInv
<1>7. CallInv'
  BY <1>1, <1>2, <1>3, <1>4 DEF IInv, CallInv, Served
<1>8. ClockInv'
  <2>1. start_times[answer[t]] <= clock
    BY <1>1 DEF IInv, ClockInv, Served
  <2> QED BY <1>1, <1>3, <1>4, <2>1 DEF IInv, ClockInv
<1>9. \A u \in Threads, x \in Markers : Charged(u, x)' = Charged(u, x)
  BY <1>1 DEF Charged
<1>10. \A u \in Threads, x \in Markers : Due(u, x)' = Due(u, x)
  <2>1. ASSUME NEW x \in Markers PROVE Due(t, x)' = Due(t, x)
    BY <1>1, <1>2, <1>3 DEF Due
  <2> QED BY <1>1, <1>4, <2>1 DEF Due
<1>11. AtMost'
  BY <1>1, <1>9, <1>10 DEF IInv, AtMost
<1>12. Exactly'
  <2>1. ASSUME t \notin Nesters PROVE Len(p) <= 1 /\ p = <<>>
    <3>1. Len(open[t]) <= 1 /\ Len(open[t]) \in Nat
      BY <2>1 DEF IInv, TypeOK, Exactly
    <3>2. Len(p) \in Nat
      BY <1>2
    <3>3. Len(p) = Len(open[t]) - 1
      BY <1>2
    <3>4. Len(p) = 0
      BY <3>1, <3>2, <3>3, <1>1, EmptySeq DEF IInv, TypeOK
    <3>5. p \in Seq(Markers)
      BY <1>2
    <3>6. p = <<>>
      BY <3>4, <3>5, EmptySequence, Zenon
    <3> QED BY <3>4, <3>6
  <2> QED BY <1>1, <1>3, <1>4, <1>9, <1>10, <2>1 DEF IInv, Exactly
<1> QED BY <1>5, <1>6, <1>7, <1>8, <1>11, <1>12 DEF IInv

LEMMA StoreStopInv ==
    ASSUME IInv, NEW t \in Threads, StoreStop(t)
    PROVE  IInv'
<1> USE DEF slotVars
<1> DEFINE s == answer[t]
           m == marker[t]
           d == now[t] - start_times[s]
<1>1. /\ pc[t] = "stop" /\ t \notin pending /\ s \in Slots /\ m \in Markers /\ Served(t) /\ up
      /\ m \notin ToSetOf(open[t])
  BY DEF StoreStop, IInv, TypeOK, CallInv, Served
<1>2. /\ timers_accum' = [timers_accum EXCEPT ![m][s] = @ + d]
      /\ timers_accum_flag' = [timers_accum_flag EXCEPT ![m][s] = TRUE]
      /\ now' = [now EXCEPT ![t] = 0]
      /\ pc' = [pc EXCEPT ![t] = "out"] /\ marker' = [marker EXCEPT ![t] = NoMarker]
      /\ UNCHANGED <<table, pending, answer, start_times, clock, up, total, open, inside>>
  BY DEF StoreStop, Leave
<1>3. d \in Nat
  BY <1>1, ClockFacts DEF IInv, ClockInv
<1> HIDE DEF d
<1>4. /\ timers_accum' \in [Markers -> [Slots -> Nat]]
      /\ timers_accum'[m][s] = timers_accum[m][s] + d
      /\ \A x \in Markers, i \in Slots : x # m \/ i # s => timers_accum'[x][i] = timers_accum[x][i]
  <2>1. timers_accum \in [Markers -> [Slots -> Nat]]
    BY DEF IInv, TypeOK
  <2> HIDE DEF m, s
  <2> QED BY <1>1, <1>2, <1>3, <2>1
<1>5. pc'[t] = "out" /\ marker'[t] = NoMarker
      /\ \A u \in Threads \ {t} : pc'[u] = pc[u] /\ marker'[u] = marker[u] /\ now'[u] = now[u]
  BY <1>2 DEF IInv, TypeOK
<1>6. TypeOK'
  <2>1. timers_accum_flag' \in [Markers -> [Slots -> BOOLEAN]]
    BY <1>1, <1>2 DEF IInv, TypeOK
  <2>2. now' \in [Threads -> Nat]
    BY <1>2 DEF IInv, TypeOK
  <2> QED BY <1>2, <1>4, <2>1, <2>2 DEF IInv, TypeOK
<1>7. SlotInv'
  BY <1>2 DEF IInv, SlotInv
<1>8. CallInv'
  BY <1>1, <1>2, <1>5 DEF IInv, CallInv, Served
<1>9. ClockInv'
  BY <1>2, <1>5 DEF IInv, ClockInv
<1>10. UnusedInv'
  <2>1. <<s, t>> \in table
    BY <1>1 DEF IInv, SlotInv, Served
  <2>2. \A i \in Slots : (\A e \in table : e[1] # i) => i # s
    BY <2>1
  <2> QED BY <1>2, <1>4, <2>2 DEF IInv, UnusedInv
<1>11. \A u \in Threads \ {t}, x \in Markers : Charged(u, x)' = Charged(u, x) /\ Due(u, x)' = Due(u, x)
  <2>1. \A u \in Threads \ {t} : answer[u] # s
    BY <1>1, OwnSlot
  <2>2. \A u \in Threads \ {t}, x \in Markers : Charged(u, x)' = Charged(u, x)
    BY <1>2, <1>4, <2>1 DEF Charged
  <2>3. \A u \in Threads \ {t}, x \in Markers : Due(u, x)' = Due(u, x)
    BY <1>2, <1>5 DEF Due
  <2> QED BY <2>2, <2>3
<1>12. \A x \in Markers : Charged(t, x)' + Due(t, x)' = Charged(t, x) + Due(t, x)
  <2>1. ASSUME NEW x \in Markers, x = m PROVE Charged(t, x)' + Due(t, x)' = Charged(t, x) + Due(t, x)
    <3>1. Due(t, x) = d /\ Due(t, x)' = 0
      BY <1>1, <1>2, <1>5, <2>1 DEF Due, d
    <3>2. Charged(t, x)' = Charged(t, x) + d
      BY <1>1, <1>2, <1>4, <2>1 DEF Charged, Served
    <3> QED BY <1>3, <3>1, <3>2, DueNat
  <2>2. ASSUME NEW x \in Markers, x # m PROVE Charged(t, x)' + Due(t, x)' = Charged(t, x) + Due(t, x)
    <3>1. Due(t, x)' = Due(t, x)
      BY <1>1, <1>2, <1>5, <2>2 DEF Due
    <3>2. Charged(t, x)' = Charged(t, x)
      BY <1>1, <1>2, <1>4, <2>2 DEF Charged, Served
    <3> QED BY <3>1, <3>2
  <2> QED BY <2>1, <2>2
<1>13. AtMost'
  BY <1>2, <1>11, <1>12 DEF IInv, AtMost
<1>14. Exactly'
  BY <1>2, <1>5, <1>11, <1>12 DEF IInv, Exactly
<1> QED BY <1>6, <1>7, <1>8, <1>9, <1>10, <1>13, <1>14 DEF IInv

LEMMA TickInv ==
    ASSUME IInv, Tick
    PROVE  IInv'
<1> USE DEF slotVars, timerVars
<1>1. /\ clock' = clock + 1 /\ clock' \in 0 .. MaxClock
      /\ inside' = [t \in Threads |-> [m \in Markers |->
                       inside[t][m] + IF m \in ToSetOf(open[t]) THEN 1 ELSE 0]]
      /\ UNCHANGED <<table, pending, answer, start_times, timers_accum, timers_accum_flag, up, total,
                     pc, marker, now, open>>
  BY ClockAssumption DEF Tick, IInv, TypeOK
<1>2. \A t \in Threads, m \in Markers :
         inside'[t][m] = inside[t][m] + IF m \in ToSetOf(open[t]) THEN 1 ELSE 0
  BY <1>1
<1>3. TypeOK'
  <2>1. inside' \in [Threads -> [Markers -> Nat]]
    BY <1>1, ClockFacts DEF IInv
  <2> QED BY <1>1, <2>1 DEF IInv, TypeOK
<1>4. SlotInv' /\ CallInv' /\ UnusedInv'
  BY <1>1 DEF IInv, SlotInv, CallInv, UnusedInv, Served
<1>5. ClockInv'
  <2>1. clock \in Nat /\ \A i \in Slots : start_times[i] \in Nat /\ start_times[i] <= clock
    BY ClockFacts DEF IInv, TypeOK, ClockInv
  <2>2. \A i \in Slots : start_times[i] <= clock'
    BY <1>1, <2>1
  <2> QED BY <1>1, <2>2 DEF IInv, ClockInv
<1>6. \A t \in Threads, m \in Markers :
         /\ Charged(t, m)' = Charged(t, m)
         /\ Due(t, m)' = Due(t, m) + IF m \in ToSetOf(open[t]) THEN 1 ELSE 0
  <2>1. ASSUME NEW t \in Threads, NEW m \in Markers, m \in ToSetOf(open[t])
        PROVE  Due(t, m)' = Due(t, m) + 1
    <3>1. open[t] # <<>>
      BY <2>1 DEF ToSetOf
    <3>2. answer[t] \in Slots
      BY <3>1 DEF IInv, CallInv, Served
    <3>3. Due(t, m) = clock - start_times[answer[t]] /\ Due(t, m)' = clock' - start_times[answer[t]]
      BY <1>1, <2>1 DEF Due
    <3>4. clock \in Nat /\ start_times[answer[t]] \in Nat
      BY <3>2, ClockAssumption DEF IInv, TypeOK
    <3>5. clock' = clock + 1
      BY <1>1
    <3> QED BY <3>3, <3>4, <3>5
  <2>2. ASSUME NEW t \in Threads, NEW m \in Markers, m \notin ToSetOf(open[t])
        PROVE  Due(t, m)' = Due(t, m) + 0
    <3>1. Due(t, m)' = Due(t, m)
      BY <1>1, <2>2 DEF Due
    <3> QED BY <3>1, DueNat
  <2> QED BY <1>1, <2>1, <2>2 DEF Charged
<1>7. \A t \in Threads, m \in Markers :
         /\ Charged(t, m) \in Nat /\ Due(t, m) \in Nat /\ inside[t][m] \in Nat
  BY DueNat, ClockFacts DEF IInv
<1>8. AtMost'
  <2>1. ASSUME NEW t \in Threads, NEW m \in Markers
        PROVE  Charged(t, m)' + Due(t, m)' <= inside'[t][m]
    <3>1. Charged(t, m) + Due(t, m) <= inside[t][m]
      BY DEF IInv, AtMost
    <3> QED BY <1>2, <1>6, <1>7, <3>1
  <2> QED BY <2>1 DEF AtMost
<1>9. Exactly'
  <2>1. ASSUME NEW t \in Threads \ Nesters, NEW m \in Markers
        PROVE  Charged(t, m)' + Due(t, m)' = inside'[t][m]
    <3>1. Charged(t, m) + Due(t, m) = inside[t][m]
      BY DEF IInv, Exactly
    <3> QED BY <1>2, <1>6, <1>7, <3>1
  <2> QED BY <1>1, <2>1 DEF IInv, Exactly
<1> QED BY <1>3, <1>4, <1>5, <1>8, <1>9 DEF IInv

\* The rest changes nothing that the invariant speaks of, but up.
LEMMA ShutdownInv ==
    ASSUME IInv, Shutdown
    PROVE  IInv'
<1>1. /\ \A t \in Threads : pc[t] = "out" /\ open[t] = <<>>
      /\ up' = FALSE
      /\ UNCHANGED <<table, pending, answer, start_times, timers_accum, timers_accum_flag, clock,
                     pc, marker, now, open, inside>>
  BY DEF Shutdown, slotVars, timerVars
<1>2. TypeOK' /\ SlotInv' /\ ClockInv' /\ UnusedInv'
  BY <1>1 DEF IInv, TypeOK, SlotInv, ClockInv, UnusedInv
<1>3. CallInv'
  BY <1>1 DEF IInv, CallInv, Served
<1>4. \A t \in Threads, m \in Markers : Charged(t, m)' = Charged(t, m) /\ Due(t, m)' = Due(t, m)
  BY <1>1 DEF Charged, Due
<1>5. AtMost' /\ Exactly'
  BY <1>1, <1>4 DEF IInv, AtMost, Exactly
<1> QED BY <1>2, <1>3, <1>5 DEF IInv

LEMMA StutterInv ==
    ASSUME IInv, UNCHANGED vars
    PROVE  IInv'
<1>1. UNCHANGED <<table, pending, answer, start_times, timers_accum, timers_accum_flag, clock, up,
                  pc, marker, now, open, inside>>
  BY DEF vars, slotVars, timerVars
<1>2. TypeOK' /\ SlotInv' /\ CallInv' /\ ClockInv' /\ UnusedInv'
  BY <1>1 DEF IInv, TypeOK, SlotInv, CallInv, ClockInv, UnusedInv, Served
<1>3. \A t \in Threads, m \in Markers : Charged(t, m)' = Charged(t, m) /\ Due(t, m)' = Due(t, m)
  BY <1>1 DEF Charged, Due
<1>4. AtMost' /\ Exactly'
  BY <1>1, <1>3 DEF IInv, AtMost, Exactly
<1> QED BY <1>2, <1>4 DEF IInv

LEMMA NextInv == IInv /\ [Next]_vars => IInv'
<1> SUFFICES ASSUME IInv, [Next]_vars PROVE IInv' OBVIOUS
<1>1. CASE Initialize      BY <1>1, InitializeInv
<1>2. CASE Shutdown        BY <1>2, ShutdownInv
<1>3. CASE Tick            BY <1>3, TickInv
<1>4. ASSUME NEW t \in Threads,
             MarkerStart(t) \/ FindOrInsert(t) \/ StoreStart(t) \/ MarkerStop(t) \/ StoreStop(t)
      PROVE  IInv'
  BY <1>4, StartMarker, FindOrInsertInv, StoreStartInv, MarkerStopInv, StoreStopInv
<1>5. CASE UNCHANGED vars  BY <1>5, StutterInv
<1> QED BY <1>1, <1>2, <1>3, <1>4, <1>5 DEF Next

\* At any number of threads, slots and markers, however their calls
\* interleave with each other and with the clock (time_api.c:60-95).
THEOREM TimerIInv == Spec => []IInv
<1>1. IInv /\ [Next]_vars => IInv'
  BY NextInv
<1> QED BY InitInv, <1>1, PTL DEF Spec

-----------------------------------------------------------------------------
\* Every variable of the backend but the printed total keeps its type; the
\* slot that a call of marker_start or marker_stop indexes the tables with is
\* that of the thread (time_api.c:60-95).
THEOREM TimerTypeCorrect == Spec => []TypeOK
BY TimerIInv, PTL DEF IInv

\* A marker is charged exactly the time its thread spent in it, and no more
\* when markers nest (time_api.c:60-95).
THEOREM ChargedRightThm == Spec => []ChargedRight
<1>1. IInv => ChargedExactly
  <2> SUFFICES ASSUME IInv, NEW t \in Threads \ Nesters, NEW m \in Markers, pc[t] # "stop"
               PROVE  Charged(t, m) + (IF open[t] = <<m>> THEN clock - start_times[answer[t]] ELSE 0)
                        = inside[t][m]
    BY DEF ChargedExactly
  <2>1. Charged(t, m) + Due(t, m) = inside[t][m] /\ Len(open[t]) <= 1 /\ open[t] \in Seq(Markers)
    BY DEF IInv, TypeOK, Exactly
  <2>2. m \in ToSetOf(open[t]) <=> open[t] = <<m>>
    <3>1. open[t] = <<>> \/ (open[t] = <<open[t][1]>> /\ DOMAIN open[t] = {1})
      BY <2>1, ShortSequence
    <3>2. CASE open[t] = <<>>
      BY <3>2 DEF ToSetOf
    <3>3. CASE open[t] = <<open[t][1]>> /\ DOMAIN open[t] = {1}
      <4>1. ToSetOf(open[t]) = {open[t][1]}
        BY <3>3 DEF ToSetOf
      <4>2. open[t] = <<m>> => open[t][1] = m
        OBVIOUS
      <4> QED BY <3>3, <4>1, <4>2
    <3> QED BY <3>1, <3>2, <3>3
  <2> QED BY <2>1, <2>2 DEF Due
<1>2. IInv => NeverOvercharged
  <2> SUFFICES ASSUME IInv, NEW t \in Threads, NEW m \in Markers
               PROVE  Charged(t, m) <= inside[t][m]
    BY DEF NeverOvercharged
  <2>1. Charged(t, m) + Due(t, m) <= inside[t][m]
    BY DEF IInv, AtMost
  <2> QED BY <2>1, DueNat, ClockFacts DEF IInv
<1> QED BY <1>1, <1>2, TimerIInv, PTL DEF ChargedRight

-----------------------------------------------------------------------------
(* The printed total.  A time that is not zero has its flag, so the        *)
(* maximum that the shutdown takes is over all of them.                    *)

FlagInv == \A m \in Markers, i \in Slots : timers_accum_flag[m][i] \/ timers_accum[m][i] = 0

LEMMA StepFlags ==
    ASSUME IInv, FlagInv, [Next]_vars
    PROVE  FlagInv'
<1>1. CASE Initialize
  BY <1>1 DEF Initialize, FlagInv, Zero
<1>2. ASSUME NEW t \in Threads, StoreStop(t) PROVE FlagInv'
  <2> DEFINE s == answer[t]
             k == marker[t]
             d == now[t] - start_times[s]
  <2>1. /\ timers_accum' = [timers_accum EXCEPT ![k][s] = @ + d]
        /\ timers_accum_flag' = [timers_accum_flag EXCEPT ![k][s] = TRUE]
        /\ s \in Slots /\ k \in Markers
    BY <1>2 DEF StoreStop, IInv, TypeOK, CallInv, Served
  <2>2. /\ timers_accum \in [Markers -> [Slots -> Nat]]
        /\ timers_accum_flag \in [Markers -> [Slots -> BOOLEAN]]
    BY DEF IInv, TypeOK
  <2> HIDE DEF d, s, k
  <2>3. timers_accum_flag'[k][s]
    BY <2>1, <2>2
  <2>4. ASSUME NEW m \in Markers, NEW i \in Slots, m # k \/ i # s
        PROVE  /\ timers_accum_flag'[m][i] = timers_accum_flag[m][i]
               /\ timers_accum'[m][i] = timers_accum[m][i]
    BY <2>1, <2>2, <2>4
  <2> QED BY <2>3, <2>4 DEF FlagInv
<1>3. UNCHANGED <<timers_accum, timers_accum_flag>> => FlagInv'
  BY DEF FlagInv
<1>4. UNCHANGED timerVars => FlagInv'
  BY <1>3 DEF timerVars
<1>5. CASE Shutdown        BY <1>4, <1>5 DEF Shutdown
<1>6. CASE Tick            BY <1>4, <1>6 DEF Tick
<1>7. ASSUME NEW t \in Threads, MarkerStart(t) \/ FindOrInsert(t) \/ MarkerStop(t)
      PROVE  FlagInv'
  BY <1>4, <1>7 DEF MarkerStart, FindOrInsert, MarkerStop
<1>8. ASSUME NEW t \in Threads, StoreStart(t) PROVE FlagInv'
  BY <1>3, <1>8 DEF StoreStart
<1>9. CASE UNCHANGED vars
  BY <1>4, <1>9 DEF vars
<1> QED BY <1>1, <1>2, <1>5, <1>6, <1>7, <1>8, <1>9 DEF Next

\* The time printed for a marker is that of a slot, and no slot has more.
LEMMA MaxTimeFacts ==
    ASSUME IInv, FlagInv, NEW m \in Markers
    PROVE  /\ MaxTime(m) \in Nat
           /\ \A i \in Slots : timers_accum[m][i] <= MaxTime(m)
           /\ MaxTime(m) = 0 \/ \E i \in Slots : MaxTime(m) = timers_accum[m][i]
<1> DEFINE times == {timers_accum[m][i] : i \in {j \in Slots : timers_accum_flag[m][j]}}
           all == {0} \cup times
<1>1. \A i \in Slots : timers_accum[m][i] \in Nat
  BY DEF IInv, TypeOK
<1>2. all \in SUBSET Nat /\ all # {}
  BY <1>1
<1>3. IsFiniteSet(all)
  <2>1. IsFiniteSet(Slots)
    BY RoomAssumption, FS_Interval DEF Slots
  <2> DEFINE used == {j \in Slots : timers_accum_flag[m][j]}
             time == [j \in used |-> timers_accum[m][j]]
  <2>2. IsFiniteSet(used)
    BY <2>1, FS_Subset
  <2>3. IsFiniteSet(times)
    <3>1. time \in [used -> times] /\ time \in Surjection(used, times)
      BY DEF Surjection
    <3> HIDE DEF used, times, time
    <3> QED BY <2>2, <3>1, FS_Surjection
  <2> HIDE DEF times
  <2> QED BY <2>3, FS_AddElement
<1>4. \A i \in Slots : timers_accum[m][i] \in all
  BY DEF FlagInv
<1>5. \A x \in all : x = 0 \/ \E i \in Slots : x = timers_accum[m][i]
  OBVIOUS
<1>6. MaxTime(m) = Max(all)
  BY DEF MaxTime
<1> HIDE DEF all, times
<1>7. Max(all) \in all /\ \A x \in all : Max(all) >= x
  BY <1>2, <1>3, MaxOfFinite
<1>8. MaxTime(m) \in Nat
  BY <1>2, <1>6, <1>7
<1>9. ASSUME NEW i \in Slots PROVE timers_accum[m][i] <= MaxTime(m)
  <2>1. MaxTime(m) >= timers_accum[m][i]
    BY <1>4, <1>6, <1>7
  <2> QED BY <1>1, <1>8, <2>1
<1> QED BY <1>5, <1>6, <1>7, <1>8, <1>9

\* When all markers are stopped the sum of the printed times is between what
\* any thread that does not nest spent, and what all spent together.
LEMMA TotalBetween ==
    ASSUME IInv, FlagInv, \A t \in Threads : pc[t] = "out" /\ open[t] = <<>>
    PROVE  LET largest == [m \in Markers |-> MaxTime(m)]
               spent == [t \in Threads |-> SumFunctionOnSet(inside[t], Markers)]
           IN  /\ \A t \in Threads \ Nesters : spent[t] <= SumFunctionOnSet(largest, Markers)
               /\ SumFunctionOnSet(largest, Markers) <= SumFunctionOnSet(spent, Threads)
<1> DEFINE largest == [m \in Markers |-> MaxTime(m)]
           spent == [t \in Threads |-> Sum(inside[t], Markers)]
           column == [m \in Markers |-> Sum([t \in Threads |-> inside[t][m]], Threads)]
<1>1. \A t \in Threads, m \in Markers :
         /\ inside[t][m] \in Nat /\ Charged(t, m) \in Nat
         /\ Charged(t, m) <= inside[t][m]
         /\ t \notin Nesters => Charged(t, m) = inside[t][m]
  <2> SUFFICES ASSUME NEW t \in Threads, NEW m \in Markers
               PROVE  /\ inside[t][m] \in Nat /\ Charged(t, m) \in Nat
                      /\ Charged(t, m) <= inside[t][m]
                      /\ t \notin Nesters => Charged(t, m) = inside[t][m]
    OBVIOUS
  <2>1. open[t] = <<>> /\ pc[t] = "out"
    OBVIOUS
  <2>2. ToSetOf(open[t]) = {}
    BY <2>1 DEF ToSetOf
  <2>3. Due(t, m) = 0
    BY <2>1, <2>2 DEF Due
  <2>4. Charged(t, m) \in Nat /\ inside[t][m] \in Nat
    BY DueNat, ClockFacts DEF IInv
  <2>5. Charged(t, m) + Due(t, m) <= inside[t][m]
    BY DEF IInv, AtMost
  <2>6. t \notin Nesters => Charged(t, m) + Due(t, m) = inside[t][m]
    BY DEF IInv, Exactly
  <2> QED BY <2>3, <2>4, <2>5, <2>6
<1>2. \A m \in Markers : largest[m] = MaxTime(m) /\ largest[m] \in Nat
  BY MaxTimeFacts
<1> HIDE DEF largest
<1>3. ASSUME NEW t \in Threads \ Nesters
      PROVE  Sum(inside[t], Markers) <= Sum(largest, Markers)
  <2>1. ASSUME NEW m \in Markers
        PROVE  inside[t][m] \in Nat /\ largest[m] \in Nat /\ inside[t][m] <= largest[m]
    <3>1. Charged(t, m) = 0 \/ \E i \in Slots : Charged(t, m) = timers_accum[m][i]
      BY DEF Charged
    <3>2. Charged(t, m) <= MaxTime(m)
      BY <1>2, <3>1, MaxTimeFacts
    <3> QED BY <1>1, <1>2, <3>2
  <2> QED BY <2>1, SumMonotone, ClockAssumption
<1>4. ASSUME NEW m \in Markers
      PROVE  /\ column[m] \in Nat /\ largest[m] \in Nat
             /\ largest[m] <= column[m]
  <2> DEFINE c == [t \in Threads |-> inside[t][m]]
  <2>1. \A t \in Threads : c[t] \in Nat /\ c[t] = inside[t][m]
    BY <1>1
  <2>2. column[m] = Sum(c, Threads)
    OBVIOUS
  <2> HIDE DEF c, column
  <2>3. Sum(c, Threads) \in Nat /\ \A t \in Threads : c[t] <= Sum(c, Threads)
    BY <2>1, SumRemove, SumMember, RoomAssumption
  <2>4. CASE MaxTime(m) = 0
    BY <1>2, <2>2, <2>3, <2>4
  <2>5. ASSUME NEW i \in Slots, MaxTime(m) = timers_accum[m][i], MaxTime(m) # 0
        PROVE  MaxTime(m) <= Sum(c, Threads)
    <3>1. PICK e \in table : e[1] = i
      BY <2>5 DEF IInv, UnusedInv
    <3>2. e[2] \in Threads /\ answer[e[2]] = i
      BY <3>1 DEF IInv, TypeOK, SlotInv
    <3>3. Charged(e[2], m) = MaxTime(m)
      BY <2>5, <3>2 DEF Charged
    <3>4. MaxTime(m) <= c[e[2]] /\ c[e[2]] <= Sum(c, Threads) /\ c[e[2]] \in Nat
      BY <1>1, <2>1, <2>3, <3>2, <3>3
    <3>5. MaxTime(m) \in Nat
      BY <1>2
    <3> QED BY <2>3, <3>4, <3>5
  <2>6. MaxTime(m) <= Sum(c, Threads)
    BY <2>3, <2>4, <2>5, MaxTimeFacts
  <2> QED BY <1>2, <2>2, <2>3, <2>6
<1>5. Sum(largest, Markers) <= Sum(column, Markers)
  <2> HIDE DEF column
  <2> QED BY <1>4, SumMonotone, ClockAssumption
<1>6. Sum(column, Markers) = Sum(spent, Threads)
  <2>1. \A t \in Threads : \A m \in Markers : inside[t][m] \in Nat
    BY <1>1
  <2>2. IsFiniteSet(Threads) /\ IsFiniteSet(Markers)
    BY RoomAssumption, ClockAssumption
  <2> QED BY <2>1, <2>2, SumSwap
<1> QED BY <1>3, <1>5, <1>6 DEF Sum, largest

LEMMA StepTotal ==
    ASSUME IInv, FlagInv, TotalCoversEveryThread, [Next]_vars
    PROVE  TotalCoversEveryThread'
<1>1. UNCHANGED <<up, total, inside>> => TotalCoversEveryThread'
  BY DEF TotalCoversEveryThread
<1>2. CASE Initialize
  BY <1>2 DEF Initialize, TotalCoversEveryThread
<1>3. CASE Shutdown
  <2> DEFINE largest == [m \in Markers |-> MaxTime(m)]
             spent == [t \in Threads |-> SumFunctionOnSet(inside[t], Markers)]
  <2>1. /\ \A t \in Threads : pc[t] = "out" /\ open[t] = <<>>
        /\ inside' = inside /\ total' = SumFunctionOnSet(largest, Markers)
    BY <1>3 DEF Shutdown
  <2>2. /\ \A t \in Threads \ Nesters : spent[t] <= SumFunctionOnSet(largest, Markers)
        /\ SumFunctionOnSet(largest, Markers) <= SumFunctionOnSet(spent, Threads)
    BY <2>1, TotalBetween
  <2> HIDE DEF largest
  <2> QED BY <2>1, <2>2 DEF TotalCoversEveryThread
<1>4. CASE Tick
  BY <1>4 DEF Tick, TotalCoversEveryThread
<1>5. ASSUME NEW t \in Threads,
             MarkerStart(t) \/ FindOrInsert(t) \/ StoreStart(t) \/ MarkerStop(t) \/ StoreStop(t)
      PROVE  TotalCoversEveryThread'
  BY <1>1, <1>5 DEF MarkerStart, FindOrInsert, StoreStart, MarkerStop, StoreStop
<1>6. CASE UNCHANGED vars
  BY <1>1, <1>6 DEF vars
<1> QED BY <1>2, <1>3, <1>4, <1>5, <1>6 DEF Next

\* Nothing is printed yet, and nobody has been in a marker.
LEMMA InitTotal == Init => FlagInv /\ TotalCoversEveryThread
<1> SUFFICES ASSUME Init PROVE FlagInv /\ TotalCoversEveryThread
  OBVIOUS
<1>1. FlagInv
  BY DEF Init, FlagInv, Zero
<1>2. \A t \in Threads : /\ Sum(inside[t], Markers) \in Nat
                         /\ Sum(inside[t], Markers) = 0
  <2> TAKE t \in Threads
  <2> DEFINE f == inside[t]
  <2>1. \A m \in Markers : f[m] = 0
    BY DEF Init
  <2> HIDE DEF f
  <2>2. Sum(f, Markers) = 0
    BY <2>1, SumZero, ClockAssumption
  <2> QED BY <2>2 DEF f
<1> DEFINE spent == [t \in Threads |-> Sum(inside[t], Markers)]
<1>3. \A t \in Threads : spent[t] = 0
  BY <1>2
<1>4. Sum(spent, Threads) = 0
  <2> HIDE DEF spent
  <2> QED BY <1>3, SumZero, RoomAssumption
<1>5. total = 0
  BY DEF Init
<1> QED BY <1>1, <1>3, <1>4, <1>5 DEF TotalCoversEveryThread, Sum

\* Whenever the library is shut down, the total it printed is at least what
\* any thread without nested markers spent in its markers since the last
\* initialisation, and at most what all threads spent together, for any
\* numbers of threads, slots and markers (time_api.c:97-125).
THEOREM TotalCoversEveryThreadThm == Spec => []TotalCoversEveryThread
<1>1. IInv /\ FlagInv /\ TotalCoversEveryThread /\ [Next]_vars
        => FlagInv' /\ TotalCoversEveryThread'
  BY StepFlags, StepTotal
<1> QED BY InitTotal, TimerIInv, <1>1, PTL DEF Spec
=============================================================================
