-------------------------- MODULE PapiBackendProofs --------------------------
(***************************************************************************)
(* The event sets of the PAPI backend, for any number of threads, slots,   *)
(* markers and events, whatever PAPI calls fail: none is lost, none is     *)
(* touched by a thread that does not own it, and a set that counts is      *)
(* complete.  SequenceTheorems is about the markers a thread has started.  *)
(***************************************************************************)
EXTENDS PapiBackend, SetSums, SequenceTheorems, TLAPS

Served(t) == answer[t] \in Slots

(* A thread keeps the slot that it got, and nobody else gets it.           *)
SlotInv ==
    /\ \A e, g \in table : e[1] = g[1] <=> e[2] = g[2]
    /\ \A e \in table : answer[e[2]] = e[1]
    /\ \A t \in Threads : Served(t) => <<answer[t], t>> \in table

(* Where a thread is, and what its call knows.                             *)
CallInv ==
    \A t \in Threads :
       /\ pc[t] = "out" => t \notin pending
       /\ pc[t] # "out" => marker[t] \in Markers
       /\ pc[t] # "out" /\ t \notin pending => Served(t)
       /\ open[t] # <<>> \/ pc[t] = "stop" => Served(t)
       /\ phase # "up" => pc[t] = "out" /\ open[t] = <<>>

(* The live sets and the slots that hold one match, until the shutdown,    *)
(* which leaves numbers behind only after a failure.                       *)
SetInv ==
    /\ phase # "up" => live = <<>>
    /\ phase = "down" /\ ~failed => \A i \in Slots : event_set[i] = PAPI_NULL
    /\ phase # "down" =>
          /\ \A s \in DOMAIN live : /\ Served(live[s].owner)
                                    /\ event_set[answer[live[s].owner]] = s
          /\ \A i \in Slots : event_set[i] # PAPI_NULL =>
                /\ event_set[i] \in DOMAIN live
                /\ answer[live[event_set[i]].owner] = i

IInv == TypeOK /\ SlotInv /\ CallInv /\ SetInv /\ RunsComplete /\ NothingLeft

-----------------------------------------------------------------------------
LEMMA InitInv == Init => IInv
<1> SUFFICES ASSUME Init PROVE IInv OBVIOUS
<1> USE DEF Init, Registry!Init
<1>1. \A t \in Threads : ~Served(t) /\ open[t] = <<>> /\ pc[t] = "out" /\ t \notin pending
  BY DEF Served, Slots
<1>2. DOMAIN live = {}
  OBVIOUS
<1>3. TypeOK
  <2>1. <<>> \in Seq(Markers)
    OBVIOUS
  <2>2. DOMAIN live \subseteq Sets /\ \A s \in DOMAIN live : live[s] \in LiveSet
    BY <1>2
  <2> QED BY <2>1, <2>2 DEF TypeOK
<1>4. SlotInv /\ CallInv
  BY <1>1 DEF SlotInv, CallInv
<1>5. SetInv /\ RunsComplete /\ NothingLeft
  BY <1>2 DEF SetInv, RunsComplete, NothingLeft
<1> QED BY <1>3, <1>4, <1>5 DEF IInv

\* Threads that got a slot have slots of their own.
LEMMA OwnSlot ==
    ASSUME IInv, NEW t \in Threads, NEW u \in Threads \ {t}, Served(t)
    PROVE  answer[u] # answer[t]
BY DEF IInv, SlotInv, Served

\* The set in a thread's slot is the one live set of the thread.
LEMMA OwnSet ==
    ASSUME IInv, NEW t \in Threads, Served(t), phase = "up"
    PROVE  /\ event_set[answer[t]] \in DOMAIN live => live[event_set[answer[t]]].owner = t
           /\ \A s \in DOMAIN live : live[s].owner = t => s = event_set[answer[t]]
           /\ event_set[answer[t]] = PAPI_NULL \/ event_set[answer[t]] \in DOMAIN live
<1>1. answer[t] \in Slots
  BY DEF Served
<1>2. \A s \in DOMAIN live : live[s].owner \in Threads /\ s # PAPI_NULL
  BY UsageAssumption DEF IInv, TypeOK, LiveSet
<1>3. event_set[answer[t]] \in DOMAIN live => answer[live[event_set[answer[t]]].owner] = answer[t]
  BY <1>1, <1>2 DEF IInv, SetInv
<1> QED BY <1>1, <1>2, <1>3, OwnSlot DEF IInv, SetInv

\* What With and Without make of the live sets.
LEMMA WithFacts ==
    ASSUME TypeOK, NEW s \in Sets, NEW rec \in LiveSet, With(s, rec)
    PROVE  /\ DOMAIN live' = DOMAIN live \cup {s} /\ live'[s] = rec
           /\ \A x \in DOMAIN live \ {s} : live'[x] = live[x]
           /\ DOMAIN live' \subseteq Sets /\ \A x \in DOMAIN live' : live'[x] \in LiveSet
BY DEF With, TypeOK

LEMMA WithoutFacts ==
    ASSUME TypeOK, NEW s, Without(s)
    PROVE  /\ DOMAIN live' = DOMAIN live \ {s}
           /\ \A x \in DOMAIN live' : live'[x] = live[x]
           /\ DOMAIN live' \subseteq Sets /\ \A x \in DOMAIN live' : live'[x] \in LiveSet
BY DEF Without, TypeOK

\* Counts may change: the owners, the events and what runs stay.
SameSets ==
    /\ DOMAIN live' = DOMAIN live
    /\ \A s \in DOMAIN live : /\ live'[s] \in LiveSet
                              /\ live'[s].owner = live[s].owner
                              /\ live'[s].added = live[s].added
                              /\ live'[s].running = live[s].running

LEMMA ResetKeeps ==
    ASSUME TypeOK, ResetAny
    PROVE  SameSets
<1>1. CASE UNCHANGED live
  BY <1>1 DEF SameSets, TypeOK
<1>2. ASSUME NEW s \in DOMAIN live, With(s, [live[s] EXCEPT !.count = 0])
      PROVE  SameSets
  <2> DEFINE rec == [live[s] EXCEPT !.count = 0]
  <2>1. s \in Sets /\ live[s] \in LiveSet
    BY DEF TypeOK
  <2>2. /\ rec \in LiveSet /\ rec.owner = live[s].owner /\ rec.added = live[s].added
        /\ rec.running = live[s].running
    BY <2>1 DEF LiveSet
  <2>3. DOMAIN live' = DOMAIN live \cup {s} /\ live'[s] = rec
        /\ \A x \in DOMAIN live \ {s} : live'[x] = live[x]
    BY <1>2, <2>1, <2>2, WithFacts
  <2> HIDE DEF rec
  <2> QED BY <2>2, <2>3 DEF SameSets, TypeOK
<1> QED BY <1>1, <1>2 DEF ResetAny

-----------------------------------------------------------------------------
(* Steps that leave the sets alone.                                        *)

LEMMA MarkerStartInv ==
    ASSUME IInv, NEW t \in Threads, MarkerStart(t)
    PROVE  IInv'
<1>1. PICK m \in Markers : marker' = [marker EXCEPT ![t] = m]
  BY DEF MarkerStart
<1>2. /\ phase = "up" /\ pc[t] = "out" /\ pending' = pending \cup {t}
      /\ pc' = [pc EXCEPT ![t] = "start"]
      /\ UNCHANGED <<table, answer, event_set, registered, live, counters, phase, failed, open,
                     work, inside>>
  BY DEF MarkerStart, Registry!Begin, papiVars, workVars
<1>3. /\ pc'[t] = "start" /\ marker'[t] = m /\ t \in pending'
      /\ \A u \in Threads \ {t} : /\ pc'[u] = pc[u] /\ marker'[u] = marker[u]
                                  /\ u \in pending' <=> u \in pending
  BY <1>1, <1>2 DEF IInv, TypeOK
<1>4. TypeOK'
  BY <1>1, <1>2 DEF IInv, TypeOK
<1>5. SlotInv' /\ SetInv' /\ RunsComplete'
  BY <1>2 DEF IInv, SlotInv, SetInv, RunsComplete, Served
<1>6. CallInv'
  BY <1>1, <1>2, <1>3 DEF IInv, CallInv, Served
<1>7. NothingLeft'
  BY <1>2, <1>3 DEF IInv, NothingLeft
<1> QED BY <1>4, <1>5, <1>6, <1>7 DEF IInv

LEMMA MarkerStopInv ==
    ASSUME IInv, NEW t \in Threads, MarkerStop(t)
    PROVE  IInv'
<1> DEFINE m == open[t][Len(open[t])]
           p == SubSeq(open[t], 1, Len(open[t]) - 1)
<1>1. /\ phase = "up" /\ pc[t] = "out" /\ open[t] # <<>> /\ pending' = pending \cup {t}
      /\ pc' = [pc EXCEPT ![t] = "stop"]
      /\ marker' = [marker EXCEPT ![t] = m] /\ open' = [open EXCEPT ![t] = p]
      /\ UNCHANGED <<table, answer, event_set, registered, live, counters, phase, failed,
                     work, inside>>
  BY DEF MarkerStop, Registry!Begin, papiVars, workVars, IInv, TypeOK
<1>2. m \in Markers /\ p \in Seq(Markers) /\ Served(t)
  <2>1. open[t] \in Seq(Markers)
    BY DEF IInv, TypeOK
  <2>2. Len(open[t]) \in Nat \ {0}
    BY <1>1, <2>1, EmptySeq
  <2> QED BY <1>1, <2>1, <2>2 DEF IInv, CallInv
<1> HIDE DEF m, p
<1>3. /\ pc'[t] = "stop" /\ marker'[t] = m /\ t \in pending'
      /\ \A u \in Threads \ {t} : /\ pc'[u] = pc[u] /\ marker'[u] = marker[u] /\ open'[u] = open[u]
                                  /\ u \in pending' <=> u \in pending
  BY <1>1 DEF IInv, TypeOK
<1>4. TypeOK'
  BY <1>1, <1>2 DEF IInv, TypeOK
<1>5. SlotInv' /\ SetInv' /\ RunsComplete'
  BY <1>1 DEF IInv, SlotInv, SetInv, RunsComplete, Served
<1>6. CallInv'
  BY <1>1, <1>2, <1>3 DEF IInv, CallInv, Served
<1>7. NothingLeft'
  BY <1>1, <1>3 DEF IInv, NothingLeft
<1> QED BY <1>4, <1>5, <1>6, <1>7 DEF IInv

\* What the lookup finds or takes.
LEMMA FoundSlot ==
    ASSUME IInv, NEW t \in Threads, FindOrInsert(t)
    PROVE  \E i \in Slots :
        /\ t \in pending /\ pending' = pending \ {t} /\ answer' = [answer EXCEPT ![t] = i]
        /\ \/ <<i, t>> \in table /\ table' = table /\ event_set' = event_set
           \/ /\ \A e \in table : e[2] # t /\ e[1] # i
              /\ table' = table \cup {<<i, t>>}
              /\ event_set' = [event_set EXCEPT ![i] = PAPI_NULL]
<1>1. CASE Registry!Known(t) /\ UNCHANGED event_set
  <2>1. PICK e \in table : e[2] = t /\ Registry!Reply(t, e[1]) /\ table' = table
    BY <1>1 DEF Registry!Known, Registry!SlotsOf
  <2>2. e[1] \in Slots /\ e = <<e[1], t>>
    BY <2>1 DEF IInv, TypeOK
  <2> QED BY <1>1, <2>1, <2>2 DEF Registry!Reply
<1>2. CASE Registry!Grant(t) /\ event_set' = [event_set EXCEPT ![answer'[t]] = PAPI_NULL]
  <2>1. PICK i \in Slots : /\ \A e \in table : e[2] # t /\ e[1] # i
                           /\ table' = table \cup {<<i, t>>}
                           /\ Registry!Reply(t, i)
    BY <1>2 DEF Registry!Grant, Registry!SlotsOf, Slots
  <2>2. answer' = [answer EXCEPT ![t] = i] /\ answer'[t] = i
    BY <2>1 DEF Registry!Reply, IInv, TypeOK
  <2> QED BY <1>2, <2>1, <2>2 DEF Registry!Reply
<1> QED BY <1>1, <1>2 DEF FindOrInsert

LEMMA FindOrInsertInv ==
    ASSUME IInv, NEW t \in Threads, FindOrInsert(t)
    PROVE  IInv'
<1>1. PICK i \in Slots :
        /\ t \in pending /\ pending' = pending \ {t} /\ answer' = [answer EXCEPT ![t] = i]
        /\ \/ <<i, t>> \in table /\ table' = table /\ event_set' = event_set
           \/ /\ \A e \in table : e[2] # t /\ e[1] # i
              /\ table' = table \cup {<<i, t>>}
              /\ event_set' = [event_set EXCEPT ![i] = PAPI_NULL]
  BY FoundSlot
<1>2. UNCHANGED <<registered, live, counters, phase, failed, pc, marker, open, work, inside>>
  BY DEF FindOrInsert, workVars
<1>3. TypeOK'
  <2>1. table' \subseteq Slots \X Threads
    <3>1. <<i, t>> \in Slots \X Threads /\ table \subseteq Slots \X Threads
      BY DEF IInv, TypeOK
    <3> QED BY <1>1, <3>1, Zenon
  <2>3. event_set' \in [Slots -> Sets \cup {PAPI_NULL}]
    BY <1>1 DEF IInv, TypeOK
  <2>2. pending' \subseteq Threads /\ answer' \in [Threads -> Slots \cup {-2}]
    BY <1>1 DEF IInv, TypeOK
  <2> QED BY <1>2, <2>1, <2>2, <2>3 DEF IInv, TypeOK
<1>4. CASE <<i, t>> \in table
  <2>1. answer' = answer /\ table' = table /\ event_set' = event_set
    BY <1>1, <1>4 DEF IInv, TypeOK, SlotInv
  <2>2. SlotInv' /\ SetInv' /\ RunsComplete' /\ NothingLeft'
    BY <1>2, <2>1 DEF IInv, SlotInv, SetInv, RunsComplete, NothingLeft, Served
  <2>3. Served(t)
    BY <1>1, <2>1 DEF IInv, TypeOK, Served
  <2>4. CallInv'
    BY <1>1, <1>2, <2>1, <2>3 DEF IInv, CallInv, Served
  <2> QED BY <1>3, <2>2, <2>4 DEF IInv
<1>5. CASE <<i, t>> \notin table
  <2>1. /\ \A e \in table : e[2] # t /\ e[1] # i
        /\ table' = table \cup {<<i, t>>} /\ answer'[t] = i
        /\ \A u \in Threads \ {t} : answer'[u] = answer[u]
        /\ event_set' = [event_set EXCEPT ![i] = PAPI_NULL]
    BY <1>1, <1>5 DEF IInv, TypeOK
  <2>2. \A e \in table : e[2] \in Threads \ {t}
    BY <2>1 DEF IInv, TypeOK
  <2>3. SlotInv'
    BY <2>1, <2>2 DEF IInv, SlotInv, Served
  <2>4. ~Served(t)
    BY <2>1 DEF IInv, SlotInv
  <2>5. CallInv'
    BY <1>1, <1>2, <2>1 DEF IInv, TypeOK, CallInv, Served
  <2>6. \A u \in Threads : Served(u) => answer[u] # i /\ u # t
    BY <2>1, <2>4 DEF IInv, SlotInv
  <2>7. SetInv'
    <3>1. phase = "up"
      BY <1>1 DEF IInv, CallInv
    <3>2. \A s \in DOMAIN live : live[s].owner \in Threads
      BY DEF IInv, TypeOK, LiveSet
    <3>3. \A s \in DOMAIN live' : /\ Served(live[s].owner)'
                                  /\ event_set'[answer'[live'[s].owner]] = s
      BY <1>2, <2>1, <2>6, <3>1, <3>2 DEF IInv, TypeOK, SetInv, Served
    <3>4. ASSUME NEW k \in Slots, event_set'[k] # PAPI_NULL
          PROVE  event_set'[k] \in DOMAIN live' /\ answer'[live'[event_set'[k]].owner] = k
      <4>1. k # i /\ event_set'[k] = event_set[k]
        BY <2>1, <3>4 DEF IInv, TypeOK
      <4>2. event_set[k] \in DOMAIN live /\ answer[live[event_set[k]].owner] = k
        BY <3>1, <3>4, <4>1 DEF IInv, SetInv
      <4>3. live[event_set[k]].owner # t
        BY <2>4, <4>2 DEF Served
      <4> QED BY <1>2, <2>1, <3>2, <4>1, <4>2, <4>3
    <3> QED BY <1>2, <3>1, <3>3, <3>4 DEF SetInv
  <2>8. RunsComplete' /\ NothingLeft'
    BY <1>2 DEF IInv, RunsComplete, NothingLeft
  <2> QED BY <1>3, <2>3, <2>5, <2>7, <2>8 DEF IInv
<1> QED BY <1>4, <1>5

-----------------------------------------------------------------------------
(* A marker_start that has its slot.                                       *)

LEMMA StartedCall ==
    ASSUME IInv, NEW t \in Threads, Starting(t), Started(t)
    PROVE  /\ phase = "up" /\ phase' = phase /\ Served(t)
           /\ UNCHANGED <<table, answer, pending, counters, work, inside>>
           /\ SlotInv' /\ CallInv'
           /\ open'[t] # <<>>
           /\ \A u \in Threads \ {t} : pc'[u] = pc[u] /\ open'[u] = open[u]
           /\ pc' \in [Threads -> {"out", "start", "stop"}]
           /\ marker' \in [Threads -> Markers \cup {NoMarker}]
           /\ open' \in [Threads -> Seq(Markers)]
<1>1. /\ pc[t] = "start" /\ t \notin pending
      /\ open' = [open EXCEPT ![t] = Append(@, marker[t])]
      /\ pc' = [pc EXCEPT ![t] = "out"] /\ marker' = [marker EXCEPT ![t] = NoMarker]
      /\ UNCHANGED <<table, answer, pending, counters, phase, work, inside>>
  BY DEF Starting, Started, registryVars, workVars
<1>2. phase = "up" /\ Served(t) /\ marker[t] \in Markers
  BY <1>1 DEF IInv, CallInv
<1>3. open'[t] \in Seq(Markers) /\ open'[t] # <<>>
  <2>1. open[t] \in Seq(Markers) /\ open'[t] = Append(open[t], marker[t])
    BY <1>1 DEF IInv, TypeOK
  <2> HIDE DEF IInv
  <2> QED BY <1>2, <2>1
<1>4. \A u \in Threads \ {t} : pc'[u] = pc[u] /\ open'[u] = open[u] /\ marker'[u] = marker[u]
  BY <1>1 DEF IInv, TypeOK
<1>5. pc'[t] = "out" /\ marker'[t] = NoMarker
  BY <1>1 DEF IInv, TypeOK
<1>6. /\ pc' \in [Threads -> {"out", "start", "stop"}]
      /\ marker' \in [Threads -> Markers \cup {NoMarker}]
      /\ open' \in [Threads -> Seq(Markers)]
  BY <1>1, <1>3, <1>4 DEF IInv, TypeOK
<1>7. SlotInv'
  BY <1>1 DEF IInv, SlotInv, Served
<1>8. CallInv'
  BY <1>1, <1>2, <1>3, <1>4, <1>5 DEF IInv, CallInv, Served
<1> QED BY <1>1, <1>2, <1>3, <1>4, <1>6, <1>7, <1>8

\* What the other threads left in PAPI is as it was.
LEMMA NothingLeftKept ==
    ASSUME IInv, NEW t \in Threads, failed => failed',
           \A u \in Threads \ {t} : /\ pc'[u] = pc[u] /\ open'[u] = open[u]
                                    /\ u \in registered' => u \in registered
                                    /\ \A s \in DOMAIN live' : live'[s].owner = u =>
                                          s \in DOMAIN live /\ live[s].owner = u,
           ~failed' /\ pc'[t] = "out" /\ open'[t] = <<>> =>
              t \notin registered' /\ \A s \in DOMAIN live' : live'[s].owner # t
    PROVE  NothingLeft'
<1> SUFFICES ASSUME ~failed', NEW u \in Threads, pc'[u] = "out", open'[u] = <<>>
             PROVE  u \notin registered' /\ \A s \in DOMAIN live' : live'[s].owner # u
  BY DEF NothingLeft
<1>1. CASE u = t
  BY <1>1
<1>2. CASE u # t
  <2>1. ~failed
    OBVIOUS
  <2>2. pc[u] = "out" /\ open[u] = <<>>
    BY <1>2, Zenon
  <2>3. u \notin registered /\ \A s \in DOMAIN live : live[s].owner # u
    BY <2>1, <2>2, Zenon DEF IInv, NothingLeft
  <2> QED BY <1>2, <2>3, Zenon
<1> QED BY <1>1, <1>2

\* The sets stay with their owners.
LEMMA SameSetInv ==
    ASSUME IInv, SameSets, phase = "up", phase' = "up", answer' = answer, event_set' = event_set
    PROVE  /\ SetInv' /\ DOMAIN live' \subseteq Sets /\ \A s \in DOMAIN live' : live'[s] \in LiveSet
<1>1. \A s \in DOMAIN live' : s \in DOMAIN live /\ live'[s].owner = live[s].owner
  BY DEF SameSets
<1>2. \A s \in DOMAIN live : s \in DOMAIN live' /\ live'[s].owner = live[s].owner
  BY DEF SameSets
<1>3. SetInv'
  BY <1>1, <1>2 DEF IInv, SetInv, Served
<1> QED BY <1>3 DEF IInv, TypeOK, SameSets

LEMMA RegisterFailsInv ==
    ASSUME IInv, NEW t \in Threads, RegisterFails(t)
    PROVE  IInv'
<1>1. Starting(t) /\ Started(t) /\ ResetAny /\ failed' /\ UNCHANGED <<event_set, registered>>
  BY DEF RegisterFails
<1>2. SameSets
  BY <1>1, ResetKeeps DEF IInv
<1>3. SetInv' /\ DOMAIN live' \subseteq Sets /\ \A s \in DOMAIN live' : live'[s] \in LiveSet
  BY <1>1, <1>2, StartedCall, SameSetInv
<1>4. TypeOK'
  BY <1>1, <1>3, StartedCall DEF IInv, TypeOK, RegisterFails
<1>5. RunsComplete'
  BY <1>1, <1>2 DEF IInv, RunsComplete, SameSets
<1>6. NothingLeft'
  BY <1>1 DEF NothingLeft
<1> QED BY <1>1, <1>3, <1>4, <1>5, <1>6, StartedCall DEF IInv

LEMMA CreateFailsInv ==
    ASSUME IInv, NEW t \in Threads, CreateFails(t)
    PROVE  IInv'
<1>1. Starting(t) /\ Started(t) /\ ResetAny /\ failed' /\ UNCHANGED event_set
      /\ registered' = registered \cup {t}
  BY DEF CreateFails
<1>2. SameSets
  BY <1>1, ResetKeeps DEF IInv
<1>3. SetInv' /\ DOMAIN live' \subseteq Sets /\ \A s \in DOMAIN live' : live'[s] \in LiveSet
  BY <1>1, <1>2, StartedCall, SameSetInv
<1>4. TypeOK'
  BY <1>1, <1>3, StartedCall DEF IInv, TypeOK, CreateFails
<1>5. RunsComplete'
  BY <1>1, <1>2 DEF IInv, RunsComplete, SameSets
<1>6. NothingLeft'
  BY <1>1 DEF NothingLeft
<1> QED BY <1>1, <1>3, <1>4, <1>5, <1>6, StartedCall DEF IInv

\* A new set comes into an empty slot.
LEMMA NewSetInv ==
    ASSUME IInv, NEW t \in Threads, Starting(t), Started(t),
           event_set[answer[t]] = PAPI_NULL, registered' = registered \cup {t},
           failed' \in BOOLEAN, failed => failed',
           NEW s \in Sets \ DOMAIN live, NEW rec \in LiveSet,
           rec.owner = t, rec.running => rec.added = NumEvents,
           event_set' = [event_set EXCEPT ![answer[t]] = s], With(s, rec)
    PROVE  IInv'
<1>1. /\ DOMAIN live' = DOMAIN live \cup {s} /\ live'[s] = rec
      /\ \A x \in DOMAIN live : live'[x] = live[x]
      /\ DOMAIN live' \subseteq Sets /\ \A x \in DOMAIN live' : live'[x] \in LiveSet
  BY WithFacts DEF IInv
<1>2. /\ phase = "up" /\ phase' = "up" /\ Served(t) /\ answer' = answer /\ answer[t] \in Slots
      /\ open'[t] # <<>>
      /\ \A u \in Threads \ {t} : pc'[u] = pc[u] /\ open'[u] = open[u]
  BY StartedCall DEF Served
<1>3. /\ event_set'[answer[t]] = s
      /\ \A i \in Slots \ {answer[t]} : event_set'[i] = event_set[i]
  BY <1>2 DEF IInv, TypeOK
<1>4. TypeOK'
  BY <1>1, <1>2, StartedCall DEF IInv, TypeOK
<1>5. \A x \in DOMAIN live : x # PAPI_NULL /\ live[x].owner \in Threads
  BY UsageAssumption DEF IInv, TypeOK, LiveSet
<1>6. SetInv'
  <2>1. ASSUME NEW x \in DOMAIN live'
        PROVE  answer'[live'[x].owner] \in Slots /\ event_set'[answer'[live'[x].owner]] = x
    <3>1. CASE x = s
      BY <1>1, <1>2, <1>3, <3>1
    <3>2. CASE x # s
      <4>1. x \in DOMAIN live /\ live'[x].owner = live[x].owner
        BY <1>1, <3>2
      <4>2. Served(live[x].owner) /\ event_set[answer[live[x].owner]] = x
        BY <1>2, <4>1 DEF IInv, SetInv
      <4>3. answer[live[x].owner] # answer[t]
        BY <1>5, <4>1, <4>2
      <4> QED BY <1>2, <1>3, <4>1, <4>2, <4>3 DEF Served
    <3> QED BY <3>1, <3>2
  <2>2. ASSUME NEW i \in Slots, event_set'[i] # PAPI_NULL
        PROVE  event_set'[i] \in DOMAIN live' /\ answer'[live'[event_set'[i]].owner] = i
    <3>1. CASE i = answer[t]
      BY <1>1, <1>2, <1>3, <3>1
    <3>2. CASE i # answer[t]
      <4>1. event_set[i] \in DOMAIN live /\ answer[live[event_set[i]].owner] = i
        BY <1>2, <1>3, <2>2, <3>2 DEF IInv, SetInv
      <4> QED BY <1>1, <1>2, <1>3, <3>2, <4>1
    <3> QED BY <3>1, <3>2
  <2> QED BY <1>2, <2>1, <2>2 DEF SetInv, Served
<1>7. RunsComplete'
  BY <1>1 DEF IInv, RunsComplete
<1>8. NothingLeft'
  <2>1. \A u \in Threads \ {t} : /\ u \in registered' => u \in registered
                                 /\ \A x \in DOMAIN live' : live'[x].owner = u =>
                                       x \in DOMAIN live /\ live[x].owner = u
    BY <1>1
  <2> QED BY <1>2, <2>1, NothingLeftKept
<1> QED BY <1>4, <1>6, <1>7, <1>8, StartedCall DEF IInv

LEMMA AddOrStartFailsInv ==
    ASSUME IInv, NEW t \in Threads, AddOrStartFails(t)
    PROVE  IInv'
<1>1. PICK s \in Sets \ DOMAIN live, k \in 0 .. NumEvents :
        /\ event_set' = [event_set EXCEPT ![answer[t]] = s]
        /\ With(s, [owner |-> t, added |-> k, running |-> FALSE, count |-> 0])
  BY DEF AddOrStartFails
<1> DEFINE rec == [owner |-> t, added |-> k, running |-> FALSE, count |-> 0]
<1>2. rec \in LiveSet /\ rec.owner = t /\ rec.running = FALSE
  BY DEF LiveSet
<1>3. /\ Starting(t) /\ Started(t) /\ event_set[answer[t]] = PAPI_NULL
      /\ registered' = registered \cup {t} /\ failed' = TRUE
  BY DEF AddOrStartFails
<1>4. With(s, rec)
  BY <1>1
<1> HIDE DEF rec
<1> QED BY <1>1, <1>2, <1>3, <1>4, NewSetInv

LEMMA StartSucceedsInv ==
    ASSUME IInv, NEW t \in Threads, StartSucceeds(t)
    PROVE  IInv'
<1>1. PICK s \in Sets \ DOMAIN live :
        /\ event_set' = [event_set EXCEPT ![answer[t]] = s]
        /\ With(s, [owner |-> t, added |-> NumEvents, running |-> TRUE, count |-> 0])
  BY DEF StartSucceeds
<1> DEFINE rec == [owner |-> t, added |-> NumEvents, running |-> TRUE, count |-> 0]
<1>2. rec \in LiveSet /\ rec.owner = t /\ rec.added = NumEvents
  BY UsageAssumption DEF LiveSet
<1>3. /\ Starting(t) /\ Started(t) /\ event_set[answer[t]] = PAPI_NULL
      /\ registered' = registered \cup {t} /\ failed' = failed /\ failed \in BOOLEAN
  BY DEF StartSucceeds, IInv, TypeOK
<1>4. With(s, rec)
  BY <1>1
<1> HIDE DEF rec
<1> QED BY <1>1, <1>2, <1>3, <1>4, NewSetInv

-----------------------------------------------------------------------------
(* A marker_stop that has its slot.                                        *)

LEMMA StoppedCall ==
    ASSUME IInv, NEW t \in Threads, Stopping(t), Stopped(t)
    PROVE  /\ phase = "up" /\ phase' = phase /\ Served(t) /\ marker[t] \in Markers
           /\ UNCHANGED <<table, answer, pending, open, work, inside>>
           /\ SlotInv' /\ CallInv'
           /\ \A u \in Threads \ {t} : pc'[u] = pc[u] /\ open'[u] = open[u]
           /\ pc' \in [Threads -> {"out", "start", "stop"}]
           /\ marker' \in [Threads -> Markers \cup {NoMarker}]
<1>1. /\ pc[t] = "stop" /\ t \notin pending
      /\ pc' = [pc EXCEPT ![t] = "out"] /\ marker' = [marker EXCEPT ![t] = NoMarker]
      /\ UNCHANGED <<table, answer, pending, open, phase, work, inside>>
  BY DEF Stopping, Stopped, registryVars, workVars
<1>2. phase = "up" /\ Served(t) /\ marker[t] \in Markers
  BY <1>1 DEF IInv, CallInv
<1>3. \A u \in Threads \ {t} : pc'[u] = pc[u] /\ marker'[u] = marker[u]
  BY <1>1 DEF IInv, TypeOK
<1>4. pc'[t] = "out"
  BY <1>1 DEF IInv, TypeOK
<1>5. /\ pc' \in [Threads -> {"out", "start", "stop"}]
      /\ marker' \in [Threads -> Markers \cup {NoMarker}]
  BY <1>1 DEF IInv, TypeOK
<1>6. SlotInv'
  BY <1>1 DEF IInv, SlotInv, Served
<1>7. CallInv'
  BY <1>1, <1>2, <1>3, <1>4 DEF IInv, CallInv, Served
<1> QED BY <1>1, <1>2, <1>3, <1>5, <1>6, <1>7

LEMMA AccumulateType ==
    ASSUME TypeOK, NEW t \in Threads, marker[t] \in Markers, Served(t), NEW n \in Nat,
           Accumulate(t, n)
    PROVE  counters' \in [Markers -> [Slots -> Nat]]
<1> DEFINE m == marker[t]
           i == answer[t]
<1>1. m \in Markers /\ i \in Slots /\ counters \in [Markers -> [Slots -> Nat]]
  BY DEF TypeOK, Served
<1>2. counters' = [counters EXCEPT ![m][i] = @ + n]
  BY DEF Accumulate
<1> HIDE DEF m, i
<1> QED BY <1>1, <1>2

LEMMA MovedType ==
    ASSUME NEW t, NEW c \in Nat, NEW n \in Moved(t, c)
    PROVE  n \in Nat /\ c - n \in Nat
BY DEF Moved

LEMMA NothingToStopInv ==
    ASSUME IInv, NEW t \in Threads, NothingToStop(t)
    PROVE  IInv'
<1>1. /\ Stopping(t) /\ Stopped(t) /\ failed'
      /\ UNCHANGED <<event_set, registered, live, counters>>
  BY DEF NothingToStop, papiVars
<1>2. SameSets
  BY <1>1 DEF IInv, TypeOK, SameSets
<1>3. SetInv' /\ DOMAIN live' \subseteq Sets /\ \A s \in DOMAIN live' : live'[s] \in LiveSet
  BY <1>1, <1>2, StoppedCall, SameSetInv
<1>4. TypeOK'
  BY <1>1, <1>3, StoppedCall DEF IInv, TypeOK, NothingToStop
<1>5. RunsComplete'
  BY <1>1 DEF IInv, RunsComplete
<1>6. NothingLeft'
  BY <1>1 DEF NothingLeft
<1> QED BY <1>1, <1>3, <1>4, <1>5, <1>6, StoppedCall DEF IInv

\* The set stays in its slot, whatever is left in it.
LEMMA LeftSetInv ==
    ASSUME IInv, NEW t \in Threads, Stopping(t), Stopped(t), failed' = TRUE,
           UNCHANGED <<event_set, registered>>,
           NEW s \in DOMAIN live, s = event_set[answer[t]], NEW rec \in LiveSet, rec.owner = live[s].owner,
           rec.running => live[s].running /\ rec.added = live[s].added,
           With(s, rec),
           NEW n \in Nat, Accumulate(t, n)
    PROVE  IInv'
<1>1. /\ DOMAIN live' = DOMAIN live /\ live'[s] = rec
      /\ \A x \in DOMAIN live \ {s} : live'[x] = live[x]
      /\ DOMAIN live' \subseteq Sets /\ \A x \in DOMAIN live' : live'[x] \in LiveSet
  <2>1. s \in Sets
    BY DEF IInv, TypeOK
  <2>2. DOMAIN live \cup {s} = DOMAIN live
    OBVIOUS
  <2> QED BY <2>1, <2>2, WithFacts DEF IInv
<1>2. /\ phase = "up" /\ phase' = "up" /\ Served(t) /\ answer' = answer /\ marker[t] \in Markers
  BY StoppedCall
<1>3. TypeOK'
  BY <1>1, <1>2, StoppedCall, AccumulateType DEF IInv, TypeOK
<1>4. \A x \in DOMAIN live : live'[x].owner = live[x].owner
  BY <1>1
<1>5. SetInv'
  BY <1>1, <1>2, <1>4 DEF IInv, SetInv, Served
<1>6. RunsComplete'
  BY <1>1, <1>4 DEF IInv, RunsComplete
<1>7. NothingLeft'
  BY DEF NothingLeft
<1> QED BY <1>3, <1>5, <1>6, <1>7, StoppedCall DEF IInv

LEMMA StopFailsInv ==
    ASSUME IInv, NEW t \in Threads, StopFails(t)
    PROVE  IInv'
<1> DEFINE s == event_set[answer[t]]
<1>1. PICK n \in Moved(t, live[s].count) :
         Accumulate(t, n) /\ With(s, [live[s] EXCEPT !.count = @ - n])
  BY DEF StopFails
<1> DEFINE rec == [live[s] EXCEPT !.count = @ - n]
<1>2. s \in DOMAIN live /\ live[s] \in LiveSet
  BY DEF StopFails, IInv, TypeOK
<1>3. n \in Nat /\ live[s].count - n \in Nat
  <2>1. live[s].count \in Nat
    BY <1>2 DEF LiveSet
  <2> QED BY <1>1, <2>1, MovedType
<1> HIDE DEF s
<1>4. /\ rec \in LiveSet /\ rec.owner = live[s].owner
      /\ rec.running = live[s].running /\ rec.added = live[s].added
  BY <1>2, <1>3 DEF LiveSet
<1>5. Stopping(t) /\ Stopped(t) /\ failed' = TRUE /\ UNCHANGED <<event_set, registered>>
  BY DEF StopFails
<1>6. With(s, rec) /\ Accumulate(t, n) /\ s = event_set[answer[t]]
  BY <1>1 DEF s
<1> HIDE DEF rec
<1> QED BY <1>2, <1>3, <1>4, <1>5, <1>6, LeftSetInv

LEMMA ReleaseFailsInv ==
    ASSUME IInv, NEW t \in Threads, ReleaseFails(t)
    PROVE  IInv'
<1> DEFINE s == event_set[answer[t]]
<1>1. PICK n \in Moved(t, live[s].count), k \in 0 .. NumEvents :
         /\ Accumulate(t, n)
         /\ With(s, [live[s] EXCEPT !.count = @ - n, !.running = FALSE, !.added = @ - k])
  BY DEF ReleaseFails
<1> DEFINE rec == [live[s] EXCEPT !.count = @ - n, !.running = FALSE, !.added = @ - k]
<1>2. s \in DOMAIN live /\ live[s] \in LiveSet /\ live[s].running
  BY DEF ReleaseFails, IInv, TypeOK
<1>3. n \in Nat /\ live[s].count - n \in Nat
  <2>1. live[s].count \in Nat
    BY <1>2 DEF LiveSet
  <2> QED BY <1>1, <2>1, MovedType
<1>4. live[s].added - k \in 0 .. NumEvents
  BY <1>2, UsageAssumption DEF IInv, RunsComplete
<1> HIDE DEF s
<1>5. rec \in LiveSet /\ rec.owner = live[s].owner /\ rec.running = FALSE
  BY <1>2, <1>3, <1>4 DEF LiveSet
<1>6. Stopping(t) /\ Stopped(t) /\ failed' = TRUE /\ UNCHANGED <<event_set, registered>>
  BY DEF ReleaseFails
<1>7. With(s, rec) /\ Accumulate(t, n) /\ s = event_set[answer[t]]
  BY <1>1 DEF s
<1> HIDE DEF rec
<1> QED BY <1>2, <1>3, <1>5, <1>6, <1>7, LeftSetInv

LEMMA StopSucceedsInv ==
    ASSUME IInv, NEW t \in Threads, StopSucceeds(t)
    PROVE  IInv'
<1> DEFINE s == event_set[answer[t]]
<1>1. /\ Stopping(t) /\ Stopped(t) /\ s \in DOMAIN live /\ Without(s)
      /\ event_set' = [event_set EXCEPT ![answer[t]] = PAPI_NULL]
  BY DEF StopSucceeds
<1>2. /\ failed' \in BOOLEAN /\ (failed => failed')
      /\ registered' \in {registered, registered \ {t}}
      /\ failed' \/ registered' = registered \ {t}
  <2>1. \/ registered' = registered \ {t} /\ failed' = failed
        \/ failed' = TRUE /\ registered' \in {registered, registered \ {t}}
    BY DEF StopSucceeds
  <2>2. failed \in BOOLEAN
    BY DEF IInv, TypeOK
  <2>3. CASE registered' = registered \ {t} /\ failed' = failed
    BY <2>2, <2>3, Zenon
  <2>4. CASE failed' = TRUE /\ registered' \in {registered, registered \ {t}}
    BY <2>4, Zenon
  <2> QED BY <2>1, <2>3, <2>4
<1>3. \E n \in Nat : Accumulate(t, n)
  <2>1. live[s].count \in Nat
    BY <1>1 DEF IInv, TypeOK, LiveSet
  <2> QED BY <2>1, MovedType DEF StopSucceeds
<1>4. /\ phase = "up" /\ phase' = "up" /\ Served(t) /\ answer' = answer /\ answer[t] \in Slots
      /\ marker[t] \in Markers
      /\ \A u \in Threads \ {t} : pc'[u] = pc[u] /\ open'[u] = open[u]
  BY <1>1, StoppedCall DEF Served
<1>5. /\ DOMAIN live' = DOMAIN live \ {s}
      /\ \A x \in DOMAIN live' : live'[x] = live[x]
      /\ DOMAIN live' \subseteq Sets /\ \A x \in DOMAIN live' : live'[x] \in LiveSet
  BY <1>1, WithoutFacts DEF IInv
<1>6. /\ event_set'[answer[t]] = PAPI_NULL
      /\ \A i \in Slots \ {answer[t]} : event_set'[i] = event_set[i]
  BY <1>1, <1>4 DEF IInv, TypeOK
<1>7. \A x \in DOMAIN live' : live[x].owner # t
  BY <1>4, <1>5, OwnSet
<1>8. TypeOK'
  <2>1. counters' \in [Markers -> [Slots -> Nat]]
    BY <1>3, <1>4, AccumulateType DEF IInv
  <2>2. registered' \subseteq Threads /\ event_set' \in [Slots -> Sets \cup {PAPI_NULL}]
    BY <1>1, <1>2 DEF IInv, TypeOK
  <2> QED BY <1>1, <1>2, <1>5, <2>1, <2>2, StoppedCall DEF IInv, TypeOK
<1>9. SetInv'
  <2>1. ASSUME NEW x \in DOMAIN live'
        PROVE  answer'[live'[x].owner] \in Slots /\ event_set'[answer'[live'[x].owner]] = x
    <3>1. Served(live[x].owner) /\ event_set[answer[live[x].owner]] = x /\ x # s
      BY <1>4, <1>5 DEF IInv, SetInv
    <3> QED BY <1>4, <1>5, <1>6, <3>1 DEF Served
  <2>2. ASSUME NEW i \in Slots, event_set'[i] # PAPI_NULL
        PROVE  event_set'[i] \in DOMAIN live' /\ answer'[live'[event_set'[i]].owner] = i
    <3>1. i # answer[t] /\ event_set'[i] = event_set[i]
      BY <1>6, <2>2
    <3>2. event_set[i] \in DOMAIN live /\ answer[live[event_set[i]].owner] = i
      BY <1>4, <2>2, <3>1 DEF IInv, SetInv
    <3>3. event_set[i] # s
      <4>1. answer[live[s].owner] = answer[t]
        BY <1>1, <1>4, OwnSet
      <4> QED BY <3>1, <3>2, <4>1
    <3> QED BY <1>4, <1>5, <3>1, <3>2, <3>3
  <2> QED BY <1>4, <2>1, <2>2 DEF SetInv, Served
<1>10. RunsComplete'
  BY <1>2, <1>5, <1>7 DEF IInv, RunsComplete
<1>11. NothingLeft'
  <2>1. \A u \in Threads \ {t} : /\ u \in registered' => u \in registered
                                 /\ \A x \in DOMAIN live' : live'[x].owner = u =>
                                       x \in DOMAIN live /\ live[x].owner = u
    BY <1>2, <1>5
  <2>2. ~failed' => t \notin registered' /\ \A x \in DOMAIN live' : live'[x].owner # t
    BY <1>2, <1>5, <1>7
  <2> QED BY <1>2, <1>4, <2>1, <2>2, NothingLeftKept
<1> QED BY <1>1, <1>8, <1>9, <1>10, <1>11, StoppedCall DEF IInv

-----------------------------------------------------------------------------
(* The steps of nobody in particular.                                      *)

LEMMA InitializeInv ==
    ASSUME IInv, Initialize
    PROVE  IInv'
<1>1. /\ phase = "new" \/ (phase = "down" /\ ~failed)
      /\ phase' = "up"
      /\ UNCHANGED <<table, pending, answer, event_set, registered, live, counters, failed,
                     pc, marker, open, work, inside>>
  BY DEF Initialize, registryVars, papiVars, workVars
<1>2. TypeOK' /\ SlotInv' /\ CallInv' /\ RunsComplete' /\ NothingLeft'
  BY <1>1 DEF IInv, TypeOK, SlotInv, CallInv, RunsComplete, NothingLeft, Served
<1>3. DOMAIN live = {} /\ \A i \in Slots : event_set[i] = PAPI_NULL
  <2>1. live = <<>>
    BY <1>1 DEF IInv, SetInv
  <2>2. DOMAIN live = {}
    BY <2>1
  <2> QED BY <1>1, <2>2 DEF IInv, SetInv
<1>4. SetInv'
  BY <1>1, <1>3 DEF SetInv
<1> QED BY <1>2, <1>4 DEF IInv

LEMMA ShutdownInv ==
    ASSUME IInv, Shutdown
    PROVE  IInv'
<1>1. /\ phase = "up" /\ phase' = "down" /\ live' = <<>> /\ registered' = {}
      /\ \A t \in Threads : pc[t] = "out" /\ open[t] = <<>>
      /\ UNCHANGED <<table, pending, answer, event_set, counters, failed,
                     pc, marker, open, work, inside>>
  BY DEF Shutdown, registryVars, workVars
<1>2. DOMAIN live' = {}
  BY <1>1
<1>3. TypeOK' /\ SlotInv' /\ CallInv' /\ RunsComplete' /\ NothingLeft'
  BY <1>1, <1>2 DEF IInv, TypeOK, SlotInv, CallInv, RunsComplete, NothingLeft, Served
<1>4. ASSUME ~failed PROVE \A i \in Slots : event_set[i] = PAPI_NULL
  <2>1. \A s \in DOMAIN live : live[s].owner \notin Threads
    BY <1>1, <1>4, Zenon DEF IInv, NothingLeft
  <2>2. DOMAIN live = {}
    BY <2>1 DEF IInv, TypeOK, LiveSet
  <2> QED BY <1>1, <2>2 DEF IInv, SetInv
<1>5. SetInv'
  BY <1>1, <1>4 DEF SetInv
<1> QED BY <1>3, <1>5 DEF IInv

LEMMA WorkInv ==
    ASSUME IInv, NEW t \in Threads, Work(t)
    PROVE  IInv'
<1>1. /\ phase = "up" /\ phase' = "up"
      /\ work' = [work EXCEPT ![t] = @ + 1]
      /\ inside' = [inside EXCEPT ![t] = [m \in Markers |->
                        @[m] + IF m \in ToSetOf(open[t]) THEN 1 ELSE 0]]
      /\ live' = [s \in DOMAIN live |->
                     IF live[s].owner = t /\ live[s].running
                     THEN [live[s] EXCEPT !.count = @ + 1] ELSE live[s]]
      /\ UNCHANGED <<table, pending, answer, event_set, registered, counters, failed,
                     pc, marker, open>>
  BY DEF Work, registryVars
<1>2. SameSets
  <2>1. DOMAIN live' = DOMAIN live
    BY <1>1
  <2>2. ASSUME NEW s \in DOMAIN live
        PROVE  /\ live'[s] \in LiveSet /\ live'[s].owner = live[s].owner
               /\ live'[s].added = live[s].added /\ live'[s].running = live[s].running
    <3>1. live'[s] = IF live[s].owner = t /\ live[s].running
                     THEN [live[s] EXCEPT !.count = @ + 1] ELSE live[s]
      BY <1>1
    <3>2. live[s] \in LiveSet
      BY DEF IInv, TypeOK
    <3> QED BY <3>1, <3>2 DEF LiveSet
  <2> QED BY <2>1, <2>2 DEF SameSets
<1>3. SetInv' /\ DOMAIN live' \subseteq Sets /\ \A s \in DOMAIN live' : live'[s] \in LiveSet
  BY <1>1, <1>2, SameSetInv
<1>4. TypeOK'
  <2>1. work' \in [Threads -> Nat] /\ inside' \in [Threads -> [Markers -> Nat]]
    BY <1>1 DEF IInv, TypeOK
  <2> QED BY <1>1, <1>3, <2>1 DEF IInv, TypeOK
<1>5. SlotInv' /\ CallInv'
  BY <1>1 DEF IInv, SlotInv, CallInv, Served
<1>6. RunsComplete' /\ NothingLeft'
  BY <1>1, <1>2 DEF IInv, RunsComplete, NothingLeft, SameSets
<1> QED BY <1>3, <1>4, <1>5, <1>6 DEF IInv

LEMMA StutterInv ==
    ASSUME IInv, UNCHANGED vars
    PROVE  IInv'
<1>1. UNCHANGED <<table, pending, answer, event_set, registered, live, counters, phase, failed,
                  pc, marker, open, work, inside>>
  BY DEF vars, registryVars, papiVars, workVars
<1> QED BY <1>1 DEF IInv, TypeOK, SlotInv, CallInv, SetInv, RunsComplete, NothingLeft, Served

LEMMA NextInv == IInv /\ [Next]_vars => IInv'
<1> SUFFICES ASSUME IInv, [Next]_vars PROVE IInv' OBVIOUS
<1>1. CASE Initialize      BY <1>1, InitializeInv
<1>2. CASE Shutdown        BY <1>2, ShutdownInv
<1>3. ASSUME NEW t \in Threads,
             \/ MarkerStart(t) \/ FindOrInsert(t)
             \/ RegisterFails(t) \/ CreateFails(t) \/ AddOrStartFails(t) \/ StartSucceeds(t)
             \/ MarkerStop(t) \/ NothingToStop(t)
             \/ StopFails(t) \/ ReleaseFails(t) \/ StopSucceeds(t)
             \/ Work(t)
      PROVE  IInv'
  BY <1>3, MarkerStartInv, FindOrInsertInv, RegisterFailsInv, CreateFailsInv, AddOrStartFailsInv,
     StartSucceedsInv, MarkerStopInv, NothingToStopInv, StopFailsInv, ReleaseFailsInv,
     StopSucceedsInv, WorkInv
<1>4. CASE UNCHANGED vars  BY <1>4, StutterInv
<1> QED BY <1>1, <1>2, <1>3, <1>4 DEF Next

\* However the calls of the threads interleave and whichever PAPI calls fail
\* (papi_api.c:218-319).
THEOREM BackendIInv == Spec => []IInv
<1>1. IInv /\ [Next]_vars => IInv'
  BY NextInv
<1> QED BY InitInv, <1>1, PTL DEF Spec

-----------------------------------------------------------------------------
\* The variables keep their types: marker calls index threadsInfo with the
\* slot of their thread, and PAPI_remove_event never finds fewer events than
\* it removes (papi_api.c:55-84, 248-275).
THEOREM BackendTypeCorrect == Spec => []TypeOK
BY BackendIInv, PTL DEF IInv

\* No event set is lost, and none is in the slot of another thread, until the
\* shutdown (papi_api.c:218-275).
THEOREM SetsOwnedThm == Spec => []SetsOwned
<1>1. IInv => SetsOwned
  BY DEF IInv, SetInv, SetsOwned, Served
<1> QED BY <1>1, BackendIInv, PTL

\* What counts has all the events, for a thread that PAPI knows
\* (papi_api.c:218-246).
THEOREM RunsCompleteThm == Spec => []RunsComplete
BY BackendIInv, PTL DEF IInv

-----------------------------------------------------------------------------
(* The counts.  A thread holds what the set in its slot has counted and    *)
(* counters has not got; while nothing fails, that is the work of the one  *)
(* marker it is in.                                                        *)

Holds(t) == Served(t) /\ event_set[answer[t]] \in DOMAIN live
Runs(t) == Holds(t) /\ live[event_set[answer[t]]].running
Held(t) == IF Holds(t) THEN live[event_set[answer[t]]].count ELSE 0
Current(t) == IF pc[t] = "stop" THEN {marker[t]} ELSE ToSetOf(open[t])
Total(t) == Sum([m \in Markers |-> Counted(t, m)], Markers)

OnceFor(t) == Total(t) + Held(t) <= work[t]

RightFor(t) ==
    /\ open[t] = <<>> \/ \E m \in Markers : open[t] = <<m>>
    /\ pc[t] = "stop" => open[t] = <<>>
    /\ Current(t) = {} => ~Holds(t)
    /\ Current(t) # {} => Runs(t)
    /\ \A m \in Markers :
          Counted(t, m) + (IF m \in Current(t) THEN Held(t) ELSE 0) = inside[t][m]

(* The counters of a slot that nobody has got are zero.                    *)
ClearInv ==
    \A i \in Slots : (\A e \in table : e[1] # i) => \A m \in Markers : counters[m][i] = 0

CountInv ==
    /\ ClearInv
    /\ \A t \in Threads : OnceFor(t)
    /\ ~failed => \A t \in Threads : RightFor(t)

\* The counters of a thread and what it holds are numbers.
LEMMA CountTypes ==
    ASSUME IInv, NEW t \in Threads
    PROVE  /\ work[t] \in Nat /\ Held(t) \in Nat /\ Total(t) \in Nat
           /\ \A m \in Markers : Counted(t, m) \in Nat /\ inside[t][m] \in Nat
<1>1. work[t] \in Nat /\ \A m \in Markers : Counted(t, m) \in Nat /\ inside[t][m] \in Nat
  BY DEF IInv, TypeOK, Counted
<1>2. Held(t) \in Nat
  BY DEF IInv, TypeOK, Held, Holds, LiveSet
<1>3. Total(t) \in Nat
  <2> DEFINE row == [m \in Markers |-> Counted(t, m)]
  <2>1. \A m \in Markers : row[m] \in Nat
    BY <1>1
  <2> HIDE DEF row
  <2>2. Sum(row, Markers) \in Nat
    BY <2>1, SumRemove, UsageAssumption
  <2> QED BY <2>2 DEF Total, row
<1> QED BY <1>1, <1>2, <1>3

\* A thread owns no other live set than the one in its slot.
LEMMA UncollectedHeld ==
    ASSUME IInv, NEW t \in Threads
    PROVE  Uncollected(t) = Held(t)
<1> DEFINE own == {s \in DOMAIN live : live[s].owner = t}
           f == [s \in DOMAIN live |-> live[s].count]
           x == event_set[answer[t]]
<1>1. Uncollected(t) = Sum(f, own)
  BY DEF Uncollected, Sum
<1>2. IsFiniteSet(own)
  <2>1. own \subseteq Sets
    BY DEF IInv, TypeOK
  <2> QED BY <2>1, FS_Subset, RoomAssumption
<1>3. \A s \in own : f[s] = live[s].count /\ f[s] \in Nat
  BY DEF IInv, TypeOK, LiveSet
<1>4. phase # "up" => DOMAIN live = {}
  BY DEF IInv, SetInv
<1>5. CASE Holds(t)
  <2>1. phase = "up" /\ own = {x}
    BY <1>4, <1>5, OwnSet DEF Holds
  <2>2. Held(t) = f[x]
    BY <1>3, <1>5, <2>1 DEF Held
  <2>3. x \in own /\ own \ {x} = {}
    BY <2>1
  <2> HIDE DEF own, f, x
  <2>4. Sum(f, own) = f[x] + Sum(f, own \ {x}) /\ f[x] \in Nat
    BY <1>2, <1>3, <2>3, SumRemove
  <2>5. Sum(f, own \ {x}) = 0
    BY <2>3, SumEmpty
  <2> QED BY <1>1, <2>2, <2>4, <2>5
<1>6. CASE ~Holds(t)
  <2>1. own = {}
    BY <1>4, <1>6 DEF IInv, SetInv, Holds
  <2>2. Held(t) = 0
    BY <1>6 DEF Held
  <2> HIDE DEF own, f
  <2> QED BY <1>1, <2>1, <2>2, SumEmpty
<1> QED BY <1>5, <1>6

\* The invariant says what the property does.
LEMMA CountedRightHolds ==
    ASSUME IInv, CountInv
    PROVE  CountedRight
<1>1. CountedOnce
  <2> SUFFICES ASSUME NEW t \in Threads
               PROVE  SumFunctionOnSet([m \in Markers |-> Counted(t, m)], Markers) + Uncollected(t)
                        <= work[t]
    BY DEF CountedOnce
  <2>1. OnceFor(t)
    BY DEF CountInv
  <2> QED BY <2>1, UncollectedHeld DEF OnceFor, Total, Sum
<1>2. CountedExactly
  <2> SUFFICES ASSUME ~failed, NEW t \in Threads, NEW m \in Markers, pc[t] # "stop"
               PROVE  Counted(t, m) + (IF m \in ToSetOf(open[t]) THEN Uncollected(t) ELSE 0)
                        = inside[t][m]
    BY DEF CountedExactly
  <2>1. RightFor(t)
    BY DEF CountInv
  <2>2. Current(t) = ToSetOf(open[t])
    BY DEF Current
  <2> QED BY <2>1, <2>2, UncollectedHeld DEF RightFor
<1> QED BY <1>1, <1>2 DEF CountedRight

-----------------------------------------------------------------------------
(* What a step leaves alone.                                               *)

SameFor(u) ==
    /\ pc'[u] = pc[u] /\ open'[u] = open[u] /\ marker'[u] = marker[u]
    /\ inside'[u] = inside[u] /\ work'[u] = work[u]
    /\ \A m \in Markers : Counted(u, m)' = Counted(u, m)
    /\ Holds(u)' <=> Holds(u)
    /\ Runs(u)' <=> Runs(u)
    /\ Held(u)' = Held(u)

LEMMA TotalSame ==
    ASSUME NEW u \in Threads, \A m \in Markers : Counted(u, m)' = Counted(u, m)
    PROVE  Total(u)' = Total(u)
<1>1. [m \in Markers |-> Counted(u, m)]' = [m \in Markers |-> Counted(u, m)]
  OBVIOUS
<1> QED BY <1>1 DEF Total

LEMMA SameKeeps ==
    ASSUME NEW u \in Threads, SameFor(u)
    PROVE  (OnceFor(u) => OnceFor(u)') /\ (RightFor(u) => RightFor(u)')
<1>1. Total(u)' = Total(u)
  BY TotalSame DEF SameFor
<1>2. OnceFor(u) => OnceFor(u)'
  BY <1>1 DEF OnceFor, SameFor
<1>3. Current(u)' = Current(u)
  BY DEF SameFor, Current
<1>4. RightFor(u) => RightFor(u)'
  BY <1>3 DEF RightFor, SameFor
<1> QED BY <1>2, <1>4

\* A thread that holds no more than the work it has done since.
LEMMA OnceKept ==
    ASSUME IInv, NEW u \in Threads, OnceFor(u), \A m \in Markers : Counted(u, m)' = Counted(u, m),
           NEW d \in Nat, Held(u)' \in Nat, Held(u)' <= Held(u) + d, work'[u] = work[u] + d
    PROVE  OnceFor(u)'
<1>1. Total(u)' = Total(u)
  BY TotalSame
<1>2. Total(u) + Held(u) <= work[u]
  BY DEF OnceFor
<1>3. Total(u)' + Held(u)' <= work'[u]
  BY <1>1, <1>2, CountTypes
<1> QED BY <1>3 DEF OnceFor

\* One thread acts, the others are as they were.
LEMMA OneActs ==
    ASSUME CountInv, NEW t \in Threads, \A u \in Threads \ {t} : SameFor(u), failed => failed',
           ClearInv', OnceFor(t)', ~failed' => RightFor(t)'
    PROVE  CountInv'
<1>1. \A u \in Threads : OnceFor(u)'
  BY SameKeeps DEF CountInv
<1>2. ~failed' => \A u \in Threads : RightFor(u)'
  BY SameKeeps DEF CountInv
<1> QED BY <1>1, <1>2 DEF CountInv

LEMMA NobodyActs ==
    ASSUME CountInv, \A u \in Threads : SameFor(u), failed => failed', ClearInv'
    PROVE  CountInv'
<1>1. \A u \in Threads : OnceFor(u)'
  BY SameKeeps DEF CountInv
<1>2. ~failed' => \A u \in Threads : RightFor(u)'
  BY SameKeeps DEF CountInv
<1> QED BY <1>1, <1>2 DEF CountInv

\* A step of t on its own slot, and on no event set but x.
TouchesOnly(t, x) ==
    /\ Served(t) /\ answer' = answer /\ table' = table
    /\ \A i \in Slots \ {answer[t]} : /\ event_set'[i] = event_set[i]
                                      /\ \A m \in Markers : counters'[m][i] = counters[m][i]
    /\ x \in Sets /\ (x \in DOMAIN live => live[x].owner = t)
    /\ \A s \in Sets \ {x} : /\ s \in DOMAIN live' <=> s \in DOMAIN live
                             /\ s \in DOMAIN live => live'[s] = live[s]
    /\ UNCHANGED <<inside, work>>
    /\ \A u \in Threads \ {t} : pc'[u] = pc[u] /\ open'[u] = open[u] /\ marker'[u] = marker[u]

LEMMA TouchedSame ==
    ASSUME IInv, phase = "up", NEW t \in Threads, NEW x, TouchesOnly(t, x),
           DOMAIN live' \subseteq Sets, NEW u \in Threads \ {t}
    PROVE  SameFor(u)
<1>1. /\ answer'[u] = answer[u] /\ pc'[u] = pc[u] /\ open'[u] = open[u] /\ marker'[u] = marker[u]
      /\ inside'[u] = inside[u] /\ work'[u] = work[u]
  BY DEF TouchesOnly
<1>2. CASE ~Served(u)
  BY <1>1, <1>2 DEF SameFor, Counted, Holds, Held, Runs, Served
<1>3. CASE Served(u)
  <2> DEFINE i == answer[u]
             y == event_set[i]
  <2>1. i \in Slots \ {answer[t]} /\ answer'[u] = i
    BY <1>1, <1>3, OwnSlot DEF TouchesOnly, Served
  <2>2. event_set'[i] = y /\ \A m \in Markers : counters'[m][i] = counters[m][i]
    BY <2>1 DEF TouchesOnly
  <2>3. y # x
    <3>1. y \in DOMAIN live => live[y].owner = u
      BY <1>3, OwnSet
    <3>2. y = PAPI_NULL \/ y \in DOMAIN live
      BY <1>3, OwnSet
    <3>3. x \in Sets /\ (x \in DOMAIN live => live[x].owner = t)
      BY DEF TouchesOnly
    <3> QED BY <3>1, <3>2, <3>3, UsageAssumption
  <2>4. (y \in DOMAIN live' <=> y \in DOMAIN live) /\ (y \in DOMAIN live => live'[y] = live[y])
    <3>1. y \in Sets => /\ y \in DOMAIN live' <=> y \in DOMAIN live
                        /\ y \in DOMAIN live => live'[y] = live[y]
      BY <2>3 DEF TouchesOnly
    <3>2. DOMAIN live \subseteq Sets
      BY DEF IInv, TypeOK
    <3> QED BY <3>1, <3>2
  <2> HIDE DEF y
  <2>5. \A m \in Markers : Counted(u, m)' = Counted(u, m)
    BY <2>1, <2>2 DEF Counted
  <2>6. (Holds(u)' <=> y \in DOMAIN live') /\ (Holds(u) <=> y \in DOMAIN live)
    BY <2>1, <2>2 DEF Holds, Served, y
  <2>7. /\ Holds(u) => Held(u) = live[y].count /\ (Runs(u) <=> live[y].running)
        /\ Holds(u)' => Held(u)' = live'[y].count /\ (Runs(u)' <=> live'[y].running)
    BY <2>1, <2>2 DEF Held, Runs, y
  <2>8. /\ ~Holds(u) => Held(u) = 0 /\ ~Runs(u)
        /\ ~Holds(u)' => Held(u)' = 0 /\ ~Runs(u)'
    BY DEF Held, Runs
  <2> QED BY <1>1, <2>4, <2>5, <2>6, <2>7, <2>8 DEF SameFor
<1> QED BY <1>2, <1>3

LEMMA TouchedClear ==
    ASSUME IInv, ClearInv, NEW t \in Threads, NEW x, TouchesOnly(t, x)
    PROVE  ClearInv'
<1>1. <<answer[t], t>> \in table
  BY DEF TouchesOnly, IInv, SlotInv
<1>2. \A i \in Slots : (\A e \in table : e[1] # i) => i # answer[t]
  BY <1>1
<1> QED BY <1>2 DEF ClearInv, TouchesOnly

-----------------------------------------------------------------------------
(* The steps and the counts.                                               *)

LEMMA InitCounts == Init => CountInv
<1> SUFFICES ASSUME Init PROVE CountInv OBVIOUS
<1>1. ClearInv
  BY DEF Init, ClearInv
<1>2. \A t \in Threads : ~Served(t) /\ pc[t] = "out" /\ open[t] = <<>> /\ work[t] = 0
  BY DEF Init, Registry!Init, Served, Slots
<1>3. \A t \in Threads : /\ ~Holds(t) /\ Held(t) = 0 /\ Current(t) = {}
                         /\ \A m \in Markers : Counted(t, m) = 0 /\ inside[t][m] = 0
  BY <1>2 DEF Init, Holds, Held, Current, ToSetOf, Counted, Served
<1>4. ASSUME NEW t \in Threads PROVE Total(t) = 0
  <2> DEFINE row == [m \in Markers |-> Counted(t, m)]
  <2>1. \A m \in Markers : row[m] = 0
    BY <1>3
  <2> HIDE DEF row
  <2>2. Sum(row, Markers) = 0
    BY <2>1, SumZero, UsageAssumption
  <2> QED BY <2>2 DEF Total, row
<1>5. \A t \in Threads : OnceFor(t)
  BY <1>2, <1>3, <1>4 DEF OnceFor
<1>6. \A t \in Threads : RightFor(t)
  BY <1>2, <1>3 DEF RightFor
<1> QED BY <1>1, <1>5, <1>6 DEF CountInv

LEMMA UntouchedCounts ==
    ASSUME CountInv, failed => failed',
           UNCHANGED <<table, answer, event_set, live, counters, pc, marker, open, work, inside>>
    PROVE  CountInv'
<1>1. \A u \in Threads : SameFor(u)
  BY DEF SameFor, Counted, Holds, Held, Runs, Served
<1>2. ClearInv'
  BY DEF CountInv, ClearInv
<1> QED BY <1>1, <1>2, NobodyActs

\* The shutdown drops every set, and while nothing failed there is none.
LEMMA ShutdownCounts ==
    ASSUME IInv, CountInv, Shutdown
    PROVE  CountInv'
<1>1. /\ live' = <<>> /\ \A t \in Threads : pc[t] = "out" /\ open[t] = <<>>
      /\ UNCHANGED <<table, answer, event_set, counters, failed, pc, marker, open, work, inside>>
  BY DEF Shutdown, registryVars, workVars
<1>2. DOMAIN live' = {}
  BY <1>1
<1>3. ClearInv'
  BY <1>1 DEF CountInv, ClearInv
<1>4. \A t \in Threads : /\ ~Holds(t)' /\ Held(t)' = 0 /\ ~Runs(t)'
                         /\ \A m \in Markers : Counted(t, m)' = Counted(t, m)
  BY <1>1, <1>2 DEF Holds, Held, Runs, Counted
<1>5. ASSUME NEW t \in Threads PROVE OnceFor(t)'
  <2>1. OnceFor(t) /\ work'[t] = work[t] + 0 /\ Held(t)' <= Held(t) + 0
    BY <1>1, <1>4, <1>5, CountTypes DEF CountInv
  <2> QED BY <1>4, <2>1, OnceKept
<1>6. ASSUME ~failed', NEW t \in Threads PROVE RightFor(t)'
  <2>1. RightFor(t) /\ open[t] = <<>> /\ pc[t] = "out"
    BY <1>1, <1>6 DEF CountInv
  <2>2. Current(t) = {} /\ Current(t)' = {}
    BY <1>1, <2>1 DEF Current, ToSetOf
  <2>3. \A m \in Markers : Counted(t, m)' + 0 = inside'[t][m]
    BY <1>1, <1>4, <2>1, <2>2, CountTypes DEF RightFor
  <2> QED BY <1>1, <1>4, <2>1, <2>2, <2>3 DEF RightFor
<1> QED BY <1>3, <1>5, <1>6 DEF CountInv

LEMMA MarkerStartCounts ==
    ASSUME IInv, CountInv, NEW t \in Threads, MarkerStart(t)
    PROVE  CountInv'
<1>1. PICK m \in Markers : marker' = [marker EXCEPT ![t] = m]
  BY DEF MarkerStart
<1>2. /\ pc[t] = "out" /\ pc' = [pc EXCEPT ![t] = "start"]
      /\ UNCHANGED <<table, answer, event_set, live, counters, failed, open, work, inside>>
  BY DEF MarkerStart, Registry!Begin, papiVars, workVars
<1>3. pc'[t] = "start" /\ \A u \in Threads \ {t} : pc'[u] = pc[u] /\ marker'[u] = marker[u]
  BY <1>1, <1>2 DEF IInv, TypeOK
<1>4. ClearInv'
  BY <1>2 DEF CountInv, ClearInv
<1>5. \A u \in Threads : /\ \A x \in Markers : Counted(u, x)' = Counted(u, x)
                         /\ (Holds(u)' <=> Holds(u)) /\ (Runs(u)' <=> Runs(u))
                         /\ Held(u)' = Held(u)
  BY <1>2 DEF Counted, Holds, Held, Runs, Served
<1>6. \A u \in Threads \ {t} : SameFor(u)
  BY <1>2, <1>3, <1>5 DEF SameFor
<1>7. OnceFor(t)'
  <2>1. OnceFor(t) /\ Total(t)' = Total(t)
    BY <1>5, TotalSame DEF CountInv
  <2> QED BY <1>2, <1>5, <2>1 DEF OnceFor
<1>8. ~failed' => RightFor(t)'
  <2>1. Current(t)' = Current(t)
    BY <1>2, <1>3 DEF Current
  <2> QED BY <1>2, <1>3, <1>5, <2>1 DEF CountInv, RightFor
<1> QED BY <1>2, <1>4, <1>6, <1>7, <1>8, OneActs

\* The marker that is stopped is the one that the thread is in.
LEMMA MarkerStopCounts ==
    ASSUME IInv, CountInv, NEW t \in Threads, MarkerStop(t)
    PROVE  CountInv'
<1> DEFINE m == open[t][Len(open[t])]
           p == SubSeq(open[t], 1, Len(open[t]) - 1)
<1>1. /\ pc[t] = "out" /\ open[t] # <<>>
      /\ pc' = [pc EXCEPT ![t] = "stop"]
      /\ marker' = [marker EXCEPT ![t] = m] /\ open' = [open EXCEPT ![t] = p]
      /\ UNCHANGED <<table, answer, event_set, live, counters, failed, work, inside>>
  BY DEF MarkerStop, Registry!Begin, papiVars, workVars
<1> HIDE DEF m, p
<1>2. /\ pc'[t] = "stop" /\ marker'[t] = m /\ open'[t] = p
      /\ \A u \in Threads \ {t} : pc'[u] = pc[u] /\ marker'[u] = marker[u] /\ open'[u] = open[u]
  BY <1>1 DEF IInv, TypeOK
<1>3. ClearInv'
  BY <1>1 DEF CountInv, ClearInv
<1>4. \A u \in Threads : /\ \A x \in Markers : Counted(u, x)' = Counted(u, x)
                         /\ (Holds(u)' <=> Holds(u)) /\ (Runs(u)' <=> Runs(u))
                         /\ Held(u)' = Held(u)
  BY <1>1 DEF Counted, Holds, Held, Runs, Served
<1>5. \A u \in Threads \ {t} : SameFor(u)
  BY <1>1, <1>2, <1>4 DEF SameFor
<1>6. OnceFor(t)'
  <2>1. OnceFor(t) /\ Total(t)' = Total(t)
    BY <1>4, TotalSame DEF CountInv
  <2> QED BY <1>1, <1>4, <2>1 DEF OnceFor
<1>7. ASSUME ~failed' PROVE RightFor(t)'
  <2>1. RightFor(t)
    BY <1>1, <1>7 DEF CountInv
  <2>2. PICK x \in Markers : open[t] = <<x>>
    BY <1>1, <2>1 DEF RightFor
  <2>3. m = x /\ p = <<>> /\ ToSetOf(open[t]) = {x}
    BY <2>2 DEF m, p, ToSetOf
  <2>4. Current(t) = {x} /\ Current(t)' = {x}
    BY <1>1, <1>2, <2>3 DEF Current
  <2> QED BY <1>1, <1>2, <1>4, <2>1, <2>3, <2>4 DEF RightFor
<1> QED BY <1>1, <1>3, <1>5, <1>6, <1>7, OneActs

LEMMA FindOrInsertCounts ==
    ASSUME IInv, CountInv, NEW t \in Threads, FindOrInsert(t)
    PROVE  CountInv'
<1>1. PICK i \in Slots :
        /\ t \in pending /\ pending' = pending \ {t} /\ answer' = [answer EXCEPT ![t] = i]
        /\ \/ <<i, t>> \in table /\ table' = table /\ event_set' = event_set
           \/ /\ \A e \in table : e[2] # t /\ e[1] # i
              /\ table' = table \cup {<<i, t>>}
              /\ event_set' = [event_set EXCEPT ![i] = PAPI_NULL]
  BY FoundSlot
<1>2. UNCHANGED <<registered, live, counters, phase, failed, pc, marker, open, work, inside>>
  BY DEF FindOrInsert, workVars
<1>3. CASE <<i, t>> \in table
  <2>1. answer' = answer /\ table' = table /\ event_set' = event_set
    BY <1>1, <1>3 DEF IInv, TypeOK, SlotInv
  <2> QED BY <1>2, <2>1, UntouchedCounts
<1>4. CASE <<i, t>> \notin table
  <2>1. /\ \A e \in table : e[2] # t /\ e[1] # i
        /\ table' = table \cup {<<i, t>>} /\ answer'[t] = i
        /\ \A u \in Threads \ {t} : answer'[u] = answer[u]
        /\ event_set'[i] = PAPI_NULL /\ \A k \in Slots \ {i} : event_set'[k] = event_set[k]
    BY <1>1, <1>4 DEF IInv, TypeOK
  <2>2. ClearInv'
    BY <1>2, <2>1 DEF CountInv, ClearInv
  <2>3. ~Served(t) /\ \A u \in Threads : Served(u) => answer[u] # i
    BY <2>1 DEF IInv, SlotInv
  <2>4. ASSUME NEW u \in Threads \ {t} PROVE SameFor(u)
    <3>1. answer'[u] = answer[u] /\ (Served(u) => event_set'[answer[u]] = event_set[answer[u]])
      BY <2>1, <2>3 DEF Served
    <3> QED BY <1>2, <3>1 DEF SameFor, Counted, Holds, Held, Runs, Served
  <2>5. SameFor(t)
    <3>1. PAPI_NULL \notin DOMAIN live
      BY UsageAssumption DEF IInv, TypeOK
    <3>2. ~Holds(t) /\ ~Holds(t)' /\ Held(t) = 0 /\ Held(t)' = 0 /\ ~Runs(t) /\ ~Runs(t)'
      BY <1>2, <2>1, <2>3, <3>1 DEF Holds, Held, Runs
    <3>3. \A m \in Markers : Counted(t, m) = 0 /\ Counted(t, m)' = 0
      BY <1>2, <2>1, <2>3 DEF CountInv, ClearInv, Counted, Served
    <3> QED BY <1>2, <3>2, <3>3 DEF SameFor
  <2> QED BY <1>2, <2>2, <2>4, <2>5, NobodyActs
<1> QED BY <1>3, <1>4

\* A start that fails early resets a set or none.
LEMMA ResetCounts ==
    ASSUME IInv, CountInv, NEW t \in Threads, Starting(t), Started(t), ResetAny, failed' = TRUE,
           UNCHANGED event_set
    PROVE  CountInv'
<1>1. UNCHANGED <<table, answer, counters, work, inside>>
  BY StartedCall
<1>2. ClearInv'
  BY <1>1 DEF CountInv, ClearInv
<1>3. DOMAIN live' = DOMAIN live
      /\ \A s \in DOMAIN live : live'[s].count \in Nat /\ live'[s].count <= live[s].count
  <2>1. \A s \in DOMAIN live : s \in Sets /\ live[s] \in LiveSet /\ live[s].count \in Nat
    BY DEF IInv, TypeOK, LiveSet
  <2>2. CASE UNCHANGED live
    BY <2>1, <2>2
  <2>3. ASSUME NEW s \in DOMAIN live, With(s, [live[s] EXCEPT !.count = 0])
        PROVE  DOMAIN live' = DOMAIN live
               /\ \A x \in DOMAIN live : live'[x].count \in Nat /\ live'[x].count <= live[x].count
    <3> DEFINE rec == [live[s] EXCEPT !.count = 0]
    <3>1. rec \in LiveSet /\ rec.count = 0
      BY <2>1 DEF LiveSet
    <3>2. With(s, rec)
      BY <2>3
    <3> HIDE DEF rec
    <3>3. DOMAIN live' = DOMAIN live \cup {s} /\ live'[s] = rec
          /\ \A x \in DOMAIN live \ {s} : live'[x] = live[x]
      BY <2>1, <3>1, <3>2, WithFacts DEF IInv
    <3>4. DOMAIN live \cup {s} = DOMAIN live
      OBVIOUS
    <3> QED BY <2>1, <3>1, <3>3, <3>4
  <2> QED BY <2>2, <2>3 DEF ResetAny
<1>4. ASSUME NEW u \in Threads PROVE OnceFor(u)'
  <2>1. \A m \in Markers : Counted(u, m)' = Counted(u, m)
    BY <1>1 DEF Counted
  <2>2. Holds(u)' <=> Holds(u)
    BY <1>1, <1>3 DEF Holds, Served
  <2>3. Held(u)' \in Nat /\ Held(u)' <= Held(u)
    BY <1>1, <1>3, <2>2 DEF Held, Holds
  <2>4. Held(u)' <= Held(u) + 0 /\ work'[u] = work[u] + 0 /\ OnceFor(u)
    BY <1>1, <2>3, CountTypes DEF CountInv
  <2> QED BY <2>1, <2>3, <2>4, OnceKept
<1> QED BY <1>2, <1>4 DEF CountInv

\* What a start does besides event_set and the sets.
LEMMA StartedOwn ==
    ASSUME IInv, NEW t \in Threads, Starting(t), Started(t)
    PROVE  /\ phase = "up" /\ Served(t) /\ answer' = answer /\ table' = table
           /\ UNCHANGED <<counters, inside, work>> /\ marker[t] \in Markers /\ pc[t] = "start"
           /\ pc'[t] = "out" /\ open'[t] = Append(open[t], marker[t])
           /\ \A u \in Threads \ {t} : pc'[u] = pc[u] /\ open'[u] = open[u] /\ marker'[u] = marker[u]
<1>1. /\ pc[t] = "start"
      /\ open' = [open EXCEPT ![t] = Append(@, marker[t])]
      /\ pc' = [pc EXCEPT ![t] = "out"] /\ marker' = [marker EXCEPT ![t] = NoMarker]
  BY DEF Starting, Started
<1>2. marker[t] \in Markers
  BY <1>1 DEF IInv, CallInv
<1> QED BY <1>1, <1>2, StartedCall DEF IInv, TypeOK

\* A new set has counted nothing.
LEMMA NewSetCounts ==
    ASSUME IInv, CountInv, NEW t \in Threads, Starting(t), Started(t), failed => failed',
           event_set[answer[t]] = PAPI_NULL, NEW s \in Sets \ DOMAIN live, NEW rec \in LiveSet,
           rec.count = 0, ~failed' => rec.running,
           event_set' = [event_set EXCEPT ![answer[t]] = s], With(s, rec)
    PROVE  CountInv'
<1>1. /\ DOMAIN live' = DOMAIN live \cup {s} /\ live'[s] = rec
      /\ \A x \in DOMAIN live : live'[x] = live[x]
      /\ DOMAIN live' \subseteq Sets
  BY WithFacts DEF IInv
<1>2. answer[t] \in Slots /\ answer' = answer /\ phase = "up"
  BY StartedOwn DEF Served
<1>3. event_set'[answer[t]] = s /\ \A i \in Slots \ {answer[t]} : event_set'[i] = event_set[i]
  BY <1>2 DEF IInv, TypeOK
<1>4. TouchesOnly(t, s)
  BY <1>1, <1>3, StartedOwn DEF TouchesOnly
<1>5. ClearInv' /\ \A u \in Threads \ {t} : SameFor(u)
  BY <1>1, <1>2, <1>4, TouchedClear, TouchedSame DEF CountInv
<1>6. ~Holds(t) /\ Held(t) = 0
  BY UsageAssumption DEF Holds, Held, IInv, TypeOK
<1>7. /\ Holds(t)' /\ Held(t)' = 0 /\ (Runs(t)' <=> rec.running)
  BY <1>1, <1>2, <1>3 DEF Holds, Held, Runs, Served
<1>8. \A m \in Markers : Counted(t, m)' = Counted(t, m)
  BY <1>2, StartedOwn DEF Counted
<1>9. OnceFor(t)'
  <2>1. work'[t] = work[t] + 0 /\ Held(t)' <= Held(t) + 0 /\ Held(t)' \in Nat /\ OnceFor(t)
    BY <1>6, <1>7, StartedOwn, CountTypes DEF CountInv
  <2> QED BY <1>8, <2>1, OnceKept
<1>10. ASSUME ~failed' PROVE RightFor(t)'
  <2>1. RightFor(t)
    BY <1>10 DEF CountInv
  <2>2. Current(t) = {} /\ open[t] = <<>>
    <3>1. Current(t) = {} /\ Current(t) = ToSetOf(open[t])
      BY <1>6, <2>1, StartedOwn DEF RightFor, Runs, Current
    <3>2. \A m : open[t] = <<m>> => m \in ToSetOf(open[t])
      BY DEF ToSetOf
    <3> QED BY <2>1, <3>1, <3>2 DEF RightFor
  <2>3. open'[t] = <<marker[t]>> /\ pc'[t] = "out"
    BY <2>2, StartedOwn
  <2>4. Current(t)' = {marker[t]}
    BY <2>3 DEF Current, ToSetOf
  <2>5. \A m \in Markers : Counted(t, m)' + 0 = inside'[t][m]
    BY <1>8, <2>1, <2>2, StartedOwn, CountTypes DEF RightFor
  <2> QED BY <1>7, <1>10, <2>3, <2>4, <2>5, StartedOwn DEF RightFor
<1> QED BY <1>5, <1>9, <1>10, OneActs

LEMMA AddOrStartFailsCounts ==
    ASSUME IInv, CountInv, NEW t \in Threads, AddOrStartFails(t)
    PROVE  CountInv'
<1>1. PICK s \in Sets \ DOMAIN live, k \in 0 .. NumEvents :
        /\ event_set' = [event_set EXCEPT ![answer[t]] = s]
        /\ With(s, [owner |-> t, added |-> k, running |-> FALSE, count |-> 0])
  BY DEF AddOrStartFails
<1> DEFINE rec == [owner |-> t, added |-> k, running |-> FALSE, count |-> 0]
<1>2. rec \in LiveSet /\ rec.count = 0
  BY DEF LiveSet
<1>3. Starting(t) /\ Started(t) /\ event_set[answer[t]] = PAPI_NULL /\ failed' = TRUE
  BY DEF AddOrStartFails
<1>4. With(s, rec)
  BY <1>1
<1> HIDE DEF rec
<1> QED BY <1>1, <1>2, <1>3, <1>4, NewSetCounts

LEMMA StartSucceedsCounts ==
    ASSUME IInv, CountInv, NEW t \in Threads, StartSucceeds(t)
    PROVE  CountInv'
<1>1. PICK s \in Sets \ DOMAIN live :
        /\ event_set' = [event_set EXCEPT ![answer[t]] = s]
        /\ With(s, [owner |-> t, added |-> NumEvents, running |-> TRUE, count |-> 0])
  BY DEF StartSucceeds
<1> DEFINE rec == [owner |-> t, added |-> NumEvents, running |-> TRUE, count |-> 0]
<1>2. rec \in LiveSet /\ rec.count = 0 /\ rec.running
  BY UsageAssumption DEF LiveSet
<1>3. Starting(t) /\ Started(t) /\ event_set[answer[t]] = PAPI_NULL /\ failed' = failed
  BY DEF StartSucceeds
<1>4. With(s, rec)
  BY <1>1
<1> HIDE DEF rec
<1> QED BY <1>1, <1>2, <1>3, <1>4, NewSetCounts

-----------------------------------------------------------------------------
(* A marker_stop and the counts.                                           *)

\* What a stop does besides event_set, the sets and counters.
LEMMA StoppedOwn ==
    ASSUME IInv, NEW t \in Threads, Stopping(t), Stopped(t)
    PROVE  /\ phase = "up" /\ Served(t) /\ answer' = answer /\ table' = table
           /\ UNCHANGED <<open, inside, work>> /\ marker[t] \in Markers /\ pc[t] = "stop"
           /\ pc'[t] = "out"
           /\ \A u \in Threads \ {t} : pc'[u] = pc[u] /\ open'[u] = open[u] /\ marker'[u] = marker[u]
<1>1. /\ pc[t] = "stop"
      /\ pc' = [pc EXCEPT ![t] = "out"] /\ marker' = [marker EXCEPT ![t] = NoMarker]
  BY DEF Stopping, Stopped
<1> QED BY <1>1, StoppedCall DEF IInv, TypeOK

\* One counter of one slot grows.
LEMMA Accumulated ==
    ASSUME IInv, NEW t \in Threads, Served(t), marker[t] \in Markers, NEW n \in Nat,
           Accumulate(t, n), answer' = answer
    PROVE  /\ \A m \in Markers :
                 Counted(t, m)' = Counted(t, m) + IF m = marker[t] THEN n ELSE 0
           /\ \A i \in Slots \ {answer[t]}, m \in Markers : counters'[m][i] = counters[m][i]
           /\ Total(t)' = Total(t) + n
<1> DEFINE k == marker[t]
           i == answer[t]
<1>1. k \in Markers /\ i \in Slots /\ counters \in [Markers -> [Slots -> Nat]]
  BY DEF IInv, TypeOK, Served
<1>2. counters' = [counters EXCEPT ![k][i] = @ + n]
  BY DEF Accumulate
<1>3. \A m \in Markers : Counted(t, m) = counters[m][i] /\ Counted(t, m)' = counters'[m][i]
  BY DEF Counted, Served
<1>4. \A j \in Slots \ {i}, m \in Markers : counters'[m][j] = counters[m][j]
  <2> HIDE DEF k, i
  <2> QED BY <1>1, <1>2
<1>5. counters'[k][i] = counters[k][i] + n /\ \A m \in Markers \ {k} : counters'[m][i] = counters[m][i]
  <2> HIDE DEF k, i
  <2> QED BY <1>1, <1>2
<1>6. \A m \in Markers :
         /\ Counted(t, m) \in Nat
         /\ Counted(t, m)' = Counted(t, m) + IF m = k THEN n ELSE 0
  <2> TAKE m \in Markers
  <2>1. Counted(t, m) \in Nat
    BY CountTypes
  <2>2. CASE m = k
    BY <1>3, <1>5, <2>1, <2>2
  <2>3. CASE m # k
    BY <1>3, <1>5, <2>1, <2>3
  <2> QED BY <2>1, <2>2, <2>3
<1>7. Total(t)' = Total(t) + n
  <2> DEFINE f == [m \in Markers |-> Counted(t, m)]
             g == [m \in Markers |-> Counted(t, m)']
  <2>1. /\ f[k] \in Nat /\ g[k] = f[k] + n
        /\ \A m \in Markers \ {k} : f[m] \in Nat /\ g[m] = f[m]
    BY <1>1, <1>6
  <2>2. Total(t) = Sum(f, Markers) /\ Total(t)' = Sum(g, Markers)
    BY DEF Total
  <2> HIDE DEF f, g, k, i
  <2>3. g[k] \in Nat
    BY <2>1
  <2>4. /\ Sum(f, Markers) \in Nat /\ Sum(g, Markers) \in Nat
        /\ Sum(g, Markers) + f[k] = Sum(f, Markers) + g[k]
    BY <1>1, <2>1, <2>3, SumChange, UsageAssumption
  <2> QED BY <2>1, <2>2, <2>4
<1> QED BY <1>4, <1>6, <1>7

\* What is moved from the set to counters was in the set.
LEMMA MovedCounts ==
    ASSUME IInv, CountInv, NEW t \in Threads, Stopping(t), Stopped(t), failed => failed',
           NEW x, x = event_set[answer[t]], x \in DOMAIN live, TouchesOnly(t, x),
           DOMAIN live' \subseteq Sets,
           NEW n \in Nat, Accumulate(t, n), Held(t)' \in Nat, Held(t)' + n <= live[x].count,
           ~failed' => ~Holds(t)' /\ n = live[x].count
    PROVE  CountInv'
<1>1. ClearInv' /\ \A u \in Threads \ {t} : SameFor(u)
  BY StoppedOwn, TouchedClear, TouchedSame DEF CountInv
<1>2. Holds(t) /\ Held(t) = live[x].count
  BY StoppedOwn DEF Holds, Held
<1>3. /\ \A m \in Markers :
            Counted(t, m)' = Counted(t, m) + IF m = marker[t] THEN n ELSE 0
      /\ Total(t)' = Total(t) + n
  BY StoppedOwn, Accumulated
<1>4. OnceFor(t)'
  <2>1. Total(t) + Held(t) <= work[t] /\ work'[t] = work[t]
    BY StoppedOwn DEF CountInv, OnceFor
  <2>2. Total(t)' + Held(t)' <= work'[t]
    BY <1>2, <1>3, <2>1, CountTypes
  <2> QED BY <2>2 DEF OnceFor
<1>5. ASSUME ~failed' PROVE RightFor(t)'
  <2>1. RightFor(t) /\ open[t] = <<>> /\ open'[t] = <<>> /\ pc'[t] = "out"
    BY <1>5, StoppedOwn DEF CountInv, RightFor
  <2>2. Current(t) = {marker[t]} /\ Current(t)' = {}
    BY <2>1, StoppedOwn DEF Current, ToSetOf
  <2>3. \A m \in Markers : Counted(t, m)' + 0 = inside'[t][m]
    <3> TAKE m \in Markers
    <3>1. Counted(t, m) + (IF m \in Current(t) THEN Held(t) ELSE 0) = inside[t][m]
      BY <2>1 DEF RightFor
    <3>2. inside'[t][m] = inside[t][m] /\ Counted(t, m) \in Nat
      BY StoppedOwn, CountTypes
    <3>3. CASE m = marker[t]
      BY <1>2, <1>3, <1>5, <2>2, <3>1, <3>2, <3>3
    <3>4. CASE m # marker[t]
      BY <1>3, <2>2, <3>1, <3>2, <3>4
    <3> QED BY <3>3, <3>4
  <2> QED BY <1>5, <2>1, <2>2, <2>3 DEF RightFor
<1> QED BY <1>1, <1>4, <1>5, OneActs

\* The set stays in the slot with what was not moved.
LEMMA LeftSetCounts ==
    ASSUME IInv, CountInv, NEW t \in Threads, Stopping(t), Stopped(t), failed' = TRUE,
           UNCHANGED event_set,
           NEW s, s = event_set[answer[t]], s \in DOMAIN live, NEW n \in Moved(t, live[s].count),
           NEW rec \in LiveSet, rec.count = live[s].count - n,
           With(s, rec), Accumulate(t, n)
    PROVE  CountInv'
<1>1. s \in Sets /\ live[s].count \in Nat
  BY DEF IInv, TypeOK, LiveSet
<1>2. /\ DOMAIN live' = DOMAIN live \cup {s} /\ live'[s] = rec
      /\ \A x \in DOMAIN live \ {s} : live'[x] = live[x]
      /\ DOMAIN live' \subseteq Sets
  BY <1>1, WithFacts DEF IInv
<1>3. n \in Nat /\ live[s].count - n \in Nat
  BY <1>1, MovedType
<1>4. TouchesOnly(t, s)
  <2>1. live[s].owner = t
    BY StoppedOwn, OwnSet
  <2>2. \A i \in Slots \ {answer[t]}, m \in Markers : counters'[m][i] = counters[m][i]
    BY <1>3, StoppedOwn, Accumulated
  <2> QED BY <1>1, <1>2, <2>1, <2>2, StoppedOwn DEF TouchesOnly
<1>5. Held(t)' = live[s].count - n
  BY <1>2, StoppedOwn DEF Held, Holds, Served
<1>6. Held(t)' \in Nat /\ Held(t)' + n <= live[s].count
  BY <1>1, <1>3, <1>5
<1> QED BY <1>2, <1>3, <1>4, <1>6, MovedCounts

LEMMA StopFailsCounts ==
    ASSUME IInv, CountInv, NEW t \in Threads, StopFails(t)
    PROVE  CountInv'
<1> DEFINE s == event_set[answer[t]]
<1>1. PICK n \in Moved(t, live[s].count) :
         Accumulate(t, n) /\ With(s, [live[s] EXCEPT !.count = @ - n])
  BY DEF StopFails
<1> DEFINE rec == [live[s] EXCEPT !.count = @ - n]
<1>2. s \in DOMAIN live /\ live[s] \in LiveSet /\ live[s].count \in Nat
  BY DEF StopFails, IInv, TypeOK, LiveSet
<1>3. live[s].count - n \in Nat
  BY <1>1, <1>2, MovedType
<1> HIDE DEF s
<1>4. rec \in LiveSet /\ rec.count = live[s].count - n
  BY <1>2, <1>3 DEF LiveSet
<1>5. Stopping(t) /\ Stopped(t) /\ failed' = TRUE /\ UNCHANGED event_set
  BY DEF StopFails
<1>6. With(s, rec) /\ Accumulate(t, n) /\ s = event_set[answer[t]]
  BY <1>1 DEF s
<1> HIDE DEF rec
<1> QED BY <1>2, <1>4, <1>5, <1>6, LeftSetCounts

LEMMA ReleaseFailsCounts ==
    ASSUME IInv, CountInv, NEW t \in Threads, ReleaseFails(t)
    PROVE  CountInv'
<1> DEFINE s == event_set[answer[t]]
<1>1. PICK n \in Moved(t, live[s].count), k \in 0 .. NumEvents :
         /\ Accumulate(t, n)
         /\ With(s, [live[s] EXCEPT !.count = @ - n, !.running = FALSE, !.added = @ - k])
  BY DEF ReleaseFails
<1> DEFINE rec == [live[s] EXCEPT !.count = @ - n, !.running = FALSE, !.added = @ - k]
<1>2. s \in DOMAIN live /\ live[s] \in LiveSet /\ live[s].count \in Nat /\ live[s].running
  BY DEF ReleaseFails, IInv, TypeOK, LiveSet
<1>3. live[s].count - n \in Nat
  BY <1>1, <1>2, MovedType
<1>4. live[s].added - k \in 0 .. NumEvents
  BY <1>2, UsageAssumption DEF IInv, RunsComplete
<1> HIDE DEF s
<1>5. rec \in LiveSet /\ rec.count = live[s].count - n
  BY <1>2, <1>3, <1>4 DEF LiveSet
<1>6. Stopping(t) /\ Stopped(t) /\ failed' = TRUE /\ UNCHANGED event_set
  BY DEF ReleaseFails
<1>7. With(s, rec) /\ Accumulate(t, n) /\ s = event_set[answer[t]]
  BY <1>1 DEF s
<1> HIDE DEF rec
<1> QED BY <1>2, <1>5, <1>6, <1>7, LeftSetCounts

\* Nothing stays behind, and until a call fails all has been moved.
LEMMA StopSucceedsCounts ==
    ASSUME IInv, CountInv, NEW t \in Threads, StopSucceeds(t)
    PROVE  CountInv'
<1> DEFINE s == event_set[answer[t]]
<1>1. /\ Stopping(t) /\ Stopped(t) /\ s \in DOMAIN live /\ Without(s)
      /\ event_set' = [event_set EXCEPT ![answer[t]] = PAPI_NULL]
  BY DEF StopSucceeds
<1>2. live[s].count \in Nat /\ s \in Sets
  BY <1>1 DEF IInv, TypeOK, LiveSet
<1>3. PICK n \in Nat : /\ Accumulate(t, n) /\ n <= live[s].count
                       /\ failed => failed'
                       /\ ~failed' => n = live[s].count
  <2>1. \/ Accumulate(t, live[s].count) /\ failed' = failed
        \/ failed' = TRUE /\ \E n \in Moved(t, live[s].count) : Accumulate(t, n)
    BY DEF StopSucceeds
  <2>2. CASE Accumulate(t, live[s].count) /\ failed' = failed
    <3> DEFINE c == live[s].count
    <3>1. c \in Nat /\ c <= c /\ Accumulate(t, c)
      BY <1>2, <2>2
    <3> HIDE DEF s
    <3> QED BY <2>2, <3>1
  <2>3. CASE failed' = TRUE /\ \E n \in Moved(t, live[s].count) : Accumulate(t, n)
    <3>1. PICK n \in Moved(t, live[s].count) : Accumulate(t, n)
      BY <2>3
    <3>2. n \in Nat /\ live[s].count - n \in Nat
      BY <1>2, <3>1, MovedType
    <3>3. n <= live[s].count
      <4> DEFINE c == live[s].count
      <4>1. c \in Nat /\ n \in Nat /\ c - n \in Nat
        BY <1>2, <3>2
      <4> HIDE DEF c
      <4>2. n <= c
        BY <4>1
      <4> QED BY <4>2 DEF c
    <3> QED BY <2>3, <3>1, <3>2, <3>3
  <2> QED BY <2>1, <2>2, <2>3
<1>4. /\ DOMAIN live' = DOMAIN live \ {s}
      /\ \A x \in DOMAIN live' : live'[x] = live[x]
      /\ DOMAIN live' \subseteq Sets
  BY <1>1, WithoutFacts DEF IInv
<1>5. answer[t] \in Slots /\ answer' = answer /\ live[s].owner = t
  BY <1>1, StoppedOwn, OwnSet DEF Served
<1>6. event_set'[answer[t]] = PAPI_NULL /\ \A i \in Slots \ {answer[t]} : event_set'[i] = event_set[i]
  BY <1>1, <1>5 DEF IInv, TypeOK
<1>7. ~Holds(t)' /\ Held(t)' = 0
  BY <1>4, <1>5, <1>6, UsageAssumption DEF Holds, Held, Served
<1> HIDE DEF s
<1>8. TouchesOnly(t, s)
  <2>1. \A i \in Slots \ {answer[t]}, m \in Markers : counters'[m][i] = counters[m][i]
    BY <1>1, <1>3, StoppedOwn, Accumulated
  <2> QED BY <1>1, <1>2, <1>4, <1>5, <1>6, <2>1, StoppedOwn DEF TouchesOnly
<1>9. s = event_set[answer[t]]
  BY DEF s
<1>10. Held(t)' \in Nat /\ Held(t)' + n <= live[s].count
  BY <1>3, <1>7
<1> QED BY <1>1, <1>3, <1>4, <1>7, <1>8, <1>9, <1>10, MovedCounts

\* A unit of work is counted by the running set of the thread, if it has one.
LEMMA WorkCounts ==
    ASSUME IInv, CountInv, NEW t \in Threads, Work(t)
    PROVE  CountInv'
<1>1. /\ phase = "up" /\ pc[t] = "out"
      /\ work' = [work EXCEPT ![t] = @ + 1]
      /\ inside' = [inside EXCEPT ![t] = [m \in Markers |->
                        @[m] + IF m \in ToSetOf(open[t]) THEN 1 ELSE 0]]
      /\ live' = [s \in DOMAIN live |->
                     IF live[s].owner = t /\ live[s].running
                     THEN [live[s] EXCEPT !.count = @ + 1] ELSE live[s]]
      /\ UNCHANGED <<table, answer, event_set, counters, failed, pc, marker, open>>
  BY DEF Work, registryVars
<1>2. /\ work'[t] = work[t] + 1
      /\ \A m \in Markers : inside'[t][m] = inside[t][m] + IF m \in ToSetOf(open[t]) THEN 1 ELSE 0
      /\ \A u \in Threads \ {t} : work'[u] = work[u] /\ inside'[u] = inside[u]
  BY <1>1 DEF IInv, TypeOK
<1>3. DOMAIN live' = DOMAIN live
      /\ \A s \in DOMAIN live :
            /\ live'[s].running = live[s].running
            /\ live[s].owner # t \/ ~live[s].running => live'[s] = live[s]
            /\ live[s].owner = t /\ live[s].running => live'[s].count = live[s].count + 1
  <2>1. DOMAIN live' = DOMAIN live
    BY <1>1
  <2>2. ASSUME NEW s \in DOMAIN live
        PROVE  /\ live'[s].running = live[s].running
               /\ live[s].owner # t \/ ~live[s].running => live'[s] = live[s]
               /\ live[s].owner = t /\ live[s].running => live'[s].count = live[s].count + 1
    <3>1. live'[s] = IF live[s].owner = t /\ live[s].running
                     THEN [live[s] EXCEPT !.count = @ + 1] ELSE live[s]
      BY <1>1
    <3>2. live[s] \in LiveSet
      BY DEF IInv, TypeOK
    <3> QED BY <3>1, <3>2 DEF LiveSet
  <2> QED BY <2>1, <2>2
<1>4. ClearInv'
  BY <1>1 DEF CountInv, ClearInv
<1>5. \A u \in Threads : /\ \A x \in Markers : Counted(u, x)' = Counted(u, x)
                         /\ (Holds(u)' <=> Holds(u)) /\ (Runs(u)' <=> Runs(u))
                         /\ Current(u)' = Current(u)
  BY <1>1, <1>3 DEF Counted, Holds, Runs, Served, Current
<1>6. ASSUME NEW u \in Threads \ {t} PROVE SameFor(u)
  <2>1. Held(u)' = Held(u)
    <3>1. CASE Holds(u)
      <4>1. live[event_set[answer[u]]].owner = u
        BY <1>1, <3>1, OwnSet DEF Holds
      <4> QED BY <1>1, <1>3, <3>1, <4>1, <1>5 DEF Held, Holds
    <3>2. CASE ~Holds(u)
      BY <1>5, <3>2 DEF Held
    <3> QED BY <3>1, <3>2
  <2> QED BY <1>1, <1>2, <1>5, <2>1 DEF SameFor
<1>7. Held(t)' = Held(t) + IF Runs(t) THEN 1 ELSE 0
  <2>1. CASE Holds(t)
    <3> DEFINE x == event_set[answer[t]]
    <3>1. live[x].owner = t /\ x \in DOMAIN live
      BY <1>1, <2>1, OwnSet DEF Holds
    <3>2. Held(t) = live[x].count /\ Held(t)' = live'[x].count /\ (Runs(t) <=> live[x].running)
      BY <1>1, <1>5, <2>1 DEF Held, Runs
    <3> HIDE DEF x
    <3> QED BY <1>3, <3>1, <3>2, CountTypes
  <2>2. CASE ~Holds(t)
    BY <1>5, <2>2 DEF Held, Runs
  <2> QED BY <2>1, <2>2
<1>8. OnceFor(t)'
  <2>1. Held(t)' \in Nat /\ Held(t)' <= Held(t) + 1 /\ OnceFor(t)
    BY <1>7, CountTypes DEF CountInv
  <2> QED BY <1>2, <1>5, <2>1, OnceKept
<1>9. ASSUME ~failed' PROVE RightFor(t)'
  <2>1. RightFor(t)
    BY <1>1, <1>9 DEF CountInv
  <2>2. Current(t) = ToSetOf(open[t])
    BY <1>1 DEF Current
  <2>3. ASSUME NEW m \in Markers
        PROVE  Counted(t, m)' + (IF m \in Current(t)' THEN Held(t)' ELSE 0) = inside'[t][m]
    <3>1. Counted(t, m) + (IF m \in Current(t) THEN Held(t) ELSE 0) = inside[t][m]
      BY <2>1 DEF RightFor
    <3>2. m \in Current(t) => Runs(t)
      BY <2>1 DEF RightFor
    <3> QED BY <1>2, <1>5, <1>7, <2>2, <3>1, <3>2, CountTypes
  <2> QED BY <1>1, <1>5, <2>1, <2>3 DEF RightFor
<1> QED BY <1>1, <1>4, <1>6, <1>8, <1>9, OneActs

LEMMA StepCounts ==
    ASSUME IInv, CountInv, [Next]_vars
    PROVE  CountInv'
<1>1. CASE Initialize
  BY <1>1, UntouchedCounts DEF Initialize, registryVars, papiVars, workVars
<1>2. CASE Shutdown
  BY <1>2, ShutdownCounts
<1>3. ASSUME NEW t \in Threads, RegisterFails(t) \/ CreateFails(t) PROVE CountInv'
  BY <1>3, ResetCounts DEF RegisterFails, CreateFails
<1>4. ASSUME NEW t \in Threads, NothingToStop(t) PROVE CountInv'
  <2>1. /\ Stopping(t) /\ Stopped(t) /\ failed' = TRUE
        /\ UNCHANGED <<event_set, live, counters>>
    BY <1>4 DEF NothingToStop, papiVars
  <2>2. ClearInv'
    BY <2>1, StoppedOwn DEF CountInv, ClearInv
  <2>3. ASSUME NEW u \in Threads PROVE OnceFor(u)'
    <3>1. /\ \A m \in Markers : Counted(u, m)' = Counted(u, m)
          /\ Held(u)' = Held(u) /\ work'[u] = work[u] + 0 /\ OnceFor(u)
      BY <2>1, StoppedOwn, CountTypes DEF Counted, Held, Holds, Served, CountInv
    <3>2. Held(u)' \in Nat /\ Held(u)' <= Held(u) + 0
      BY <3>1, CountTypes
    <3> QED BY <3>1, <3>2, OnceKept
  <2> QED BY <2>1, <2>2, <2>3 DEF CountInv
<1>5. ASSUME NEW t \in Threads,
             \/ MarkerStart(t) \/ FindOrInsert(t) \/ AddOrStartFails(t) \/ StartSucceeds(t)
             \/ MarkerStop(t) \/ StopFails(t) \/ ReleaseFails(t) \/ StopSucceeds(t) \/ Work(t)
      PROVE  CountInv'
  BY <1>5, MarkerStartCounts, FindOrInsertCounts, AddOrStartFailsCounts, StartSucceedsCounts,
     MarkerStopCounts, StopFailsCounts, ReleaseFailsCounts, StopSucceedsCounts, WorkCounts
<1>6. CASE UNCHANGED vars
  BY <1>6, UntouchedCounts DEF vars, registryVars, papiVars, workVars
<1> QED BY <1>1, <1>2, <1>3, <1>4, <1>5, <1>6 DEF Next

\* Until a call fails a marker has all the work of its thread's intervals,
\* and afterwards no unit of work is counted twice, for any number of
\* threads, slots, sets and markers and whichever calls fail
\* (papi_api.c:218-294).
THEOREM CountedRightThm == Spec => []CountedRight
<1>1. IInv /\ CountInv /\ [Next]_vars => CountInv'
  BY StepCounts
<1>2. IInv /\ CountInv => CountedRight
  BY CountedRightHolds
<1> QED BY InitCounts, BackendIInv, <1>1, <1>2, PTL DEF Spec
=============================================================================
