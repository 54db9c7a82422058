--------------------------- MODULE ProfilerProofs ---------------------------
(***************************************************************************)
(* Theorems about the shared state of the profiling runtimes: the slots of *)
(* papi_api.c and time_api.c that threads find without a lock, and the     *)
(* list, the counters and the sampler of the PAPI profiler.                *)
(***************************************************************************)
EXTENDS ThreadSlots, PapiProfiler, TLAPS

-----------------------------------------------------------------------------
(***************************************************************************)
(* Theorems about find_or_insert_thread(), for every number of threads,    *)
(* every table size and every assignment of ids.                           *)
(*                                                                         *)
(* The argument: only a thread inside the critical section writes the      *)
(* table, there is at most one such thread, and it writes only the unused  *)
(* slot it picked (InsertInv).  Hence a slot that somebody was given       *)
(* stays his (AnswerInv), and a thread that scanned past a slot without    *)
(* finding its id will not find it there later (ScanInv).                  *)
(***************************************************************************)

MutexInv == \A t \in Threads : step[t] \in Critical => slotLock = t

InsertInv ==
    \A t \in Threads :
        /\ step[t] \in {"store_id", "store_set"} =>
               idx[t] \in Slots /\ ~threadsInfo[idx[t]].set
        /\ step[t] = "store_set" => threadsInfo[idx[t]].thread_id = Tid[t]
        /\ step[t] = "unlock" => idx[t] \in Slots /\ Holds(idx[t], t)

AnswerInv == \A t \in Threads : ret[t] \in Slots => Holds(ret[t], t)

\* The slots that an unaliased thread has ruled out do not carry its id.
ScanInv ==
    \A t \in Threads : Unaliased(t) =>
        /\ step[t] = "scan" => \A i \in Slots : i < idx[t] => ~Holds(i, t)
        /\ step[t] \in {"lock", "search", "store_id", "store_set"} =>
               \A i \in Slots : ~Holds(i, t)

SlotInv == SlotTypeOK /\ MutexInv /\ InsertInv /\ AnswerInv

\* SlotInv is inductive without any assumption on the ids; OwnInv adds what
\* holds of the threads whose id is their own.
OwnInv == SlotInv /\ ScanInv /\ OneSlotPerThread

-----------------------------------------------------------------------------
(* One lemma for every step: what it may do to the table.                  *)
LEMMA TableChange ==
    ASSUME SlotInv, SlotNext
    PROVE  \/ threadsInfo' = threadsInfo
           \/ \E t \in Threads : StoreId(t) \/ StoreSet(t)
BY DEF SlotNext, SlotStep, Call, ScanHit, ScanMiss, ScanEnd, Acquire, Search,
       Overflow, Unlock

\* Type correctness is inductive, given that the writer knows its slot.
LEMMA TypeStep == SlotInv /\ [SlotNext]_slotVars => SlotTypeOK'
<1> SUFFICES ASSUME SlotInv, [SlotNext]_slotVars PROVE SlotTypeOK'
  OBVIOUS
<1> USE MaxThreadsAssumption, TidAssumption, NoOwnerAssumption
        DEF SlotInv, SlotTypeOK, Slots, PCs, Critical, NotCalled, NoSlot
<1>1. CASE UNCHANGED slotVars
  BY <1>1 DEF slotVars
<1>2. ASSUME NEW t \in Threads, Call(t) PROVE SlotTypeOK'
  BY <1>2 DEF Call
<1>3. ASSUME NEW t \in Threads, ScanHit(t) PROVE SlotTypeOK'
  BY <1>3 DEF ScanHit
<1>4. ASSUME NEW t \in Threads, ScanMiss(t) PROVE SlotTypeOK'
  BY <1>4 DEF ScanMiss
<1>5. ASSUME NEW t \in Threads, ScanEnd(t) PROVE SlotTypeOK'
  BY <1>5 DEF ScanEnd
<1>6. ASSUME NEW t \in Threads, Acquire(t) PROVE SlotTypeOK'
  BY <1>6 DEF Acquire
<1>7. ASSUME NEW t \in Threads, Search(t) PROVE SlotTypeOK'
  BY <1>7 DEF Search
<1>8. ASSUME NEW t \in Threads, Overflow(t) PROVE SlotTypeOK'
  BY <1>8 DEF Overflow
<1>9. ASSUME NEW t \in Threads, StoreId(t) PROVE SlotTypeOK'
  BY <1>9 DEF StoreId
<1>10. ASSUME NEW t \in Threads, StoreSet(t) PROVE SlotTypeOK'
  BY <1>10 DEF StoreSet
<1>11. ASSUME NEW t \in Threads, Unlock(t) PROVE SlotTypeOK'
  BY <1>11 DEF Unlock, InsertInv
<1> QED
  BY <1>1, <1>2, <1>3, <1>4, <1>5, <1>6, <1>7, <1>8, <1>9, <1>10, <1>11
  DEF SlotNext, SlotStep

\* A used slot is never written: the two stores go to an unused one.
LEMMA UsedSlotsKept ==
    ASSUME SlotInv, [SlotNext]_slotVars, NEW i \in Slots, threadsInfo[i].set
    PROVE  threadsInfo'[i] = threadsInfo[i]
<1>1. CASE threadsInfo' = threadsInfo
  BY <1>1
<1>2. ASSUME NEW t \in Threads, StoreId(t) PROVE threadsInfo'[i] = threadsInfo[i]
  BY <1>2 DEF StoreId, SlotInv, InsertInv, SlotTypeOK
<1>3. ASSUME NEW t \in Threads, StoreSet(t) PROVE threadsInfo'[i] = threadsInfo[i]
  BY <1>3 DEF StoreSet, SlotInv, InsertInv, SlotTypeOK
<1> QED
  BY <1>1, <1>2, <1>3, TableChange DEF slotVars

LEMMA MutexStep == SlotInv /\ [SlotNext]_slotVars => MutexInv'
<1> SUFFICES ASSUME SlotInv, [SlotNext]_slotVars, NEW s \in Threads,
                    step'[s] \in Critical
             PROVE  slotLock' = s
  BY DEF MutexInv
<1> USE NoOwnerAssumption DEF SlotInv, SlotTypeOK, MutexInv, Critical
<1>1. CASE UNCHANGED slotVars
  BY <1>1 DEF slotVars
<1>2. ASSUME NEW t \in Threads, Call(t) \/ ScanHit(t) \/ ScanMiss(t) \/ ScanEnd(t)
      PROVE  slotLock' = s
  BY <1>2 DEF Call, ScanHit, ScanMiss, ScanEnd
<1>3. ASSUME NEW t \in Threads, Acquire(t) PROVE slotLock' = s
  BY <1>3 DEF Acquire
<1>4. ASSUME NEW t \in Threads, Search(t) \/ Overflow(t) PROVE slotLock' = s
  BY <1>4 DEF Search, Overflow
<1>5. ASSUME NEW t \in Threads, StoreId(t) \/ StoreSet(t) PROVE slotLock' = s
  BY <1>5 DEF StoreId, StoreSet
<1>6. ASSUME NEW t \in Threads, Unlock(t) PROVE slotLock' = s
  BY <1>6 DEF Unlock
<1> QED
  BY <1>1, <1>2, <1>3, <1>4, <1>5, <1>6 DEF SlotNext, SlotStep

\* The thread in the critical section is alone there, so what it found out
\* about its slot stays true while others move.
LEMMA InsertStep == SlotInv /\ [SlotNext]_slotVars => InsertInv'
<1> SUFFICES ASSUME SlotInv, [SlotNext]_slotVars PROVE InsertInv'
  OBVIOUS
<1> USE MaxThreadsAssumption, TidAssumption
        DEF SlotInv, SlotTypeOK, MutexInv, InsertInv, Critical, Holds
<1>1. CASE UNCHANGED slotVars
  BY <1>1 DEF slotVars
<1>2. ASSUME NEW t \in Threads, Call(t) \/ ScanHit(t) PROVE InsertInv'
  BY <1>2 DEF Call, ScanHit
<1>3. ASSUME NEW t \in Threads, ScanMiss(t) \/ ScanEnd(t) PROVE InsertInv'
  BY <1>3 DEF ScanMiss, ScanEnd
<1>4. ASSUME NEW t \in Threads, Acquire(t) PROVE InsertInv'
  BY <1>4 DEF Acquire
<1>5. ASSUME NEW t \in Threads, Search(t) PROVE InsertInv'
  BY <1>5 DEF Search, FirstAvailable
<1>6. ASSUME NEW t \in Threads, Overflow(t) \/ Unlock(t) PROVE InsertInv'
  BY <1>6 DEF Overflow, Unlock
<1>7. ASSUME NEW t \in Threads, StoreId(t) PROVE InsertInv'
  <2>1. \A s \in Threads : s # t => step[s] \notin Critical
    BY <1>7 DEF StoreId
  <2> QED BY <1>7, <2>1 DEF StoreId
<1>8. ASSUME NEW t \in Threads, StoreSet(t) PROVE InsertInv'
  <2>1. \A s \in Threads : s # t => step[s] \notin Critical
    BY <1>8 DEF StoreSet
  <2> QED BY <1>8, <2>1 DEF StoreSet
<1> QED
  BY <1>1, <1>2, <1>3, <1>4, <1>5, <1>6, <1>7, <1>8 DEF SlotNext, SlotStep

LEMMA AnswerStep == SlotInv /\ [SlotNext]_slotVars => AnswerInv'
<1> SUFFICES ASSUME SlotInv, [SlotNext]_slotVars, NEW s \in Threads,
                    ret'[s] \in Slots
             PROVE  Holds(ret[s], s)'
  BY DEF AnswerInv
<1>1. ret[s] \in Slots /\ ret'[s] = ret[s]
      => threadsInfo'[ret[s]] = threadsInfo[ret[s]]
  BY UsedSlotsKept DEF SlotInv, AnswerInv, Holds
<1>2. CASE ret'[s] = ret[s]
  BY <1>1, <1>2 DEF SlotInv, AnswerInv, Holds
<1>3. CASE ret'[s] # ret[s]
  <2>1. PICK t \in Threads : ScanHit(t) \/ Overflow(t) \/ Unlock(t)
    BY <1>3 DEF SlotNext, SlotStep, slotVars, Call, ScanMiss, ScanEnd, Acquire,
                Search, StoreId, StoreSet
  <2>2. t = s
    BY <1>3, <2>1 DEF ScanHit, Overflow, Unlock, SlotInv, SlotTypeOK
  <2>3. CASE ScanHit(s)
    BY <2>3 DEF ScanHit, Holds, SlotInv, SlotTypeOK
  <2>4. CASE Overflow(s)
    BY <2>4, MaxThreadsAssumption
    DEF Overflow, SlotInv, SlotTypeOK, NoSlot, Slots
  <2>5. CASE Unlock(s)
    BY <2>5 DEF Unlock, Holds, SlotInv, SlotTypeOK, InsertInv
  <2> QED BY <2>1, <2>2, <2>3, <2>4, <2>5
<1> QED BY <1>2, <1>3

LEMMA SlotInvInit == SlotInit => SlotInv
BY MaxThreadsAssumption, NoOwnerAssumption
DEF SlotInit, SlotInv, SlotTypeOK, MutexInv, InsertInv, AnswerInv, Critical, PCs,
    Slots, NotCalled, NoSlot

LEMMA SlotInvStep == SlotInv /\ [SlotNext]_slotVars => SlotInv'
BY TypeStep, MutexStep, InsertStep, AnswerStep DEF SlotInv

THEOREM SlotInvariant == SlotSpec => []SlotInv
BY SlotInvInit, SlotInvStep, PTL DEF SlotSpec

\* The table, the mutex and the answers have their types in every reachable
\* state, overflowing calls and aliased ids included.
THEOREM SlotTypeCorrect == SlotSpec => []SlotTypeOK
<1>1. SlotInv => SlotTypeOK
  BY DEF SlotInv
<1> QED BY <1>1, SlotInvariant, PTL

\* Threads with different ids are never given the same slot.
THEOREM SlotExclusiveThm == SlotSpec => []SlotExclusive
<1>1. SlotInv => SlotExclusive
  BY DEF SlotInv, AnswerInv, Holds, SlotExclusive
<1> QED BY <1>1, SlotInvariant, PTL

-----------------------------------------------------------------------------
(* Threads with an id of their own.                                        *)

\* The only slot that can begin to carry an id is the one being published,
\* and it carries the publisher's.
LEMMA NewHolder ==
    ASSUME SlotInv, [SlotNext]_slotVars, NEW t \in Threads, NEW i \in Slots,
           Holds(i, t)', ~Holds(i, t)
    PROVE  \E s \in Threads : StoreSet(s) /\ i = idx[s] /\ Tid[s] = Tid[t]
<1>1. threadsInfo' # threadsInfo
  BY DEF Holds
<1>2. ASSUME NEW s \in Threads, StoreId(s) PROVE FALSE
  BY <1>2 DEF StoreId, Holds, SlotInv, InsertInv, SlotTypeOK
<1>3. PICK s \in Threads : StoreSet(s)
  BY <1>1, <1>2, TableChange DEF slotVars
<1> QED
  BY <1>3 DEF StoreSet, Holds, SlotInv, InsertInv, SlotTypeOK

LEMMA ScanStep == OwnInv /\ [SlotNext]_slotVars => ScanInv'
<1> SUFFICES ASSUME OwnInv, [SlotNext]_slotVars, NEW t \in Threads, Unaliased(t)
             PROVE  /\ step'[t] = "scan" =>
                          \A i \in Slots : i < idx'[t] => ~Holds(i, t)'
                    /\ step'[t] \in {"lock", "search", "store_id", "store_set"} =>
                          \A i \in Slots : ~Holds(i, t)'
  BY DEF ScanInv, Unaliased
<1> DEFINE Ruled(i) == \/ step[t] = "scan" /\ i < idx[t]
                       \/ step[t] \in {"lock", "search", "store_id", "store_set"}
           RuledNext(i) == \/ step'[t] = "scan" /\ i < idx'[t]
                           \/ step'[t] \in {"lock", "search", "store_id", "store_set"}
<1>1. \A i \in Slots : Ruled(i) => ~Holds(i, t)
  BY DEF OwnInv, ScanInv
<1>2. ASSUME NEW i \in Slots, RuledNext(i) PROVE ~Holds(i, t)
  <2> USE MaxThreadsAssumption DEF OwnInv, SlotInv, SlotTypeOK, Slots
  <2>1. CASE UNCHANGED slotVars
    BY <1>1, <1>2, <2>1 DEF slotVars
  <2>2. ASSUME NEW s \in Threads, s # t, Call(s) \/ SlotStep(s)
        PROVE  step'[t] = step[t] /\ idx'[t] = idx[t]
    BY <2>2 DEF SlotStep, Call, ScanHit, ScanMiss, ScanEnd, Acquire, Search,
                Overflow, StoreId, StoreSet, Unlock
  <2>3. CASE Call(t) \/ ScanHit(t) \/ Overflow(t) \/ StoreSet(t) \/ Unlock(t)
    BY <1>2, <2>3 DEF Call, ScanHit, Overflow, StoreSet, Unlock
  <2>4. CASE ScanMiss(t)
    BY <1>1, <1>2, <2>4 DEF ScanMiss
  <2>5. CASE ScanEnd(t) \/ Acquire(t) \/ Search(t) \/ StoreId(t)
    BY <1>1, <1>2, <2>5 DEF ScanEnd, Acquire, Search, StoreId
  <2> QED
    BY <1>1, <1>2, <2>1, <2>2, <2>3, <2>4, <2>5 DEF SlotNext, SlotStep
<1>3. ASSUME NEW i \in Slots, RuledNext(i) PROVE ~Holds(i, t)'
  <2> SUFFICES ASSUME Holds(i, t)' PROVE FALSE
    OBVIOUS
  <2>1. PICK s \in Threads : StoreSet(s) /\ i = idx[s] /\ Tid[s] = Tid[t]
    BY <1>2, <1>3, NewHolder DEF OwnInv
  <2>2. s = t
    BY <2>1 DEF Unaliased
  <2>3. step'[t] = "unlock"
    BY <2>1, <2>2 DEF StoreSet, OwnInv, SlotInv, SlotTypeOK
  <2> QED BY <1>3, <2>3
<1> QED BY <1>3

LEMMA OneSlotStep == OwnInv /\ [SlotNext]_slotVars => OneSlotPerThread'
<1> SUFFICES ASSUME OwnInv, [SlotNext]_slotVars, NEW t \in Threads, Unaliased(t),
                    NEW i \in Slots, NEW j \in Slots,
                    Holds(i, t)', Holds(j, t)'
             PROVE  i = j
  BY DEF OneSlotPerThread, Unaliased
\* If one of the two is new, its publisher t had found no slot of its own.
<1>1. ASSUME NEW k \in Slots, Holds(k, t)', ~Holds(k, t)
      PROVE  StoreSet(t) /\ k = idx[t] /\ \A l \in Slots : ~Holds(l, t)
  <2>1. PICK s \in Threads : StoreSet(s) /\ k = idx[s] /\ Tid[s] = Tid[t]
    BY <1>1, NewHolder DEF OwnInv
  <2>2. s = t
    BY <2>1 DEF Unaliased
  <2> QED BY <2>1, <2>2 DEF StoreSet, OwnInv, ScanInv
<1>2. CASE Holds(i, t) /\ Holds(j, t)
  BY <1>2 DEF OwnInv, OneSlotPerThread
<1> QED BY <1>1, <1>2

LEMMA OwnInvInit == SlotInit => OwnInv
BY SlotInvInit DEF SlotInit, OwnInv, ScanInv, OneSlotPerThread, Holds, Slots

THEOREM OwnInvariant == SlotSpec => []OwnInv
<1>1. OwnInv /\ [SlotNext]_slotVars => OwnInv'
  BY SlotInvStep, ScanStep, OneSlotStep DEF OwnInv
<1> QED BY <1>1, OwnInvInit, PTL DEF SlotSpec

\* A thread with an id of its own never fills two slots, although the decision
\* to insert is taken on an unlocked scan that is not repeated under the mutex.
THEOREM OneSlotThm == SlotSpec => []OneSlotPerThread
<1>1. OwnInv => OneSlotPerThread
  BY DEF OwnInv
<1> QED BY <1>1, OwnInvariant, PTL

\* Used slots are never rewritten and a thread always gets the same one.
THEOREM SlotPermanentThm == SlotSpec => SlotPermanent
<1>1. ASSUME OwnInv, OwnInv', [SlotNext]_slotVars
      PROVE  [/\ \A i \in Slots :
                    threadsInfo[i].set => threadsInfo'[i] = threadsInfo[i]
              /\ \A t \in Threads :
                    Unaliased(t) /\ ret[t] \in Slots => ret'[t] = ret[t]]_slotVars
  <2>1. ASSUME NEW i \in Slots, threadsInfo[i].set
        PROVE  threadsInfo'[i] = threadsInfo[i]
    BY <1>1, <2>1, UsedSlotsKept DEF OwnInv
  <2>2. ASSUME NEW t \in Threads, Unaliased(t), ret[t] \in Slots
        PROVE  ret'[t] = ret[t]
    <3>1. Holds(ret[t], t)
      BY <2>2 , <1>1 DEF OwnInv, SlotInv, AnswerInv
    <3>2. threadsInfo'[ret[t]].set /\ threadsInfo'[ret[t]].thread_id = Tid[t]
      BY <2>1, <2>2, <3>1 DEF Holds
    <3>3. ret'[t] \in Slots => ret'[t] = ret[t]
      <4>1. ret'[t] \in Slots => Holds(ret[t], t)'
        BY <1>1 DEF OwnInv, SlotInv, AnswerInv
      <4>2. OneSlotPerThread'
        BY <1>1 DEF OwnInv
      <4> QED BY <2>2, <3>2, <4>1, <4>2
          DEF OneSlotPerThread, Unaliased, Holds
    <3>4. ~Overflow(t)
      BY <1>1, <2>2, <3>1 DEF Overflow, OwnInv, ScanInv
    <3>5. ASSUME ret'[t] # ret[t] PROVE ret'[t] \in Slots
      <4>1. PICK s \in Threads : ScanHit(s) \/ Overflow(s) \/ Unlock(s)
        BY <1>1, <3>5 DEF SlotNext, SlotStep, slotVars, Call, ScanMiss, ScanEnd,
                          Acquire, Search, StoreId, StoreSet
      <4>2. s = t
        BY <3>5, <4>1, <1>1
        DEF ScanHit, Overflow, Unlock, OwnInv, SlotInv, SlotTypeOK
      <4>3. CASE ScanHit(t)
        BY <4>3, <1>1, MaxThreadsAssumption
        DEF ScanHit, OwnInv, SlotInv, SlotTypeOK, Slots
      <4>4. CASE Unlock(t)
        BY <4>4, <1>1 DEF Unlock, OwnInv, SlotInv, SlotTypeOK, InsertInv
      <4> QED BY <3>4, <4>1, <4>2, <4>3, <4>4
    <3> QED BY <3>3, <3>5
  <2> QED BY <2>1, <2>2
<1> QED BY <1>1, OwnInvariant, PTL DEF SlotSpec, SlotPermanent

-----------------------------------------------------------------------------
(* The atomic registry.                                                    *)

LEMMA RegistryInit == SlotInit => Registry!Init
BY DEF SlotInit, Registry!Init, registryTable, registryPending, registryAnswer,
       NotCalled

\* Steps that leave the table, the open calls and the answers as they were.
LEMMA RegistryStutter ==
    ASSUME SlotInv, NEW t \in Threads,
           \/ ScanMiss(t) \/ ScanEnd(t) \/ Acquire(t) \/ Search(t)
           \/ StoreId(t) \/ Unlock(t)
    PROVE  UNCHANGED Registry!vars
<1> USE DEF SlotInv, SlotTypeOK, registryTable, registryPending, registryAnswer,
            Registry!vars
<1>1. CASE ScanMiss(t)
  BY <1>1 DEF ScanMiss
<1>2. CASE ScanEnd(t) \/ Acquire(t)
  BY <1>2 DEF ScanEnd, Acquire
<1>3. CASE Search(t)
  BY <1>3 DEF Search
<1>4. CASE StoreId(t)
  <2>1. \A i \in Slots : /\ threadsInfo'[i].set = threadsInfo[i].set
                         /\ threadsInfo[i].set => threadsInfo'[i] = threadsInfo[i]
    BY <1>4 DEF StoreId, InsertInv
  <2>2. registryTable' = registryTable
    BY <2>1
  <2>3. registryPending' = registryPending /\ registryAnswer' = registryAnswer
    BY <1>4 DEF StoreId
  <2> QED BY <2>2, <2>3
<1>5. CASE Unlock(t)
  BY <1>5 DEF Unlock
<1> QED BY <1>1, <1>2, <1>3, <1>4, <1>5

LEMMA RegistryStep ==
    ASSUME \A t \in Threads : Unaliased(t), OwnInv, [SlotNext]_slotVars
    PROVE  [Registry!Next]_Registry!vars
<1> USE DEF OwnInv, SlotInv, SlotTypeOK
<1>1. CASE UNCHANGED slotVars
  BY <1>1 DEF slotVars, Registry!vars, registryTable, registryPending, registryAnswer
<1>2. ASSUME NEW t \in Threads, Call(t) PROVE Registry!Begin(t)
  BY <1>2 DEF Call, Registry!Begin, registryTable, registryPending, registryAnswer
<1>3. ASSUME NEW t \in Threads, ScanHit(t) PROVE Registry!Known(t)
  <2>1. idx[t] \in Slots
    BY <1>3, MaxThreadsAssumption DEF ScanHit, Slots
  <2>2. <<idx[t], Tid[t]>> \in Registry!SlotsOf(t)
    BY <1>3, <2>1 DEF ScanHit, Holds, Registry!SlotsOf, registryTable
  <2>3. Registry!Reply(t, idx[t])
    BY <1>3 DEF ScanHit, Registry!Reply, registryPending, registryAnswer
  <2>4. UNCHANGED registryTable
    BY <1>3 DEF ScanHit, registryTable
  <2> QED BY <2>2, <2>3, <2>4 DEF Registry!Known
<1>4. ASSUME NEW t \in Threads, StoreSet(t) PROVE Registry!Grant(t)
  <2>1. idx[t] \in Slots /\ ~threadsInfo[idx[t]].set
        /\ threadsInfo[idx[t]].thread_id = Tid[t]
    BY <1>4 DEF StoreSet, InsertInv
  <2>2. Registry!SlotsOf(t) = {}
    BY <1>4 DEF StoreSet, ScanInv, Holds, Registry!SlotsOf, registryTable
  <2>3. \A p \in registryTable : p[1] # idx[t]
    BY <2>1 DEF registryTable
  <2>4. registryTable' = registryTable \cup {<<idx[t], Tid[t]>>}
    <3>1. /\ threadsInfo'[idx[t]].set
          /\ threadsInfo'[idx[t]].thread_id = Tid[t]
          /\ \A i \in Slots : i # idx[t] => threadsInfo'[i] = threadsInfo[i]
      BY <1>4, <2>1 DEF StoreSet
    <3> QED BY <2>1, <3>1 DEF registryTable
  <2>5. Registry!Reply(t, idx[t])
    BY <1>4 DEF StoreSet, Registry!Reply, registryPending, registryAnswer
  <2> QED BY <2>1, <2>2, <2>3, <2>4, <2>5 DEF Registry!Grant, Slots
<1>5. ASSUME NEW t \in Threads, Overflow(t) PROVE Registry!Refuse(t)
  <2>1. Registry!SlotsOf(t) = {}
    BY <1>5 DEF Overflow, ScanInv, Holds, Registry!SlotsOf, registryTable
  <2>2. \A i \in 0 .. MaxThreads - 1 : \E p \in registryTable : p[1] = i
    <3> SUFFICES ASSUME NEW i \in Slots
                 PROVE  \E p \in registryTable : p[1] = i
      BY DEF Slots
    <3> DEFINE p == <<i, threadsInfo[i].thread_id>>
    <3>1. p \in registryTable
      BY <1>5 DEF Overflow, registryTable
    <3> QED BY <3>1
  <2>3. Registry!Reply(t, -1) /\ UNCHANGED registryTable
    BY <1>5 DEF Overflow, NoSlot, Registry!Reply, registryTable, registryPending,
                registryAnswer
  <2> QED BY <2>1, <2>2, <2>3 DEF Registry!Refuse
<1> QED
  BY <1>1, <1>2, <1>3, <1>4, <1>5, RegistryStutter
  DEF SlotNext, SlotStep, Registry!Next

\* When every thread has an id of its own, the scan, the mutex and the two
\* stores together are one atomic grant (no assumption on the table size).
THEOREM ImplementationThm ==
    ASSUME \A t \in Threads : Unaliased(t)
    PROVE  SlotSpec => ImplementsRegistry
<1>1. OwnInv /\ [SlotNext]_slotVars => [Registry!Next]_Registry!vars
  BY RegistryStep
<1> QED
  BY <1>1, RegistryInit, OwnInvariant, PTL
  DEF SlotSpec, ImplementsRegistry, Registry!Spec

-----------------------------------------------------------------------------
(***************************************************************************)
(* Theorems about the PAPI profiler for any number of callers, nodes,      *)
(* pipelines and funcs, with allocations that fail and pipelines that      *)
(* fail, when pipelines run one at a time (~Overlap).                      *)
(*                                                                         *)
(* The inductive invariant says, for every place in the code, what the     *)
(* caller that is there finds: an empty list and no sampler until its own  *)
(* block is published, exactly its own block until shutdown has freed it,  *)
(* and a sampler that lives from the locked part of pipeline_start to the  *)
(* join and only ever holds pointers to that block.                        *)
(*                                                                         *)
(* From it follows, at the end of the module, that every step is one of    *)
(* ProfiledRun, or leaves what a program sees of a run as it is.           *)
(***************************************************************************)

Exclusive ==
    \A c, d \in Callers : ~At(c, "idle") /\ ~At(d, "idle") => c = d

Empty == heap = {} /\ pipelines = Null /\ first_free_id = 0

NoSampler == ~sampling_thread /\ spc = "none"

\* p is the only block, and is set up for pipeline n.
Only(p, n) ==
    /\ p \in Nodes /\ heap = {p}
    /\ node[p].next = Null /\ node[p].first = 0 /\ node[p].num = NumFuncs[n]

\* p is the only block, it is listed and its pipeline was started.
Listed(p, n) == Only(p, n) /\ pipelines = p /\ node[p].runs = 1

Living == sampling_thread /\ spc # "none"

Valid(f, n) == f = outside_of_halide \/ (f >= 0 /\ f < NumFuncs[n])

Released == current_pipeline_stats = Null /\ ~counting

IdleInv ==
    (\A c \in Callers : At(c, "idle")) =>
        Empty /\ NoSampler /\ Released /\ lock = NoThread
        /\ (current_func = 0 \/ current_func = outside_of_halide)

\* What a caller in pipeline_start finds.
StartInv(c) ==
    /\ pc[c] \in Starting => /\ NoSampler /\ Released /\ lock = NoThread
                             /\ current_func = 0 \/ current_func = outside_of_halide
    /\ At(c, "find") => Empty /\ at[c] = Null
    /\ At(c, "fill") =>
           at[c] \in Nodes /\ heap = {at[c]} /\ pipelines = Null /\ first_free_id = 0
    /\ At(c, "ids") =>
           Only(at[c], name[c]) /\ node[at[c]].runs = 0 /\ pipelines = Null
           /\ first_free_id = 0
    /\ At(c, "publish") => Only(at[c], name[c]) /\ node[at[c]].runs = 0
    /\ At(c, "startlock") =>
           Only(at[c], name[c]) /\ node[at[c]].runs = 0 /\ pipelines = at[c]

\* What a caller finds from the first to the last statement of its pipeline.
BodyInv(c) ==
    pc[c] \in {"incr", "body"} =>
        /\ Listed(at[c], name[c]) /\ Living /\ spc # "exited"
        /\ current_pipeline_stats = at[c] /\ counting
        /\ token[c] = 0 /\ Valid(current_func, name[c])
        /\ At(c, "body") => active_threads > 0

\* What it finds on the way out; a refused run has nothing to take down.
EndInv(c) ==
    /\ At(c, "end") =>
           \/ Listed(pipelines, name[c]) /\ Living /\ spc # "exited"
              /\ Valid(current_func, name[c])
           \/ Empty /\ NoSampler /\ Released /\ lock = NoThread
    /\ At(c, "check") =>
           /\ current_func = outside_of_halide
           /\ \/ Listed(pipelines, name[c]) /\ Living /\ spc # "exited"
              \/ Empty /\ NoSampler /\ Released /\ lock = NoThread
    /\ At(c, "stop") =>
           Listed(pipelines, name[c]) /\ Living /\ spc # "exited"
           /\ current_func = outside_of_halide
    /\ At(c, "join") =>
           Listed(pipelines, name[c]) /\ Living /\ current_func = please_stop
    /\ At(c, "joined") =>
           Listed(pipelines, name[c]) /\ NoSampler /\ lock = NoThread
    /\ At(c, "report") \/ At(c, "reset") =>
           /\ NoSampler /\ current_func = outside_of_halide /\ ~counting
           /\ \/ lock = NoThread /\ Listed(pipelines, name[c])
              \/ lock = NoThread /\ At(c, "reset") /\ heap = {} /\ pipelines = Null
              \/ lock = c /\ Empty /\ current_pipeline_stats = Null
           /\ At(c, "report") => at[c] \in {pipelines, Null}
    /\ pc[c] \in {"clear"} \cup JIT =>
           Empty /\ NoSampler /\ ~counting /\ lock = NoThread
           /\ current_func = outside_of_halide
    /\ pc[c] \in JIT => current_pipeline_stats = Null

\* The sampling thread: it holds the lock exactly between waking and
\* sleeping, and what it has read belongs to the one listed block.
SamplerInv ==
    /\ sampling_thread <=> spc # "none"
    /\ spc \in {"outer", "sample", "bill", "walk"} <=> lock = Sampler
    /\ spc \in {"start", "sleep", "exited"} => lock = NoThread
    /\ spc = "bill" =>
           func = please_stop \/ \E c \in Callers : ~At(c, "idle") /\ Valid(func, name[c])
    /\ spc = "walk" =>
           /\ func >= 0 /\ \E c \in Callers : ~At(c, "idle") /\ Valid(func, name[c])
           /\ sp = pipelines /\ sprev = Null

IInv == /\ TypeOK /\ Exclusive /\ IdleInv /\ SamplerInv
        /\ \A c \in Callers : StartInv(c) /\ BodyInv(c) /\ EndInv(c)

-----------------------------------------------------------------------------
LEMMA InitInv == Init => IInv
<1> SUFFICES ASSUME Init PROVE IInv
  OBVIOUS
<1>1. AnyName \in Names
  BY FuncAssumption DEF AnyName
<1>2. Blank \in NodeType
  BY <1>1 DEF Blank, NodeType
<1>3. node \in [Nodes -> NodeType]
  BY <1>2 DEF Init
<1>4. name \in [Callers -> Names]
  BY <1>1 DEF Init
<1>5. current_func \in Int /\ current_func >= please_stop /\ func \in Int
  BY DEF Init, outside_of_halide, please_stop
<1>6. /\ pc \in [Callers -> {"idle", "incr", "body"} \cup Starting \cup Ending \cup JIT]
      /\ at \in [Callers -> Nodes \cup {Null}]
      /\ token \in [Callers -> Nat \cup {-1}]
      /\ printed \in [Callers -> Nat]
  BY DEF Init
<1>7. TypeOK
  BY <1>3, <1>4, <1>5, <1>6 DEF Init, TypeOK
<1>8. \A c \in Callers : StartInv(c) /\ BodyInv(c) /\ EndInv(c)
  BY DEF Init, StartInv, BodyInv, EndInv, At, Starting, JIT
<1> QED
  BY <1>7, <1>8, ThreadAssumption
  DEF Init, IInv, Exclusive, IdleInv, SamplerInv, Empty, NoSampler, Released, At

\* While a caller is inside, all others are out.
LEMMA Alone ==
    ASSUME IInv, NEW c \in Callers, ~At(c, "idle")
    PROVE  \A d \in Callers : d # c => pc[d] = "idle"
BY DEF IInv, Exclusive, At

\* Hence a step of the caller c has to re-establish what concerns c.
LEMMA Rebuild ==
    ASSUME TypeOK', NEW c \in Callers,
           \A d \in Callers : d # c => pc'[d] = "idle",
           pc'[c] # "idle",
           StartInv(c)', BodyInv(c)', EndInv(c)', SamplerInv'
    PROVE  IInv'
<1>1. Exclusive' /\ IdleInv'
  BY DEF Exclusive, IdleInv, At
<1>2. ASSUME NEW d \in Callers PROVE (StartInv(d) /\ BodyInv(d) /\ EndInv(d))'
  <2>1. CASE d = c
    BY <2>1
  <2>2. CASE d # c
    BY <2>2 DEF StartInv, BodyInv, EndInv, At, Starting, JIT
  <2> QED BY <2>1, <2>2
<1> QED BY <1>1, <1>2 DEF IInv

-----------------------------------------------------------------------------
(* halide_papi_pipeline_start and the pipeline                             *)

LEMMA StartKeeps ==
    ASSUME ~Overlap, IInv, NEW c \in Callers, Start(c)
    PROVE  IInv'
<1> USE DEF At, Goto
<1>1. TypeOK'
  BY DEF Start, IInv, TypeOK, listVars, sharedVars, samplerVars, Starting
<1>2. \A d \in Callers : d # c => pc'[d] = "idle"
  BY DEF Start, IInv, TypeOK
<1>3. pc'[c] = "find"
  BY DEF Start, IInv, TypeOK
<1>4. Empty /\ NoSampler /\ Released /\ lock = NoThread
      /\ (current_func = 0 \/ current_func = outside_of_halide)
  BY DEF Start, IInv, IdleInv
<1>5. StartInv(c)' /\ BodyInv(c)' /\ EndInv(c)'
  BY <1>3, <1>4
  DEF Start, IInv, TypeOK, StartInv, BodyInv, EndInv, Empty, NoSampler, Released,
      listVars, sharedVars, samplerVars, Starting, JIT
<1>6. SamplerInv'
  BY <1>4, ThreadAssumption
  DEF Start, SamplerInv, NoSampler, listVars, sharedVars, samplerVars
<1> QED BY <1>1, <1>2, <1>3, <1>5, <1>6, Rebuild

LEMMA AllocateKeeps ==
    ASSUME IInv, NEW c \in Callers, Allocate(c)
    PROVE  IInv'
<1> USE DEF At, Goto, Allocate
<1>1. TypeOK'
  BY DEF IInv, TypeOK, NodeType, listVars, sharedVars, samplerVars, callerVars, Starting, Ending, JIT
<1>2. \A d \in Callers : d # c => pc'[d] = "idle"
  BY Alone DEF IInv, TypeOK
<1>3. pc'[c] # "idle"
  BY DEF IInv, TypeOK
<1>4. StartInv(c)' /\ BodyInv(c)' /\ EndInv(c)'
  BY NullAssumption, ThreadAssumption
  DEF IInv, TypeOK, StartInv, BodyInv, EndInv, SamplerInv, Empty, Only, Listed, NoSampler,
      Living, Released, Valid, listVars, sharedVars, samplerVars, callerVars, Starting, JIT
<1>5. SamplerInv'
  BY NullAssumption, ThreadAssumption
  DEF IInv, TypeOK, StartInv, BodyInv, EndInv, SamplerInv, Listed, NoSampler, Living,
      Valid, listVars, sharedVars, samplerVars, callerVars, Starting, JIT
<1> QED BY <1>1, <1>2, <1>3, <1>4, <1>5, Rebuild

LEMMA AllocateFailsKeeps ==
    ASSUME IInv, NEW c \in Callers, AllocateFails(c)
    PROVE  IInv'
<1> USE DEF At, Goto, AllocateFails
<1>1. TypeOK'
  BY DEF IInv, TypeOK, NodeType, listVars, sharedVars, samplerVars, callerVars, Starting, Ending, JIT
<1>2. \A d \in Callers : d # c => pc'[d] = "idle"
  BY Alone DEF IInv, TypeOK
<1>3. pc'[c] # "idle"
  BY DEF IInv, TypeOK
<1>4. StartInv(c)' /\ BodyInv(c)' /\ EndInv(c)'
  BY NullAssumption, ThreadAssumption
  DEF IInv, TypeOK, StartInv, BodyInv, EndInv, SamplerInv, Empty, Only, Listed, NoSampler,
      Living, Released, Valid, listVars, sharedVars, samplerVars, callerVars, Starting, JIT
<1>5. SamplerInv'
  BY NullAssumption, ThreadAssumption
  DEF IInv, TypeOK, StartInv, BodyInv, EndInv, SamplerInv, Listed, NoSampler, Living,
      Valid, listVars, sharedVars, samplerVars, callerVars, Starting, JIT
<1> QED BY <1>1, <1>2, <1>3, <1>4, <1>5, Rebuild

LEMMA FillKeeps ==
    ASSUME IInv, NEW c \in Callers, Fill(c)
    PROVE  IInv'
<1> USE DEF At, Goto, Fill
<1>1. TypeOK'
  BY FuncAssumption DEF IInv, TypeOK, NodeType, StartInv, listVars, sharedVars, samplerVars, callerVars, Starting, Ending, JIT
<1>2. \A d \in Callers : d # c => pc'[d] = "idle"
  BY Alone DEF IInv, TypeOK
<1>3. pc'[c] # "idle"
  BY DEF IInv, TypeOK
<1>4. StartInv(c)' /\ BodyInv(c)' /\ EndInv(c)'
  BY NullAssumption, ThreadAssumption, FuncAssumption
  DEF IInv, TypeOK, StartInv, BodyInv, EndInv, SamplerInv, Empty, Only, Listed, NoSampler,
      Living, Released, Valid, listVars, sharedVars, samplerVars, callerVars, Starting, JIT
<1>5. SamplerInv'
  BY NullAssumption, ThreadAssumption
  DEF IInv, TypeOK, StartInv, BodyInv, EndInv, SamplerInv, Listed, NoSampler, Living,
      Valid, listVars, sharedVars, samplerVars, callerVars, Starting, JIT
<1> QED BY <1>1, <1>2, <1>3, <1>4, <1>5, Rebuild

LEMMA BlankType == Blank \in NodeType
<1>1. AnyName \in Names
  BY FuncAssumption DEF AnyName
<1> QED BY <1>1 DEF Blank, NodeType

LEMMA FreeTypes ==
    ASSUME TypeOK, NEW p, Free(p)
    PROVE  heap' \subseteq Nodes /\ node' \in [Nodes -> NodeType]
<1>1. Blank \in NodeType
  BY BlankType
<1> QED BY <1>1 DEF Free, TypeOK

LEMMA FillFailsKeeps ==
    ASSUME IInv, NEW c \in Callers, FillFails(c)
    PROVE  IInv'
<1> USE DEF At, Goto, FillFails
<1>1. TypeOK'
  <2>1. heap' \subseteq Nodes /\ node' \in [Nodes -> NodeType]
    BY FreeTypes DEF IInv
  <2>2. pc' \in [Callers -> {"idle", "incr", "body"} \cup Starting \cup Ending \cup JIT]
    BY DEF IInv, TypeOK, Ending
  <2> QED BY <2>1, <2>2 DEF IInv, TypeOK, sharedVars, samplerVars
<1>2. \A d \in Callers : d # c => pc'[d] = "idle"
  BY Alone DEF IInv, TypeOK
<1>3. pc'[c] # "idle"
  BY DEF IInv, TypeOK
<1>4. StartInv(c)' /\ BodyInv(c)' /\ EndInv(c)'
  BY NullAssumption, ThreadAssumption, FuncAssumption
  DEF IInv, TypeOK, StartInv, BodyInv, EndInv, SamplerInv, Empty, Only, Listed, NoSampler,
      Living, Released, Valid, listVars, sharedVars, samplerVars, callerVars, Starting, JIT, Free, Blank, AnyName
<1>5. SamplerInv'
  BY NullAssumption, ThreadAssumption
  DEF IInv, TypeOK, StartInv, BodyInv, EndInv, SamplerInv, Listed, NoSampler, Living,
      Valid, listVars, sharedVars, samplerVars, callerVars, Starting, JIT, Free, Blank, AnyName
<1> QED BY <1>1, <1>2, <1>3, <1>4, <1>5, Rebuild

LEMMA ReserveIdsKeeps ==
    ASSUME IInv, NEW c \in Callers, ReserveIds(c)
    PROVE  IInv'
<1> USE DEF At, Goto, ReserveIds
<1>1. TypeOK'
  BY FuncAssumption DEF IInv, TypeOK, NodeType, listVars, sharedVars, samplerVars, callerVars, Starting, Ending, JIT
<1>2. \A d \in Callers : d # c => pc'[d] = "idle"
  BY Alone DEF IInv, TypeOK
<1>3. pc'[c] # "idle"
  BY DEF IInv, TypeOK
<1>4. StartInv(c)' /\ BodyInv(c)' /\ EndInv(c)'
  BY NullAssumption, ThreadAssumption, FuncAssumption
  DEF IInv, TypeOK, StartInv, BodyInv, EndInv, SamplerInv, Empty, Only, Listed, NoSampler,
      Living, Released, Valid, listVars, sharedVars, samplerVars, callerVars, Starting, JIT
<1>5. SamplerInv'
  BY NullAssumption, ThreadAssumption
  DEF IInv, TypeOK, StartInv, BodyInv, EndInv, SamplerInv, Listed, NoSampler, Living,
      Valid, listVars, sharedVars, samplerVars, callerVars, Starting, JIT
<1> QED BY <1>1, <1>2, <1>3, <1>4, <1>5, Rebuild

LEMMA PublishKeeps ==
    ASSUME IInv, NEW c \in Callers, Publish(c)
    PROVE  IInv'
<1> USE DEF At, Goto, Publish
<1>1. TypeOK'
  BY DEF IInv, TypeOK, NodeType, StartInv, Only, listVars, sharedVars, samplerVars, callerVars, Starting, Ending, JIT
<1>2. \A d \in Callers : d # c => pc'[d] = "idle"
  BY Alone DEF IInv, TypeOK
<1>3. pc'[c] # "idle"
  BY DEF IInv, TypeOK
<1>4. StartInv(c)' /\ BodyInv(c)' /\ EndInv(c)'
  BY NullAssumption, ThreadAssumption
  DEF IInv, TypeOK, StartInv, BodyInv, EndInv, SamplerInv, Empty, Only, Listed, NoSampler,
      Living, Released, Valid, listVars, sharedVars, samplerVars, callerVars, Starting, JIT
<1>5. SamplerInv'
  BY NullAssumption, ThreadAssumption
  DEF IInv, TypeOK, StartInv, BodyInv, EndInv, SamplerInv, Listed, NoSampler, Living,
      Valid, listVars, sharedVars, samplerVars, callerVars, Starting, JIT
<1> QED BY <1>1, <1>2, <1>3, <1>4, <1>5, Rebuild

LEMMA StartLockedKeeps ==
    ASSUME IInv, NEW c \in Callers, StartLocked(c)
    PROVE  IInv'
<1> USE DEF At, Goto, StartLocked
<1>1. TypeOK'
  <2>1. at[c] \in Nodes /\ node[at[c]] \in NodeType
    BY DEF IInv, TypeOK, StartInv, Only
  <2>2. node' \in [Nodes -> NodeType]
    BY <2>1 DEF IInv, TypeOK, NodeType
  <2>3. token' \in [Callers -> Nat \cup {-1}]
    BY <2>1 DEF IInv, TypeOK, NodeType
  <2>4. pc' \in [Callers -> {"idle", "incr", "body"} \cup Starting \cup Ending \cup JIT]
    BY DEF IInv, TypeOK
  <2>5. sampling_thread' \in BOOLEAN /\ UNCHANGED <<func, sp, sprev, dt>>
        /\ spc' \in {"none", "start", "outer", "sample", "bill", "walk", "sleep", "exited"}
        /\ since' \in Nat /\ elapsed' \in Nat
    <3>1. Spawn
      BY DEF IInv, StartInv, NoSampler, Starting
    <3> QED BY <3>1 DEF Spawn
  <2> QED
    BY <2>1, <2>2, <2>3, <2>4, <2>5 DEF IInv, TypeOK
<1>2. \A d \in Callers : d # c => pc'[d] = "idle"
  BY Alone DEF IInv, TypeOK
<1>3. pc'[c] # "idle"
  BY DEF IInv, TypeOK
<1>4. StartInv(c)' /\ BodyInv(c)' /\ EndInv(c)'
  BY NullAssumption, ThreadAssumption, FuncAssumption
  DEF IInv, TypeOK, StartInv, BodyInv, EndInv, SamplerInv, Empty, Only, Listed, NoSampler,
      Living, Released, Valid, listVars, sharedVars, samplerVars, callerVars, Starting, JIT, Spawn
<1>5. SamplerInv'
  BY NullAssumption, ThreadAssumption
  DEF IInv, TypeOK, StartInv, BodyInv, EndInv, SamplerInv, Listed, NoSampler, Living,
      Valid, listVars, sharedVars, samplerVars, callerVars, Starting, JIT, Spawn
<1> QED BY <1>1, <1>2, <1>3, <1>4, <1>5, Rebuild

LEMMA IncrActiveKeeps ==
    ASSUME IInv, NEW c \in Callers, IncrActive(c)
    PROVE  IInv'
<1> USE DEF At, Goto, IncrActive
<1>1. TypeOK'
  BY FuncAssumption DEF IInv, TypeOK, NodeType, listVars, sharedVars, samplerVars, callerVars, Starting, Ending, JIT
<1>2. \A d \in Callers : d # c => pc'[d] = "idle"
  BY Alone DEF IInv, TypeOK
<1>3. pc'[c] # "idle"
  BY DEF IInv, TypeOK
<1>4. StartInv(c)' /\ BodyInv(c)' /\ EndInv(c)'
  BY NullAssumption, ThreadAssumption, FuncAssumption
  DEF IInv, TypeOK, StartInv, BodyInv, EndInv, SamplerInv, Empty, Only, Listed, NoSampler,
      Living, Released, Valid, listVars, sharedVars, samplerVars, callerVars, Starting, JIT
<1>5. SamplerInv'
  BY NullAssumption, ThreadAssumption
  DEF IInv, TypeOK, StartInv, BodyInv, EndInv, SamplerInv, Listed, NoSampler, Living,
      Valid, listVars, sharedVars, samplerVars, callerVars, Starting, JIT
<1> QED BY <1>1, <1>2, <1>3, <1>4, <1>5, Rebuild

LEMMA SetCurrentFuncKeeps ==
    ASSUME IInv, NEW c \in Callers, SetCurrentFunc(c)
    PROVE  IInv'
<1> USE DEF At, Goto, SetCurrentFunc
<1>1. TypeOK'
  BY FuncAssumption DEF IInv, TypeOK, NodeType, BodyInv, listVars, sharedVars, samplerVars, callerVars, Starting, Ending, JIT, please_stop, outside_of_halide
<1>2. \A d \in Callers : d # c => pc'[d] = "idle"
  BY Alone DEF IInv, TypeOK, callerVars
<1>3. pc'[c] # "idle"
  BY DEF IInv, TypeOK, callerVars
<1>4. StartInv(c)' /\ BodyInv(c)' /\ EndInv(c)'
  BY NullAssumption, ThreadAssumption, FuncAssumption
  DEF IInv, TypeOK, StartInv, BodyInv, EndInv, SamplerInv, Empty, Only, Listed, NoSampler,
      Living, Released, Valid, listVars, sharedVars, samplerVars, callerVars, Starting, JIT, please_stop, outside_of_halide
<1>5. SamplerInv'
  BY NullAssumption, ThreadAssumption
  DEF IInv, TypeOK, StartInv, BodyInv, EndInv, SamplerInv, Listed, NoSampler, Living,
      Valid, listVars, sharedVars, samplerVars, callerVars, Starting, JIT, please_stop, outside_of_halide
<1> QED BY <1>1, <1>2, <1>3, <1>4, <1>5, Rebuild

LEMMA DecrActiveKeeps ==
    ASSUME IInv, NEW c \in Callers, DecrActive(c)
    PROVE  IInv'
<1> USE DEF At, Goto, DecrActive
<1>1. TypeOK'
  BY DEF IInv, TypeOK, NodeType, BodyInv, listVars, sharedVars, samplerVars, callerVars, Starting, Ending, JIT
<1>2. \A d \in Callers : d # c => pc'[d] = "idle"
  BY Alone DEF IInv, TypeOK
<1>3. pc'[c] # "idle"
  BY DEF IInv, TypeOK
<1>4. StartInv(c)' /\ BodyInv(c)' /\ EndInv(c)'
  BY NullAssumption, ThreadAssumption
  DEF IInv, TypeOK, StartInv, BodyInv, EndInv, SamplerInv, Empty, Only, Listed, NoSampler,
      Living, Released, Valid, listVars, sharedVars, samplerVars, callerVars, Starting, JIT
<1>5. SamplerInv'
  BY NullAssumption, ThreadAssumption
  DEF IInv, TypeOK, StartInv, BodyInv, EndInv, SamplerInv, Listed, NoSampler, Living,
      Valid, listVars, sharedVars, samplerVars, callerVars, Starting, JIT
<1> QED BY <1>1, <1>2, <1>3, <1>4, <1>5, Rebuild

LEMMA ErrorExitKeeps ==
    ASSUME IInv, NEW c \in Callers, ErrorExit(c)
    PROVE  IInv'
<1> USE DEF At, Goto, ErrorExit
<1>1. TypeOK'
  BY DEF IInv, TypeOK, NodeType, listVars, sharedVars, samplerVars, callerVars, Starting, Ending, JIT
<1>2. \A d \in Callers : d # c => pc'[d] = "idle"
  BY Alone DEF IInv, TypeOK
<1>3. pc'[c] # "idle"
  BY DEF IInv, TypeOK
<1>4. StartInv(c)' /\ BodyInv(c)' /\ EndInv(c)'
  BY NullAssumption, ThreadAssumption
  DEF IInv, TypeOK, StartInv, BodyInv, EndInv, SamplerInv, Empty, Only, Listed, NoSampler,
      Living, Released, Valid, listVars, sharedVars, samplerVars, callerVars, Starting, JIT
<1>5. SamplerInv'
  BY NullAssumption, ThreadAssumption
  DEF IInv, TypeOK, StartInv, BodyInv, EndInv, SamplerInv, Listed, NoSampler, Living,
      Valid, listVars, sharedVars, samplerVars, callerVars, Starting, JIT
<1> QED BY <1>1, <1>2, <1>3, <1>4, <1>5, Rebuild

-----------------------------------------------------------------------------
(* The way out: pipeline_end, shutdown, the JIT report and reset           *)

LEMMA EndKeeps ==
    ASSUME IInv, NEW c \in Callers, End(c)
    PROVE  IInv'
<1> USE DEF At, Goto, End
<1>1. TypeOK'
  BY DEF IInv, TypeOK, NodeType, listVars, sharedVars, samplerVars, callerVars, Starting, Ending, JIT, outside_of_halide, please_stop
<1>2. \A d \in Callers : d # c => pc'[d] = "idle"
  BY Alone DEF IInv, TypeOK
<1>3. pc'[c] # "idle"
  BY DEF IInv, TypeOK
<1>4. StartInv(c)' /\ BodyInv(c)' /\ EndInv(c)'
  BY NullAssumption, ThreadAssumption
  DEF IInv, TypeOK, StartInv, BodyInv, EndInv, SamplerInv, Empty, Only, Listed, NoSampler,
      Living, Released, Valid, listVars, sharedVars, samplerVars, callerVars, Starting, JIT, outside_of_halide, please_stop
<1>5. SamplerInv'
  BY NullAssumption, ThreadAssumption
  DEF IInv, TypeOK, StartInv, BodyInv, EndInv, SamplerInv, Listed, NoSampler, Living,
      Valid, listVars, sharedVars, samplerVars, callerVars, Starting, JIT, outside_of_halide, please_stop
<1> QED BY <1>1, <1>2, <1>3, <1>4, <1>5, Rebuild

LEMMA CheckKeeps ==
    ASSUME IInv, NEW c \in Callers, Check(c)
    PROVE  IInv'
<1> USE DEF At, Goto, Check
<1>1. TypeOK'
  BY DEF IInv, TypeOK, NodeType, listVars, sharedVars, samplerVars, callerVars, Starting, Ending, JIT
<1>2. \A d \in Callers : d # c => pc'[d] = "idle"
  BY Alone DEF IInv, TypeOK
<1>3. pc'[c] # "idle"
  BY DEF IInv, TypeOK
<1>4. StartInv(c)' /\ BodyInv(c)' /\ EndInv(c)'
  BY NullAssumption, ThreadAssumption
  DEF IInv, TypeOK, StartInv, BodyInv, EndInv, SamplerInv, Empty, Only, Listed, NoSampler,
      Living, Released, Valid, listVars, sharedVars, samplerVars, callerVars, Starting, JIT
<1>5. SamplerInv'
  BY NullAssumption, ThreadAssumption
  DEF IInv, TypeOK, StartInv, BodyInv, EndInv, SamplerInv, Listed, NoSampler, Living,
      Valid, listVars, sharedVars, samplerVars, callerVars, Starting, JIT
<1> QED BY <1>1, <1>2, <1>3, <1>4, <1>5, Rebuild

LEMMA StopKeeps ==
    ASSUME IInv, NEW c \in Callers, Stop(c)
    PROVE  IInv'
<1> USE DEF At, Goto, Stop
<1>1. TypeOK'
  BY DEF IInv, TypeOK, NodeType, listVars, sharedVars, samplerVars, callerVars, Starting, Ending, JIT, outside_of_halide, please_stop
<1>2. \A d \in Callers : d # c => pc'[d] = "idle"
  BY Alone DEF IInv, TypeOK
<1>3. pc'[c] # "idle"
  BY DEF IInv, TypeOK
<1>4. StartInv(c)' /\ BodyInv(c)' /\ EndInv(c)'
  BY NullAssumption, ThreadAssumption
  DEF IInv, TypeOK, StartInv, BodyInv, EndInv, SamplerInv, Empty, Only, Listed, NoSampler,
      Living, Released, Valid, listVars, sharedVars, samplerVars, callerVars, Starting, JIT, outside_of_halide, please_stop
<1>5. SamplerInv'
  BY NullAssumption, ThreadAssumption
  DEF IInv, TypeOK, StartInv, BodyInv, EndInv, SamplerInv, Listed, NoSampler, Living,
      Valid, listVars, sharedVars, samplerVars, callerVars, Starting, JIT, outside_of_halide, please_stop
<1> QED BY <1>1, <1>2, <1>3, <1>4, <1>5, Rebuild

LEMMA JoinKeeps ==
    ASSUME IInv, NEW c \in Callers, Join(c)
    PROVE  IInv'
<1> USE DEF At, Goto, Join
<1>1. TypeOK'
  BY DEF IInv, TypeOK, NodeType, listVars, sharedVars, samplerVars, callerVars, Starting, Ending, JIT
<1>2. \A d \in Callers : d # c => pc'[d] = "idle"
  BY Alone DEF IInv, TypeOK
<1>3. pc'[c] # "idle"
  BY DEF IInv, TypeOK
<1>4. StartInv(c)' /\ BodyInv(c)' /\ EndInv(c)'
  BY NullAssumption, ThreadAssumption
  DEF IInv, TypeOK, StartInv, BodyInv, EndInv, SamplerInv, Empty, Only, Listed, NoSampler,
      Living, Released, Valid, listVars, sharedVars, samplerVars, callerVars, Starting, JIT
<1>5. SamplerInv'
  BY NullAssumption, ThreadAssumption
  DEF IInv, TypeOK, StartInv, BodyInv, EndInv, SamplerInv, Listed, NoSampler, Living,
      Valid, listVars, sharedVars, samplerVars, callerVars, Starting, JIT
<1> QED BY <1>1, <1>2, <1>3, <1>4, <1>5, Rebuild

LEMMA JoinedKeeps ==
    ASSUME IInv, NEW c \in Callers, Joined(c)
    PROVE  IInv'
<1> USE DEF At, Goto, Joined
<1>1. TypeOK'
  <2>1. current_func' \in Int /\ current_func' >= please_stop
    BY DEF outside_of_halide, please_stop
  <2>2. pc' \in [Callers -> {"idle", "incr", "body"} \cup Starting \cup Ending \cup JIT]
    BY DEF IInv, TypeOK, Ending
  <2> QED
    BY <2>1, <2>2 DEF IInv, TypeOK, listVars, samplerVars
<1>2. \A d \in Callers : d # c => pc'[d] = "idle"
  BY Alone DEF IInv, TypeOK
<1>3. pc'[c] # "idle"
  BY DEF IInv, TypeOK
<1>4. StartInv(c)' /\ BodyInv(c)' /\ EndInv(c)'
  BY NullAssumption, ThreadAssumption
  DEF IInv, TypeOK, StartInv, BodyInv, EndInv, SamplerInv, Empty, Only, Listed, NoSampler,
      Living, Released, Valid, listVars, sharedVars, samplerVars, callerVars, Starting, JIT, outside_of_halide, please_stop
<1>5. SamplerInv'
  BY NullAssumption, ThreadAssumption
  DEF IInv, TypeOK, StartInv, BodyInv, EndInv, SamplerInv, Listed, NoSampler, Living,
      Valid, listVars, sharedVars, samplerVars, callerVars, Starting, JIT, outside_of_halide, please_stop
<1> QED BY <1>1, <1>2, <1>3, <1>4, <1>5, Rebuild

LEMMA ReportNextKeeps ==
    ASSUME IInv, NEW c \in Callers, ReportNext(c)
    PROVE  IInv'
<1> USE DEF At, Goto, ReportNext
<1>1. TypeOK'
  BY DEF IInv, TypeOK, NodeType, EndInv, listVars, sharedVars, samplerVars, callerVars, Starting, Ending, JIT
<1>2. \A d \in Callers : d # c => pc'[d] = "idle"
  BY Alone DEF IInv, TypeOK
<1>3. pc'[c] # "idle"
  BY DEF IInv, TypeOK
<1>4. StartInv(c)' /\ BodyInv(c)' /\ EndInv(c)'
  BY NullAssumption, ThreadAssumption
  DEF IInv, TypeOK, StartInv, BodyInv, EndInv, SamplerInv, Empty, Only, Listed, NoSampler,
      Living, Released, Valid, listVars, sharedVars, samplerVars, callerVars, Starting, JIT
<1>5. SamplerInv'
  BY NullAssumption, ThreadAssumption
  DEF IInv, TypeOK, StartInv, BodyInv, EndInv, SamplerInv, Listed, NoSampler, Living,
      Valid, listVars, sharedVars, samplerVars, callerVars, Starting, JIT
<1> QED BY <1>1, <1>2, <1>3, <1>4, <1>5, Rebuild

LEMMA ClearKeeps ==
    ASSUME IInv, NEW c \in Callers, Clear(c)
    PROVE  IInv'
<1> USE DEF At, Goto, Clear
<1>1. TypeOK'
  BY DEF IInv, TypeOK, NodeType, listVars, sharedVars, samplerVars, callerVars, Starting, Ending, JIT
<1>2. \A d \in Callers : d # c => pc'[d] = "idle"
  BY Alone DEF IInv, TypeOK
<1>3. pc'[c] # "idle"
  BY DEF IInv, TypeOK
<1>4. StartInv(c)' /\ BodyInv(c)' /\ EndInv(c)'
  BY NullAssumption, ThreadAssumption
  DEF IInv, TypeOK, StartInv, BodyInv, EndInv, SamplerInv, Empty, Only, Listed, NoSampler,
      Living, Released, Valid, listVars, sharedVars, samplerVars, callerVars, Starting, JIT
<1>5. SamplerInv'
  BY NullAssumption, ThreadAssumption
  DEF IInv, TypeOK, StartInv, BodyInv, EndInv, SamplerInv, Listed, NoSampler, Living,
      Valid, listVars, sharedVars, samplerVars, callerVars, Starting, JIT
<1> QED BY <1>1, <1>2, <1>3, <1>4, <1>5, Rebuild

LEMMA JitReportKeeps ==
    ASSUME IInv, NEW c \in Callers, JitReport(c)
    PROVE  IInv'
<1> USE DEF At, Goto, JitReport
<1>1. TypeOK'
  BY DEF IInv, TypeOK, NodeType, listVars, sharedVars, samplerVars, callerVars, Starting, Ending, JIT
<1>2. \A d \in Callers : d # c => pc'[d] = "idle"
  BY Alone DEF IInv, TypeOK
<1>3. pc'[c] # "idle"
  BY DEF IInv, TypeOK
<1>4. StartInv(c)' /\ BodyInv(c)' /\ EndInv(c)'
  BY NullAssumption, ThreadAssumption
  DEF IInv, TypeOK, StartInv, BodyInv, EndInv, SamplerInv, Empty, Only, Listed, NoSampler,
      Living, Released, Valid, listVars, sharedVars, samplerVars, callerVars, Starting, JIT
<1>5. SamplerInv'
  BY NullAssumption, ThreadAssumption
  DEF IInv, TypeOK, StartInv, BodyInv, EndInv, SamplerInv, Listed, NoSampler, Living,
      Valid, listVars, sharedVars, samplerVars, callerVars, Starting, JIT
<1> QED BY <1>1, <1>2, <1>3, <1>4, <1>5, Rebuild

LEMMA JitResetKeeps ==
    ASSUME IInv, NEW c \in Callers, JitReset(c)
    PROVE  IInv'
<1> USE DEF At, Goto, JitReset
<1>1. TypeOK'
  BY DEF IInv, TypeOK, NodeType, listVars, sharedVars, samplerVars, callerVars, Starting, Ending, JIT
<1>2. \A d \in Callers : d # c => pc'[d] = "idle"
  BY Alone DEF IInv, TypeOK
<1>3. pc'[c] # "idle"
  BY DEF IInv, TypeOK
<1>4. StartInv(c)' /\ BodyInv(c)' /\ EndInv(c)'
  BY NullAssumption, ThreadAssumption
  DEF IInv, TypeOK, StartInv, BodyInv, EndInv, SamplerInv, Empty, Only, Listed, NoSampler,
      Living, Released, Valid, listVars, sharedVars, samplerVars, callerVars, Starting, JIT
<1>5. SamplerInv'
  BY NullAssumption, ThreadAssumption
  DEF IInv, TypeOK, StartInv, BodyInv, EndInv, SamplerInv, Listed, NoSampler, Living,
      Valid, listVars, sharedVars, samplerVars, callerVars, Starting, JIT
<1> QED BY <1>1, <1>2, <1>3, <1>4, <1>5, Rebuild

LEMMA ResetNextKeeps ==
    ASSUME IInv, NEW c \in Callers, ResetNext(c)
    PROVE  IInv'
<1> USE DEF At, Goto, ResetNext
<1>1. TypeOK'
  <2>1. heap' \subseteq Nodes /\ node' \in [Nodes -> NodeType]
    BY FreeTypes DEF IInv
  <2>2. pipelines \in Nodes
    BY DEF IInv, TypeOK
  <2>3. pipelines' \in Nodes \cup {Null}
    BY <2>2 DEF IInv, TypeOK, NodeType
  <2> QED BY <2>1, <2>3 DEF IInv, TypeOK, sharedVars, samplerVars, callerVars
<1>2. \A d \in Callers : d # c => pc'[d] = "idle"
  BY Alone DEF IInv, TypeOK, callerVars
<1>3. pc'[c] # "idle"
  BY DEF IInv, TypeOK, callerVars
<1>4. StartInv(c)' /\ BodyInv(c)' /\ EndInv(c)'
  BY NullAssumption, ThreadAssumption, FuncAssumption
  DEF IInv, TypeOK, StartInv, BodyInv, EndInv, SamplerInv, Empty, Only, Listed, NoSampler,
      Living, Released, Valid, listVars, sharedVars, samplerVars, callerVars, Starting, JIT, Free, Blank, AnyName
<1>5. SamplerInv'
  BY NullAssumption, ThreadAssumption
  DEF IInv, TypeOK, StartInv, BodyInv, EndInv, SamplerInv, Listed, NoSampler, Living,
      Valid, listVars, sharedVars, samplerVars, callerVars, Starting, JIT, Free, Blank, AnyName
<1> QED BY <1>1, <1>2, <1>3, <1>4, <1>5, Rebuild

\* With one pipeline at a time the search in pipeline_start finds an empty list.
LEMMA FindsNothing ==
    ASSUME IInv, NEW c \in Callers, FindNext(c) \/ FindHit(c)
    PROVE  FALSE
BY DEF FindNext, FindHit, IInv, StartInv, At

LEMMA ReportEndKeeps ==
    ASSUME IInv, NEW c \in Callers, ReportEnd(c)
    PROVE  IInv'
<1> USE ThreadAssumption DEF At, Goto, ReportEnd
<1>1. TypeOK'
  BY DEF IInv, TypeOK, listVars, sharedVars, samplerVars, Ending, JIT
<1>2. \A d \in Callers : d # c => pc'[d] = "idle"
  BY Alone DEF IInv, TypeOK
<1>3. pc'[c] = IF lock = c THEN "jitreset" ELSE "reset"
  BY DEF IInv, TypeOK
<1>4. StartInv(c)' /\ BodyInv(c)' /\ EndInv(c)'
  BY <1>3
  DEF IInv, TypeOK, StartInv, BodyInv, EndInv, Empty, Only, Listed, NoSampler, listVars,
      sharedVars, samplerVars, Starting, JIT
<1>5. SamplerInv'
  BY DEF IInv, EndInv, SamplerInv, NoSampler, listVars, sharedVars, samplerVars
<1> QED BY <1>1, <1>2, <1>3, <1>4, <1>5, Rebuild

\* The steps back to idle leave every caller out.
LEMMA RebuildIdle ==
    ASSUME TypeOK', \A d \in Callers : pc'[d] = "idle", SamplerInv', IdleInv'
    PROVE  IInv'
BY DEF IInv, Exclusive, StartInv, BodyInv, EndInv, At, Starting, JIT

LEMMA ResetEndKeeps ==
    ASSUME IInv, NEW c \in Callers, ResetEnd(c)
    PROVE  IInv'
<1> USE ThreadAssumption DEF At, Goto, ResetEnd
<1>1. TypeOK'
  BY DEF IInv, TypeOK, sharedVars, samplerVars, Ending
<1>2. \A d \in Callers : d # c => pc'[d] = "idle"
  BY Alone DEF IInv, TypeOK
<1>3. SamplerInv'
  BY DEF IInv, EndInv, SamplerInv, NoSampler, sharedVars, samplerVars
<1>4. CASE lock = c
  <2>1. pc'[c] = "idle"
    BY <1>4 DEF IInv, TypeOK
  <2>2. IdleInv'
    BY <1>4
    DEF IInv, EndInv, IdleInv, Empty, NoSampler, Released, sharedVars, samplerVars
  <2> QED BY <1>1, <1>2, <1>3, <2>1, <2>2, RebuildIdle
<1>5. CASE lock # c
  <2>1. pc'[c] = "clear"
    BY <1>5 DEF IInv, TypeOK
  <2>2. StartInv(c)' /\ BodyInv(c)' /\ EndInv(c)'
    BY <1>5, <2>1, NullAssumption
    DEF IInv, TypeOK, StartInv, BodyInv, EndInv, Empty, NoSampler, Listed, Only,
        sharedVars, samplerVars, Starting, JIT
  <2> QED BY <1>1, <1>2, <1>3, <2>1, <2>2, Rebuild
<1> QED BY <1>4, <1>5

LEMMA ReturnKeeps ==
    ASSUME IInv, NEW c \in Callers, Return(c)
    PROVE  IInv'
<1> USE DEF At, Goto, Return
<1>1. TypeOK'
  BY DEF IInv, TypeOK, listVars, sharedVars, samplerVars, JIT
<1>2. \A d \in Callers : d # c => pc'[d] = "idle"
  BY Alone DEF IInv, TypeOK
<1>3. SamplerInv'
  BY DEF IInv, EndInv, SamplerInv, NoSampler, listVars, sharedVars, samplerVars, JIT
<1>4. CASE pc'[c] = "idle"
  <2>1. IdleInv'
    BY DEF IInv, EndInv, IdleInv, Empty, NoSampler, Released, listVars, sharedVars,
           samplerVars, JIT
  <2> QED BY <1>1, <1>2, <1>3, <1>4, <2>1, RebuildIdle
<1>5. CASE pc'[c] = "jitreport"
  <2>1. StartInv(c)' /\ BodyInv(c)' /\ EndInv(c)'
    BY <1>5
    DEF IInv, TypeOK, StartInv, BodyInv, EndInv, Empty, NoSampler, listVars, sharedVars,
        samplerVars, Starting, JIT
  <2> QED BY <1>1, <1>2, <1>3, <1>5, <2>1, Rebuild
<1> QED BY <1>4, <1>5 DEF IInv, TypeOK

-----------------------------------------------------------------------------
(* The sampling thread                                                     *)

\* It runs only while one caller is between pipeline_start and the join.
LEMMA SamplerHasCaller ==
    ASSUME IInv, spc # "none"
    PROVE  \E c \in Callers :
              /\ pc[c] \in {"incr", "body", "end", "check", "stop", "join"}
              /\ Listed(pipelines, name[c])
              /\ At(c, "join") \/ (spc # "exited" /\ Valid(current_func, name[c]))
<1>1. PICK c \in Callers : ~At(c, "idle")
  BY DEF IInv, IdleInv, NoSampler
<1>2. pc[c] \in {"incr", "body", "end", "check", "stop", "join"}
  BY <1>1 DEF IInv, TypeOK, StartInv, EndInv, NoSampler, At, Starting, Ending, JIT
<1>3. Listed(pipelines, name[c])
  BY <1>2 DEF IInv, BodyInv, EndInv, NoSampler, At, Listed
<1>4. At(c, "join") \/ (spc # "exited" /\ Valid(current_func, name[c]))
  BY <1>2 DEF IInv, BodyInv, EndInv, NoSampler, At, Valid
<1> QED BY <1>2, <1>3, <1>4

\* What such a caller knows does not depend on where the sampler is, as long
\* as it lives, nor on the time that its block has been billed.
LEMMA CallerUndisturbed ==
    ASSUME IInv, TypeOK', SamplerInv', spc # "none", spc' # "none",
           UNCHANGED <<first_free_id, heap, pipelines, sharedVars, callerVars>>,
           \A p \in Nodes : /\ node'[p].next = node[p].next
                            /\ node'[p].first = node[p].first
                            /\ node'[p].num = node[p].num
                            /\ node'[p].runs = node[p].runs,
           spc' = "exited" => spc = "exited" \/ current_func = please_stop
    PROVE  IInv'
<1>1. PICK c \in Callers :
         /\ pc[c] \in {"incr", "body", "end", "check", "stop", "join"}
         /\ Listed(pipelines, name[c])
         /\ At(c, "join") \/ (spc # "exited" /\ Valid(current_func, name[c]))
  BY SamplerHasCaller
<1>2. \A d \in Callers : d # c => pc'[d] = "idle"
  BY <1>1, Alone DEF At, callerVars
<1>3. Listed(pipelines, name[c])'
  BY <1>1 DEF Listed, Only, callerVars
<1>4. ~At(c, "join") => spc' # "exited"
  BY <1>1, FuncAssumption DEF Valid, outside_of_halide, please_stop
<1>5. StartInv(c)' /\ BodyInv(c)' /\ EndInv(c)'
  BY <1>1, <1>3, <1>4
  DEF IInv, StartInv, BodyInv, EndInv, NoSampler, Living, Listed, At, Valid, callerVars,
      sharedVars, Starting, JIT
<1> QED BY <1>1, <1>2, <1>5, Rebuild DEF callerVars

LEMMA SamplerKeeps ==
    ASSUME IInv, SamplerStep
    PROVE  IInv'
<1> USE DEF SamplerAt
<1>1. spc # "none"
  BY DEF SamplerStep, SamplerBegin, OuterStop, OuterGo, Sample, SampleStop, SampleOutside,
         Bill, WalkNext, WalkHit, WalkEnd, Wake
<1>2. PICK c \in Callers :
         /\ pc[c] \in {"incr", "body", "end", "check", "stop", "join"}
         /\ Listed(pipelines, name[c])
         /\ At(c, "join") \/ (spc # "exited" /\ Valid(current_func, name[c]))
  BY <1>1, SamplerHasCaller
<1>3. current_func = please_stop \/ Valid(current_func, name[c])
  BY <1>2 DEF IInv, EndInv, At
<1>4. /\ spc = "bill" => func = please_stop \/ Valid(func, name[c])
      /\ spc = "walk" => func >= 0 /\ Valid(func, name[c])
  BY <1>2, Alone DEF IInv, SamplerInv, At
<1>5. sampling_thread
  BY <1>1 DEF IInv, SamplerInv
<1>6. CASE SamplerBegin
  <2>1. TypeOK'
    BY <1>6, <1>2 DEF SamplerBegin, IInv, TypeOK, NodeType, listVars, sharedVars, callerVars
  <2>2. SamplerInv'
    BY <1>6, <1>2, <1>3, <1>5, ThreadAssumption, NullAssumption
    DEF SamplerBegin, IInv, SamplerInv, Valid, Listed, Only, listVars, sharedVars, callerVars, At
  <2> QED
    BY <1>6, <1>1, <2>1, <2>2, CallerUndisturbed DEF SamplerBegin, listVars
<1>7. CASE OuterStop
  <2>1. TypeOK'
    BY <1>7, <1>2 DEF OuterStop, IInv, TypeOK, NodeType, listVars, sharedVars, callerVars
  <2>2. SamplerInv'
    BY <1>7, <1>2, <1>3, <1>5, ThreadAssumption, NullAssumption
    DEF OuterStop, IInv, SamplerInv, Valid, Listed, Only, listVars, sharedVars, callerVars, At
  <2> QED
    BY <1>7, <1>1, <2>1, <2>2, CallerUndisturbed DEF OuterStop, listVars
<1>8. CASE OuterGo
  <2>1. TypeOK'
    BY <1>8, <1>2 DEF OuterGo, IInv, TypeOK, NodeType, listVars, sharedVars, callerVars
  <2>2. SamplerInv'
    BY <1>8, <1>2, <1>3, <1>5, ThreadAssumption, NullAssumption
    DEF OuterGo, IInv, SamplerInv, Valid, Listed, Only, listVars, sharedVars, callerVars, At
  <2> QED
    BY <1>8, <1>1, <2>1, <2>2, CallerUndisturbed DEF OuterGo, listVars
<1>9. CASE Sample
  <2>1. TypeOK'
    BY <1>9, <1>2 DEF Sample, IInv, TypeOK, NodeType, listVars, sharedVars, callerVars, Valid
  <2>2. SamplerInv'
    BY <1>9, <1>2, <1>3, <1>5, ThreadAssumption, NullAssumption
    DEF Sample, IInv, SamplerInv, Valid, Listed, Only, listVars, sharedVars, callerVars, At
  <2> QED
    BY <1>9, <1>1, <2>1, <2>2, CallerUndisturbed DEF Sample, listVars
<1>10. CASE SampleStop
  <2>1. TypeOK'
    BY <1>10, <1>2 DEF SampleStop, IInv, TypeOK, NodeType, listVars, sharedVars, callerVars, outside_of_halide
  <2>2. SamplerInv'
    BY <1>10, <1>2, <1>3, <1>5, ThreadAssumption, NullAssumption
    DEF SampleStop, IInv, SamplerInv, Valid, Listed, Only, listVars, sharedVars, callerVars, At
  <2> QED
    BY <1>10, <1>1, <2>1, <2>2, CallerUndisturbed DEF SampleStop, listVars
<1>11. CASE SampleOutside
  <2>1. TypeOK'
    BY <1>11, <1>2 DEF SampleOutside, IInv, TypeOK, NodeType, listVars, sharedVars, callerVars
  <2>2. SamplerInv'
    BY <1>11, <1>2, <1>3, <1>5, ThreadAssumption, NullAssumption
    DEF SampleOutside, IInv, SamplerInv, Valid, Listed, Only, listVars, sharedVars, callerVars, At
  <2> QED
    BY <1>11, <1>1, <2>1, <2>2, CallerUndisturbed DEF SampleOutside, listVars
<1>12. CASE Bill
  <2>1. TypeOK'
    BY <1>12, <1>2 DEF Bill, IInv, TypeOK, NodeType, listVars, sharedVars, callerVars
  <2>2. func' >= 0 /\ ~At(c, "idle")' /\ Valid(func, name[c])'
    BY <1>12, <1>4, <1>2 DEF Bill, Valid, callerVars, At, please_stop
  <2>3. SamplerInv'
    BY <1>12, <1>5, <2>2, ThreadAssumption
    DEF Bill, IInv, SamplerInv, listVars, sharedVars, callerVars
  <2> QED
    BY <1>12, <1>1, <2>1, <2>3, CallerUndisturbed DEF Bill, listVars
<1>13. CASE WalkNext
  <2>1. sp = pipelines /\ InRange(sp, func)
    BY <1>13, <1>2, <1>4, FuncAssumption
    DEF WalkNext, IInv, TypeOK, SamplerInv, Listed, Only, InRange, Valid, outside_of_halide
  <2> QED BY <1>13, <2>1 DEF WalkNext
<1>14. CASE WalkEnd
  <2>1. TypeOK'
    BY <1>14, <1>2 DEF WalkEnd, IInv, TypeOK, NodeType, listVars, sharedVars, callerVars, WalkOver, outside_of_halide
  <2>2. SamplerInv'
    BY <1>14, <1>2, <1>3, <1>5, ThreadAssumption, NullAssumption
    DEF WalkEnd, IInv, SamplerInv, Valid, Listed, Only, listVars, sharedVars, callerVars, At, WalkOver
  <2> QED
    BY <1>14, <1>1, <2>1, <2>2, CallerUndisturbed DEF WalkEnd, listVars
<1>15. CASE Wake
  <2>1. TypeOK'
    BY <1>15, <1>2 DEF Wake, IInv, TypeOK, NodeType, listVars, sharedVars, callerVars
  <2>2. SamplerInv'
    BY <1>15, <1>2, <1>3, <1>5, ThreadAssumption, NullAssumption
    DEF Wake, IInv, SamplerInv, Valid, Listed, Only, listVars, sharedVars, callerVars, At
  <2> QED
    BY <1>15, <1>1, <2>1, <2>2, CallerUndisturbed DEF Wake, listVars
<1>16. CASE WalkHit
  <2> USE DEF WalkHit
  <2>1. sprev = Null /\ sp = pipelines /\ sp \in Nodes /\ node[sp] \in NodeType
    BY <1>16, <1>2 DEF IInv, TypeOK, SamplerInv, Listed, Only
  <2>2. node' = [node EXCEPT ![sp].time = @ + dt] /\ pipelines' = pipelines
    BY <1>16, <2>1 DEF Bubbled
  <2>3. TypeOK'
    <3>1. node' \in [Nodes -> NodeType]
      BY <2>1, <2>2 DEF IInv, TypeOK, NodeType
    <3> QED
      BY <1>16, <2>2, <3>1 DEF IInv, TypeOK, WalkOver, outside_of_halide, sharedVars, callerVars
  <2>4. SamplerInv'
    BY <1>16, <1>5, <2>2, ThreadAssumption
    DEF IInv, SamplerInv, WalkOver, sharedVars, callerVars
  <2>5. \A p \in Nodes : /\ node'[p].next = node[p].next
                         /\ node'[p].first = node[p].first
                         /\ node'[p].num = node[p].num
                         /\ node'[p].runs = node[p].runs
    BY <2>1, <2>2 DEF IInv, TypeOK, NodeType
  <2> QED
    BY <1>16, <1>1, <2>2, <2>3, <2>4, <2>5, CallerUndisturbed
<1> QED
  BY <1>6, <1>7, <1>8, <1>9, <1>10, <1>11, <1>12, <1>13, <1>14, <1>15, <1>16
  DEF SamplerStep

LEMMA TickKeeps ==
    ASSUME IInv, Tick
    PROVE  IInv'
<1> USE DEF Tick
<1>1. TypeOK'
  BY DEF IInv, TypeOK, listVars, sharedVars, callerVars
<1>2. SamplerInv'
  BY DEF IInv, SamplerInv, listVars, sharedVars, callerVars, At
<1> QED BY <1>1, <1>2, CallerUndisturbed DEF listVars

LEMMA StutterKeeps ==
    ASSUME IInv, UNCHANGED vars
    PROVE  IInv'
<1> USE DEF vars, listVars, sharedVars, callerVars, samplerVars
<1>1. TypeOK' /\ Exclusive' /\ IdleInv' /\ SamplerInv'
  BY DEF IInv, TypeOK, Exclusive, IdleInv, SamplerInv, Empty, NoSampler, Released, At,
         Valid
<1>2. ASSUME NEW c \in Callers PROVE (StartInv(c) /\ BodyInv(c) /\ EndInv(c))'
  BY DEF IInv, StartInv, BodyInv, EndInv, Empty, Only, Listed, NoSampler, Living,
         Released, Valid, At
<1> QED BY <1>1, <1>2 DEF IInv

-----------------------------------------------------------------------------
LEMMA StepKeeps == ~Overlap /\ IInv /\ [Next]_vars => IInv'
<1> SUFFICES ASSUME ~Overlap, IInv, [Next]_vars PROVE IInv'
  OBVIOUS
<1>1. ASSUME NEW c \in Callers, Start(c) \/ StartStep(c) PROVE IInv'
  BY <1>1, StartKeeps, FindsNothing, AllocateKeeps, AllocateFailsKeeps, FillKeeps,
     FillFailsKeeps, ReserveIdsKeeps, PublishKeeps, StartLockedKeeps
  DEF StartStep
<1>2. ASSUME NEW c \in Callers, IncrActive(c) \/ SetCurrentFunc(c) \/ Finish(c)
      PROVE  IInv'
  BY <1>2, IncrActiveKeeps, SetCurrentFuncKeeps, DecrActiveKeeps, ErrorExitKeeps
  DEF Finish
<1>3. ASSUME NEW c \in Callers, EndStep(c) PROVE IInv'
  BY <1>3, EndKeeps, CheckKeeps, StopKeeps, JoinKeeps, JoinedKeeps, ReportNextKeeps,
     ReportEndKeeps, ResetNextKeeps, ResetEndKeeps, ClearKeeps, ReturnKeeps,
     JitReportKeeps, JitResetKeeps
  DEF EndStep
<1> QED
  BY <1>1, <1>2, <1>3, SamplerKeeps, TickKeeps, StutterKeeps DEF Next

THEOREM Invariance == ASSUME ~Overlap PROVE Spec => []IInv
<1>1. IInv /\ [Next]_vars => IInv'
  BY StepKeeps
<1> QED BY <1>1, InitInv, PTL DEF Spec

\* Every variable keeps its type; in particular the count of active threads
\* never drops below zero, whatever pipelines fail.
THEOREM TypeCorrect == ASSUME ~Overlap PROVE Spec => []TypeOK
<1>1. IInv => TypeOK
  BY DEF IInv
<1> QED BY <1>1, Invariance, PTL

\* No thread follows a pointer to a freed block.
THEOREM NoDanglingThm == ASSUME ~Overlap PROVE Spec => []NoDangling
<1>1. IInv => NoDangling
  <2> SUFFICES ASSUME IInv PROVE NoDangling
    OBVIOUS
  <2>1. ASSUME NEW c \in Callers
        PROVE  /\ At(c, "find") \/ At(c, "report") => at[c] \in heap \cup {Null}
               /\ pc[c] \in {"fill", "ids", "publish", "startlock"} => at[c] \in heap
               /\ At(c, "reset") => pipelines \in heap \cup {Null}
               /\ At(c, "body") => current_pipeline_stats \in heap
    BY DEF IInv, StartInv, BodyInv, EndInv, Empty, Only, Listed, At
  <2>2. spc = "walk" => sp \in heap \cup {Null}
    BY SamplerHasCaller DEF IInv, SamplerInv, Listed, Only
  <2> QED BY <2>1, <2>2 DEF NoDangling
<1> QED BY <1>1, Invariance, PTL

\* No sampler is alive while the list is used without the lock.
THEOREM UnlockedListAloneThm == ASSUME ~Overlap PROVE Spec => []UnlockedListAlone
<1>1. IInv => UnlockedListAlone
  BY DEF IInv, UnlockedListAlone, StartInv, EndInv, NoSampler, Starting, Walking, At
<1> QED BY <1>1, Invariance, PTL

\* A pipeline runs with its own block, counters, sampler and ids in place.
THEOREM MeteredThm == ASSUME ~Overlap PROVE Spec => []MeteredWhileRunning
<1>1. IInv => MeteredWhileRunning
  BY FuncAssumption
  DEF IInv, MeteredWhileRunning, BodyInv, Listed, Only, Living, Valid, At,
      outside_of_halide, please_stop
<1> QED BY <1>1, Invariance, PTL

\* bill_func always finds the pipeline that was sampled.
THEOREM SampleFindsOwnerThm == ASSUME ~Overlap PROVE Spec => []SampleFindsOwner
<1>1. IInv => SampleFindsOwner
  <2> SUFFICES ASSUME IInv, spc = "walk"
               PROVE  sp # Null /\ InRange(sp, func) /\ node[sp].runs = 1
    BY DEF SampleFindsOwner
  <2>1. PICK c \in Callers : ~At(c, "idle") /\ Valid(func, name[c])
    BY DEF IInv, SamplerInv
  <2>2. Listed(pipelines, name[c])
    BY <2>1, SamplerHasCaller, Alone DEF At
  <2> QED
    BY <2>1, <2>2, NullAssumption, FuncAssumption
    DEF IInv, TypeOK, SamplerInv, Listed, Only, InRange, Valid, outside_of_halide
<1> QED BY <1>1, Invariance, PTL

\* Between runs nothing is left, however the last run went.
THEOREM CleanThm == ASSUME ~Overlap PROVE Spec => []CleanBetweenRuns
<1>1. IInv => CleanBetweenRuns
  BY DEF IInv, IdleInv, CleanBetweenRuns, Empty, NoSampler, Released
<1> QED BY <1>1, Invariance, PTL

\* The statistics of a listed block do not move while shutdown or the JIT
\* report prints and releases them.
THEOREM FrozenThm == ASSUME ~Overlap PROVE Spec => FrozenWhileReported
<1>1. ASSUME IInv, [Next]_vars
      PROVE  [(\E c \in Callers : pc[c] \in {"report", "reset"}) =>
                 \A p \in heap \cap heap' : node'[p] = node[p]]_vars
  <2> SUFFICES ASSUME NEW c \in Callers, pc[c] \in {"report", "reset"},
                      NEW p \in heap \cap heap', Next
               PROVE  node'[p] = node[p]
    BY <1>1 DEF vars, listVars
  <2>1. spc = "none"
    BY <1>1 DEF IInv, EndInv, NoSampler, At
  <2>2. \A d \in Callers : d # c => pc[d] = "idle"
    BY <1>1, Alone DEF At
  <2>3. ASSUME NEW d \in Callers, Start(d) \/ IncrActive(d) \/ SetCurrentFunc(d) \/ Finish(d)
        PROVE  node' = node
    BY <2>3 DEF Start, IncrActive, SetCurrentFunc, Finish, DecrActive, ErrorExit, listVars
  <2>4. ASSUME NEW d \in Callers, StartStep(d) PROVE FALSE
    BY <2>2, <2>4 DEF StartStep, FindNext, FindHit, Allocate, AllocateFails, Fill, FillFails,
                      ReserveIds, Publish, StartLocked, At
  <2>5. ASSUME NEW d \in Callers, ResetNext(d) PROVE node'[p] = node[p]
    BY <1>1, <2>5 DEF ResetNext, Free, IInv, TypeOK
  <2>6. ASSUME NEW d \in Callers, EndStep(d), ~ResetNext(d) PROVE node' = node
    BY <2>6 DEF EndStep, End, Check, Stop, Join, Joined, ReportNext, ReportEnd, ResetEnd,
                Clear, Return, JitReport, JitReset, listVars
  <2>7. ~SamplerStep
    BY <2>1 DEF SamplerStep, SamplerBegin, OuterStop, OuterGo, Sample, SampleStop,
                SampleOutside, Bill, WalkNext, WalkHit, WalkEnd, Wake, SamplerAt
  <2>8. CASE Tick
    BY <2>8 DEF Tick, listVars
  <2> QED BY <2>3, <2>4, <2>5, <2>6, <2>7, <2>8 DEF Next
<1> QED BY <1>1, Invariance, PTL DEF Spec, FrozenWhileReported

-----------------------------------------------------------------------------
(* What a pipeline is billed.  A run begins with a new sampler, whose time *)
(* is what there is to bill.                                               *)

BillInv ==
    /\ \A p \in Nodes : /\ node[p].runs = 0 => node[p].time = 0
                        /\ p \notin heap => node[p].runs = 0
                        /\ node[p].runs > 0 => node[p].time + dt + since <= elapsed
    /\ spc # "walk" => dt = 0

LEMMA BillInit == Init => BillInv
BY DEF Init, BillInv, Blank

LEMMA Numbers ==
    ASSUME TypeOK
    PROVE  /\ dt \in Nat /\ since \in Nat /\ elapsed \in Nat
           /\ \A p \in Nodes : node[p].runs \in Nat /\ node[p].time \in Nat
BY DEF TypeOK, NodeType

\* Steps that change neither a node nor the clock.
LEMMA BillSame ==
    ASSUME BillInv, node' = node, dt' = dt, since' = since, elapsed' = elapsed,
           heap \subseteq heap', spc' # "walk" => spc # "walk"
    PROVE  BillInv'
BY DEF BillInv

\* A block is filled in or emptied.
LEMMA BillClears ==
    ASSUME BillInv, TypeOK, NEW p, NEW nd, nd.runs = 0, nd.time = 0,
           node' = [node EXCEPT ![p] = nd], heap \ {p} \subseteq heap',
           dt' = dt, since' = since, elapsed' = elapsed, spc' = spc
    PROVE  BillInv'
<1>1. \A q \in Nodes : \/ node'[q] = nd
                        \/ (q # p /\ node'[q] = node[q])
  BY DEF TypeOK
<1> QED BY <1>1 DEF BillInv

LEMMA BillStart ==
    ASSUME IInv, BillInv, NEW c \in Callers, Start(c) \/ StartStep(c)
    PROVE  BillInv'
<1>1. CASE Start(c) \/ FindNext(c) \/ FindHit(c) \/ Allocate(c) \/ AllocateFails(c)
           \/ ReserveIds(c) \/ Publish(c)
  <2>1. /\ node' = node /\ dt' = dt /\ since' = since /\ elapsed' = elapsed /\ spc' = spc
        /\ heap \subseteq heap'
    BY <1>1 DEF Start, FindNext, FindHit, Allocate, AllocateFails, ReserveIds, Publish,
                listVars, samplerVars
  <2> QED BY <2>1, BillSame
<1>2. CASE Fill(c)
  <2> DEFINE nd == [name |-> name[c], first |-> first_free_id, num |-> NumFuncs[name[c]],
                    next |-> pipelines, runs |-> 0, time |-> 0]
  <2>1. /\ node' = [node EXCEPT ![at[c]] = nd] /\ heap' = heap
        /\ dt' = dt /\ since' = since /\ elapsed' = elapsed /\ spc' = spc
    BY <1>2 DEF Fill, samplerVars
  <2>2. nd.runs = 0 /\ nd.time = 0
    OBVIOUS
  <2> HIDE DEF nd
  <2> QED BY <2>1, <2>2, BillClears DEF IInv
<1>3. CASE FillFails(c)
  <2>1. /\ node' = [node EXCEPT ![at[c]] = Blank] /\ heap' = heap \ {at[c]}
        /\ dt' = dt /\ since' = since /\ elapsed' = elapsed /\ spc' = spc
    BY <1>3 DEF FillFails, Free, samplerVars
  <2>2. Blank.runs = 0 /\ Blank.time = 0
    BY DEF Blank
  <2> QED BY <2>1, <2>2, BillClears DEF IInv
<1>4. CASE StartLocked(c)
  <2> DEFINE p == at[c]
  <2>1. p \in Nodes /\ heap = {p} /\ node[p].runs = 0 /\ NoSampler
    BY <1>4 DEF StartLocked, IInv, StartInv, Only, At, Starting
  <2>2. /\ node' = [node EXCEPT ![p].runs = @ + 1] /\ heap' = heap
        /\ since' = 0 /\ elapsed' = 0 /\ dt' = dt /\ spc' = "start"
    BY <1>4, <2>1 DEF StartLocked, Spawn, NoSampler
  <2>3. dt = 0 /\ node[p].time = 0
    BY <2>1 DEF BillInv, NoSampler
  <2>4. /\ node'[p].runs = 1 /\ node'[p].time = 0
        /\ \A q \in Nodes \ {p} : node'[q] = node[q]
    BY <2>1, <2>2, <2>3 DEF IInv, TypeOK, NodeType
  <2>5. \A q \in Nodes \ {p} : node[q].runs = 0 /\ node[q].time = 0
    BY <2>1 DEF BillInv
  <2> QED BY <2>1, <2>2, <2>3, <2>4, <2>5 DEF BillInv
<1> QED BY <1>1, <1>2, <1>3, <1>4 DEF StartStep

LEMMA BillEnd ==
    ASSUME IInv, BillInv, NEW c \in Callers, EndStep(c)
    PROVE  BillInv'
<1>1. CASE \/ End(c) \/ Check(c) \/ Stop(c) \/ Joined(c) \/ ReportNext(c) \/ ReportEnd(c)
           \/ ResetEnd(c) \/ Clear(c) \/ Return(c) \/ JitReport(c) \/ JitReset(c)
  <2>1. /\ node' = node /\ dt' = dt /\ since' = since /\ elapsed' = elapsed /\ spc' = spc
        /\ heap' = heap
    BY <1>1 DEF End, Check, Stop, Joined, ReportNext, ReportEnd, ResetEnd, Clear, Return,
                JitReport, JitReset, listVars, samplerVars
  <2> QED BY <2>1, BillSame
<1>2. CASE Join(c)
  <2>1. /\ node' = node /\ heap' = heap /\ dt' = dt /\ since' = 0 /\ elapsed' = elapsed
        /\ spc' = "none" /\ spc = "exited"
    BY <1>2 DEF Join, listVars
  <2> QED BY <2>1, Numbers DEF BillInv, IInv
<1>3. CASE ResetNext(c)
  <2>1. /\ node' = [node EXCEPT ![pipelines] = Blank] /\ heap' = heap \ {pipelines}
        /\ dt' = dt /\ since' = since /\ elapsed' = elapsed /\ spc' = spc
    BY <1>3 DEF ResetNext, Free, samplerVars
  <2>2. Blank.runs = 0 /\ Blank.time = 0
    BY DEF Blank
  <2> QED BY <2>1, <2>2, BillClears DEF IInv
<1> QED BY <1>1, <1>2, <1>3 DEF EndStep

LEMMA BillSampler ==
    ASSUME IInv, BillInv, SamplerStep
    PROVE  BillInv'
<1>1. CASE SamplerBegin \/ OuterStop \/ Sample \/ SampleStop \/ Wake \/ WalkNext
  <2>1. /\ node' = node /\ heap' = heap /\ dt' = dt /\ since' = since /\ elapsed' = elapsed
        /\ spc' # "walk" => spc # "walk"
    BY <1>1 DEF SamplerBegin, OuterStop, Sample, SampleStop, Wake, WalkNext, SamplerAt, listVars
  <2> QED BY <2>1, BillSame
<1>2. CASE OuterGo \/ SampleOutside
  <2>1. /\ node' = node /\ heap' = heap /\ dt' = dt /\ since' = 0 /\ elapsed' = elapsed
        /\ spc # "walk"
    BY <1>2 DEF OuterGo, SampleOutside, SamplerAt, listVars
  <2> QED BY <2>1, Numbers DEF BillInv, IInv
<1>3. CASE Bill
  <2>1. /\ node' = node /\ heap' = heap /\ dt' = since /\ since' = 0 /\ elapsed' = elapsed
        /\ spc = "bill" /\ spc' = "walk"
    BY <1>3 DEF Bill, SamplerAt, listVars
  <2>2. dt = 0
    BY <2>1 DEF BillInv
  <2> QED BY <2>1, <2>2, Numbers DEF BillInv, IInv
<1>4. CASE WalkHit
  <2>1. sp \in heap /\ sp \in Nodes /\ node[sp].runs = 1 /\ sprev = Null
    <3>1. PICK c \in Callers : ~At(c, "idle")
      BY <1>4 DEF WalkHit, IInv, SamplerInv
    <3>2. Listed(pipelines, name[c]) /\ sp = pipelines /\ sprev = Null
      BY <1>4, <3>1, SamplerHasCaller, Alone DEF WalkHit, At, IInv, SamplerInv
    <3> QED BY <3>2 DEF Listed, Only
  <2>2. /\ node' = [node EXCEPT ![sp].time = @ + dt] /\ heap' = heap
        /\ dt' = 0 /\ since' = since /\ elapsed' = elapsed /\ spc' = "sleep"
    BY <1>4, <2>1 DEF WalkHit, WalkOver, Bubbled
  <2>3. /\ node'[sp].runs = 1 /\ node'[sp].time = node[sp].time + dt
        /\ \A q \in Nodes \ {sp} : node'[q] = node[q]
    BY <2>1, <2>2 DEF IInv, TypeOK, NodeType
  <2> QED BY <2>1, <2>2, <2>3, Numbers DEF BillInv, IInv
<1>5. CASE WalkEnd
  <2>1. /\ node' = node /\ heap' = heap /\ dt' = 0 /\ since' = since /\ elapsed' = elapsed
    BY <1>5 DEF WalkEnd, WalkOver, SamplerAt, listVars
  <2> QED BY <2>1, Numbers DEF BillInv, IInv
<1> QED BY <1>1, <1>2, <1>3, <1>4, <1>5 DEF SamplerStep

LEMMA BillKeeps ==
    ASSUME IInv, BillInv, [Next]_vars
    PROVE  BillInv'
<1>1. ASSUME NEW c \in Callers, IncrActive(c) \/ SetCurrentFunc(c) \/ Finish(c)
      PROVE  BillInv'
  <2>1. /\ node' = node /\ dt' = dt /\ since' = since /\ elapsed' = elapsed /\ spc' = spc
        /\ heap' = heap
    BY <1>1 DEF IncrActive, SetCurrentFunc, Finish, DecrActive, ErrorExit, listVars, samplerVars
  <2> QED BY <2>1, BillSame
<1>2. CASE Tick
  <2>1. /\ node' = node /\ heap' = heap /\ dt' = dt /\ spc' = spc /\ elapsed' = elapsed + 1
        /\ since' \in {since, since + 1}
    BY <1>2 DEF Tick, listVars
  <2> QED BY <2>1, Numbers DEF BillInv, IInv
<1>3. CASE UNCHANGED vars
  BY <1>3, BillSame DEF vars, listVars, samplerVars
<1> QED BY <1>1, <1>2, <1>3, BillStart, BillEnd, BillSampler DEF Next

\* No pipeline is billed more time than there was since its run began.
THEOREM NeverOverbilledThm == ASSUME ~Overlap PROVE Spec => []NeverOverbilled
<1>1. IInv /\ BillInv /\ [Next]_vars => BillInv'
  BY BillKeeps
<1>2. IInv /\ BillInv => NeverOverbilled
  BY DEF IInv, TypeOK, BillInv, NeverOverbilled
<1> QED BY <1>1, <1>2, BillInit, Invariance, PTL DEF Spec

-----------------------------------------------------------------------------
(* The profiler implements ProfiledRun when pipelines run one at a time.   *)

Refused(c) == token[c] = -1 /\ printed[c] = 0
Running(c) == token[c] >= 0 /\ printed[c] = 0
Printed(c) == token[c] >= 0 /\ printed[c] = 1

\* How far a run has come at every place of the code.  The unlocked report
\* prints when it leaves the only block; the locked one sees an empty list.
Progress(c) ==
    /\ pc[c] \in Starting => Refused(c)
    /\ pc[c] \in {"incr", "body", "stop", "join", "joined"} => Running(c)
    /\ pc[c] \in {"end", "check"} => IF sampling_thread THEN Running(c) ELSE Refused(c)
    /\ At(c, "report") /\ lock # c =>
           IF at[c] = Null THEN Printed(c) ELSE Running(c)
    /\ At(c, "report") /\ lock = c => Printed(c) \/ Refused(c)
    /\ pc[c] \in {"reset", "clear"} \cup JIT => Printed(c) \/ Refused(c)

PInv == IInv /\ \A c \in Callers : Progress(c)

LEMMA PInit == Init => PInv
BY InitInv DEF Init, PInv, Progress, At, Starting, JIT

LEMMA CallerProgress ==
    ASSUME PInv, NEW c \in Callers,
           StartStep(c) \/ IncrActive(c) \/ SetCurrentFunc(c) \/ Finish(c) \/ EndStep(c)
    PROVE  Progress(c)'
<1> USE ThreadAssumption, NullAssumption
        DEF PInv, IInv, TypeOK, Progress, Refused, Running, Printed, At, Goto, Starting,
            JIT, sharedVars, samplerVars, callerVars
<1>1. CASE StartStep(c) /\ ~StartLocked(c)
  BY <1>1 DEF StartStep, FindNext, FindHit, Allocate, AllocateFails, Fill, FillFails,
              ReserveIds, Publish, StartInv, NoSampler
<1>2. CASE StartLocked(c)
  BY <1>2 DEF StartLocked, StartInv, Only
<1>3. CASE IncrActive(c) \/ SetCurrentFunc(c) \/ Finish(c)
  BY <1>3 DEF IncrActive, SetCurrentFunc, Finish, DecrActive, ErrorExit, BodyInv, Living
<1>4. CASE End(c) \/ Check(c) \/ Stop(c) \/ Join(c)
  BY <1>4 DEF End, Check, Stop, Join, EndInv, NoSampler, Living
<1>5. CASE Joined(c)
  BY <1>5 DEF Joined, EndInv, Listed, Only
<1>6. CASE ReportNext(c)
  BY <1>6 DEF ReportNext, EndInv, Listed, Only, Empty
<1>7. CASE ReportEnd(c) \/ ResetNext(c) \/ ResetEnd(c) \/ Clear(c)
  BY <1>7 DEF ReportEnd, ResetNext, ResetEnd, Clear
<1>8. CASE Return(c) \/ JitReport(c) \/ JitReset(c)
  BY <1>8 DEF Return, JitReport, JitReset
<1> QED BY <1>1, <1>2, <1>3, <1>4, <1>5, <1>6, <1>7, <1>8 DEF EndStep

LEMMA StartProgress ==
    ASSUME ~Overlap, PInv, NEW c \in Callers, Start(c)
    PROVE  Progress(c)'
BY DEF PInv, IInv, TypeOK, Start, Progress, Refused, At, Goto, Starting, JIT

\* A caller that is out makes no progress, and moves only by Start.
LEMMA OthersProgress ==
    ASSUME PInv, NEW c \in Callers, ~At(c, "idle"),
           StartStep(c) \/ IncrActive(c) \/ SetCurrentFunc(c) \/ Finish(c) \/ EndStep(c),
           NEW d \in Callers, d # c
    PROVE  Progress(d)'
<1>1. pc[d] = "idle"
  BY Alone DEF PInv
<1>2. pc'[d] = pc[d]
  BY DEF PInv, IInv, TypeOK, StartStep, FindNext, FindHit, Allocate, AllocateFails, Fill,
         FillFails, ReserveIds, Publish, StartLocked, IncrActive, SetCurrentFunc, Finish,
         DecrActive, ErrorExit, EndStep, End, Check, Stop, Join, Joined, ReportNext,
         ReportEnd, ResetNext, ResetEnd, Clear, Return, JitReport, JitReset, Goto,
         callerVars
<1> QED BY <1>1, <1>2 DEF Progress, At, Starting, JIT

\* The sampler takes the lock only while no caller reports.
LEMMA SamplerProgress ==
    ASSUME PInv, SamplerStep \/ Tick \/ UNCHANGED vars, NEW c \in Callers
    PROVE  Progress(c)'
<1>1. UNCHANGED <<pc, at, token, printed, sampling_thread>>
  BY DEF SamplerStep, SamplerBegin, OuterStop, OuterGo, Sample, SampleStop, SampleOutside,
         Bill, WalkNext, WalkHit, WalkEnd, Wake, Tick, SamplerAt, vars, sharedVars,
         callerVars
<1>2. At(c, "report") => lock' = lock
  <2>1. At(c, "report") => spc = "none"
    BY DEF PInv, IInv, EndInv, NoSampler
  <2> QED
    BY <2>1
    DEF SamplerStep, SamplerBegin, OuterStop, OuterGo, Sample, SampleStop, SampleOutside,
        Bill, WalkNext, WalkHit, WalkEnd, Wake, Tick, SamplerAt, vars
<1> QED BY <1>1, <1>2 DEF PInv, Progress, Refused, Running, Printed, At

LEMMA PStep == ~Overlap /\ PInv /\ [Next]_vars => PInv'
<1> SUFFICES ASSUME ~Overlap, PInv, [Next]_vars, NEW d \in Callers PROVE Progress(d)'
  BY StepKeeps DEF PInv
<1>1. ASSUME NEW c \in Callers, Start(c) PROVE Progress(d)'
  <2>1. CASE d = c
    BY <1>1, <2>1, StartProgress
  <2>2. CASE d # c
    BY <1>1, <2>2 DEF Start, PInv, IInv, TypeOK, Progress, At, Goto, Starting, JIT
  <2> QED BY <2>1, <2>2
<1>2. ASSUME NEW c \in Callers,
             StartStep(c) \/ IncrActive(c) \/ SetCurrentFunc(c) \/ Finish(c) \/ EndStep(c)
      PROVE  Progress(d)'
  <2>1. ~At(c, "idle")
    BY <1>2
    DEF StartStep, FindNext, FindHit, Allocate, AllocateFails, Fill, FillFails, ReserveIds,
        Publish, StartLocked, IncrActive, SetCurrentFunc, Finish, DecrActive, ErrorExit,
        EndStep, End, Check, Stop, Join, Joined, ReportNext, ReportEnd, ResetNext, ResetEnd,
        Clear, Return, JitReport, JitReset, At
  <2> QED BY <1>2, <2>1, CallerProgress, OthersProgress
<1> QED BY <1>1, <1>2, SamplerProgress DEF Next

THEOREM ProgressInvariance == ASSUME ~Overlap PROVE Spec => []PInv
<1>1. PInv /\ [Next]_vars => PInv'
  BY PStep
<1> QED BY <1>1, PInit, PTL DEF Spec

-----------------------------------------------------------------------------
LEMMA RunInit == Init => Run!Init
BY DEF Init, Run!Init, runPhase, At

\* A step that leaves printed alone and keeps everybody's phase.
LEMMA RunStutter ==
    ASSUME UNCHANGED <<token, printed>>,
           \A c \in Callers : At(c, "idle")' <=> At(c, "idle")
    PROVE  UNCHANGED Run!vars
BY DEF Run!vars, runPhase

LEMMA PhaseChange ==
    ASSUME NEW c \in Callers, NEW ph, runPhase'[c] = ph,
           \A d \in Callers : d # c => runPhase'[d] = runPhase[d]
    PROVE  runPhase' = [runPhase EXCEPT ![c] = ph]
BY DEF runPhase

\* Start begins a run.
LEMMA BeginStep ==
    ASSUME ~Overlap, PInv, NEW c \in Callers, Start(c)
    PROVE  Run!Begin(c)
<1> USE DEF Start, PInv, IInv, TypeOK, At, Goto
<1>1. \A d \in Callers : runPhase[d] = "out"
  BY DEF runPhase
<1>2. runPhase' = [runPhase EXCEPT ![c] = "called"]
  <2>1. runPhase'[c] = "called"
    BY DEF runPhase
  <2>2. \A d \in Callers : d # c => runPhase'[d] = runPhase[d]
    BY DEF runPhase
  <2> QED BY <2>1, <2>2, PhaseChange
<1>3. printed' = [printed EXCEPT ![c] = 0]
  OBVIOUS
<1> QED BY <1>1, <1>2, <1>3 DEF Run!Begin, Run!Move

\* The locked part of pipeline_start accepts it.
LEMMA AcceptStep ==
    ASSUME PInv, NEW c \in Callers, StartLocked(c)
    PROVE  Run!Accept(c)
<1> USE DEF StartLocked, PInv, IInv, TypeOK, At, Goto
<1>1. runPhase[c] = "called"
  BY DEF runPhase, Progress, Refused, Starting
<1>2. token'[c] = 0 /\ printed'[c] = 0
  BY DEF StartInv, Only, Progress, Refused, Starting
<1>3. runPhase' = [runPhase EXCEPT ![c] = "running"]
  <2>1. runPhase'[c] = "running"
    BY <1>2 DEF runPhase
  <2>2. \A d \in Callers : d # c => runPhase'[d] = runPhase[d]
    BY DEF runPhase
  <2> QED BY <2>1, <2>2, PhaseChange
<1> QED BY <1>1, <1>3 DEF Run!Accept, Run!Move

\* Leaving the only block in the unlocked report prints it.
LEMMA PrintStep ==
    ASSUME PInv, NEW c \in Callers, ReportNext(c)
    PROVE  Run!PrintLine(c)
<1> USE DEF ReportNext, PInv, IInv, TypeOK, At
<1>1. lock # c /\ node[at[c]].runs = 1
  BY NullAssumption, ThreadAssumption DEF EndInv, Listed, Only, Empty
<1>2. token[c] >= 0 /\ printed[c] = 0
  BY <1>1 DEF Progress, Running
<1>3. printed' = [printed EXCEPT ![c] = 1]
  BY <1>1, <1>2
<1>4. UNCHANGED <<pc, token>> /\ pc[c] = "report"
  BY DEF callerVars
<1>5. runPhase[c] = "running" /\ runPhase' = [runPhase EXCEPT ![c] = "printed"]
  <2>1. runPhase[c] = "running" /\ runPhase'[c] = "printed"
    BY <1>2, <1>3, <1>4 DEF runPhase
  <2>2. \A d \in Callers : d # c => runPhase'[d] = runPhase[d]
    BY <1>3, <1>4 DEF runPhase
  <2> QED BY <2>1, <2>2, PhaseChange
<1> QED BY <1>3, <1>5 DEF Run!PrintLine, Run!Move

\* Control returns to the program.
LEMMA ReturnStep ==
    ASSUME PInv, NEW c \in Callers, ResetEnd(c) \/ Return(c), pc'[c] = "idle"
    PROVE  Run!Return(c)
<1> USE DEF ResetEnd, Return, PInv, IInv, TypeOK, At, Goto
<1>1. pc[c] # "idle" /\ UNCHANGED <<token, printed>> /\ pc' = [pc EXCEPT ![c] = "idle"]
  OBVIOUS
<1>2. Printed(c) \/ Refused(c)
  BY DEF Progress, JIT
<1>3. runPhase[c] \in {"printed", "called"}
  BY <1>1, <1>2 DEF runPhase, Printed, Refused
<1>4. runPhase' = [runPhase EXCEPT ![c] = "out"]
  BY <1>1 DEF runPhase
<1> QED BY <1>1, <1>3, <1>4 DEF Run!Return, Run!Move

LEMMA OtherSteps ==
    ASSUME PInv, NEW c \in Callers,
           \/ StartStep(c) /\ ~StartLocked(c)
           \/ IncrActive(c) \/ SetCurrentFunc(c) \/ Finish(c)
           \/ EndStep(c) /\ ~ReportNext(c) /\ pc'[c] # "idle"
    PROVE  UNCHANGED Run!vars
<1>1. UNCHANGED <<token, printed>>
  BY DEF StartStep, FindNext, FindHit, Allocate, AllocateFails, Fill, FillFails, ReserveIds,
         Publish, IncrActive, SetCurrentFunc, Finish, DecrActive, ErrorExit, EndStep, End,
         Check, Stop, Join, Joined, ReportEnd, ResetNext, ResetEnd, Clear, Return,
         JitReport, JitReset, callerVars
<1>2. pc[c] # "idle"
  BY DEF StartStep, FindNext, FindHit, Allocate, AllocateFails, Fill, FillFails, ReserveIds,
         Publish, IncrActive, SetCurrentFunc, Finish, DecrActive, ErrorExit, EndStep, End,
         Check, Stop, Join, Joined, ReportEnd, ResetNext, ResetEnd, Clear, Return,
         JitReport, JitReset, At
<1>3. pc'[c] # "idle" /\ \A d \in Callers : d # c => pc'[d] = pc[d]
  BY <1>2
  DEF PInv, IInv, TypeOK, StartStep, FindNext, FindHit, Allocate, AllocateFails, Fill,
      FillFails, ReserveIds, Publish, IncrActive, SetCurrentFunc, Finish, DecrActive,
      ErrorExit, EndStep, End, Check, Stop, Join, Joined, ReportEnd, ResetNext, ResetEnd,
      Clear, Return, JitReport, JitReset, callerVars, Goto
<1> QED BY <1>1, <1>2, <1>3, RunStutter DEF At

LEMMA RunStep == ~Overlap /\ PInv /\ [Next]_vars => [Run!Next]_Run!vars
<1> SUFFICES ASSUME ~Overlap, PInv, [Next]_vars PROVE [Run!Next]_Run!vars
  OBVIOUS
<1>1. ASSUME NEW c \in Callers, Start(c) \/ StartStep(c) PROVE [Run!Next]_Run!vars
  BY <1>1, BeginStep, AcceptStep, OtherSteps DEF Run!Next
<1>2. ASSUME NEW c \in Callers, IncrActive(c) \/ SetCurrentFunc(c) \/ Finish(c)
      PROVE  [Run!Next]_Run!vars
  BY <1>2, OtherSteps
<1>3. ASSUME NEW c \in Callers, EndStep(c) PROVE [Run!Next]_Run!vars
  <2>1. pc'[c] = "idle" => ResetEnd(c) \/ Return(c)
    BY <1>3
    DEF PInv, IInv, TypeOK, EndStep, End, Check, Stop, Join, Joined, ReportNext, ReportEnd,
        ResetNext, Clear, JitReport, JitReset, callerVars, At, Goto
  <2> QED BY <1>3, <2>1, PrintStep, ReturnStep, OtherSteps DEF Run!Next
<1>4. CASE SamplerStep \/ Tick \/ UNCHANGED vars
  <2>1. UNCHANGED <<pc, token, printed>>
    BY <1>4
    DEF SamplerStep, SamplerBegin, OuterStop, OuterGo, Sample, SampleStop, SampleOutside,
        Bill, WalkNext, WalkHit, WalkEnd, Wake, Tick, SamplerAt, vars, callerVars
  <2> QED BY <2>1, RunStutter DEF At
<1> QED BY <1>1, <1>2, <1>3, <1>4 DEF Next

\* A run that pipeline_start accepts prints one pipeline, once, before control
\* returns, although shutdown and a JIT realize() both report; a refused run
\* prints nothing.
THEOREM ImplementsProfiledRunThm ==
    ASSUME ~Overlap PROVE Spec => ImplementsProfiledRun
<1>1. PInv /\ [Next]_vars => [Run!Next]_Run!vars
  BY RunStep
<1> QED
  BY <1>1, RunInit, ProgressInvariance, PTL DEF Spec, ImplementsProfiledRun, Run!Spec
=============================================================================
