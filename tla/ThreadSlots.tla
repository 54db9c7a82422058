---------------------------- MODULE ThreadSlots ----------------------------
(***************************************************************************)
(* find_or_insert_thread(), the function with which both the PAPI backend  *)
(* (papi_api.c) and the timer backend (time_api.c) turn the calling thread *)
(* into an index of their per-thread arrays.                               *)
(*                                                                         *)
(* A call first scans threadsInfo WITHOUT the mutex for a used slot that   *)
(* carries its own id; only when it finds none does it take the mutex,     *)
(* look for the first unused slot, fill it in and release the mutex.  A    *)
(* slot is never given back.  When no slot is left the function returns -1 *)
(* on a path that does not unlock.                                         *)
(*                                                                         *)
(* The shared library is compiled without optimisation (Makefile:11), so   *)
(* the stores of lines 79 and 80 reach memory in program order: a reader   *)
(* that sees `set` also sees the thread_id stored before it.  That is why  *)
(* one step of the unlocked scan may read both fields of a slot.           *)
(***************************************************************************)
EXTENDS Integers

CONSTANTS Threads,      \* the threads that call into the library
          MaxThreads,   \* MAX_THREADS, the number of slots
          Tid,          \* Tid[t]: pthread_self() of t, truncated to an int
          NoOwner      \* the owner of a mutex nobody holds

ASSUME MaxThreadsAssumption == MaxThreads \in Nat \ {0}

ASSUME TidAssumption == Tid \in [Threads -> Int]

ASSUME NoOwnerAssumption == NoOwner \notin Threads

Slots == 0 .. MaxThreads - 1

\* What a call returned last: nothing yet, the overflow value, or an index.
NotCalled == -2
NoSlot == -1

VARIABLES
    threadsInfo,    \* the slot table: [set, thread_id] of every slot
    slotLock,           \* who holds the mutex
    step,             \* where in the function each thread is
    idx,            \* the loop variable of the scan, then first_available_idx
    ret             \* the value the thread's last call returned

slotVars == <<threadsInfo, slotLock, step, idx, ret>>

Critical == {"search", "store_id", "store_set", "unlock"}

PCs == {"idle", "scan", "lock"} \cup Critical

SlotTypeOK ==
    /\ threadsInfo \in [Slots -> [set : BOOLEAN, thread_id : Int]]
    /\ slotLock \in Threads \cup {NoOwner}
    /\ step \in [Threads -> PCs]
    /\ idx \in [Threads -> 0 .. MaxThreads]
    /\ ret \in [Threads -> Slots \cup {NotCalled, NoSlot}]

SlotInit ==
    /\ threadsInfo = [i \in Slots |-> [set |-> FALSE, thread_id |-> 0]]
    /\ slotLock = NoOwner
    /\ step = [t \in Threads |-> "idle"]
    /\ idx = [t \in Threads |-> 0]
    /\ ret = [t \in Threads |-> NotCalled]

-----------------------------------------------------------------------------
Holds(i, t) == threadsInfo[i].set /\ threadsInfo[i].thread_id = Tid[t]

\* Mutant: the scan starts at slot 1.
CallFromOne(t) ==
    /\ step[t] = "idle"
    /\ step' = [step EXCEPT ![t] = "scan"]
    /\ idx' = [idx EXCEPT ![t] = 1]
    /\ UNCHANGED <<threadsInfo, slotLock, ret>>

\* A marker call enters the function.
Call(t) ==
    /\ step[t] = "idle"
    /\ step' = [step EXCEPT ![t] = "scan"]
    /\ idx' = [idx EXCEPT ![t] = 0]
    /\ UNCHANGED <<threadsInfo, slotLock, ret>>

\* One iteration of the unlocked loop: return at the first slot of our own.
ScanHit(t) ==
    /\ step[t] = "scan" /\ idx[t] < MaxThreads
    /\ Holds(idx[t], t)
    /\ ret' = [ret EXCEPT ![t] = idx[t]]
    /\ step' = [step EXCEPT ![t] = "idle"]
    /\ UNCHANGED <<threadsInfo, slotLock, idx>>

ScanMiss(t) ==
    /\ step[t] = "scan" /\ idx[t] < MaxThreads
    /\ ~Holds(idx[t], t)
    /\ idx' = [idx EXCEPT ![t] = @ + 1]
    /\ UNCHANGED <<threadsInfo, slotLock, step, ret>>

ScanEnd(t) ==
    /\ step[t] = "scan" /\ idx[t] = MaxThreads
    /\ step' = [step EXCEPT ![t] = "lock"]
    /\ UNCHANGED <<threadsInfo, slotLock, idx, ret>>

\* Mutant: the search is not protected by the mutex.
AcquireUnlocked(t) ==
    /\ step[t] = "lock"
    /\ slotLock' = t
    /\ step' = [step EXCEPT ![t] = "search"]
    /\ UNCHANGED <<threadsInfo, idx, ret>>

\* pthread_mutex_lock: a default mutex, which its owner cannot take again.
Acquire(t) ==
    /\ step[t] = "lock" /\ slotLock = NoOwner
    /\ slotLock' = t
    /\ step' = [step EXCEPT ![t] = "search"]
    /\ UNCHANGED <<threadsInfo, idx, ret>>

\* Mutant: a used slot may be handed out again.
FirstAvailableUsed(i) == \A j \in 0 .. i - 1 : threadsInfo[j].set

\* The locked loop picks the first unused slot.  Every writer of `set` holds
\* the mutex, so the loop sees one state of the table.
FirstAvailable(i) ==
    /\ ~threadsInfo[i].set
    /\ \A j \in 0 .. i - 1 : threadsInfo[j].set

Search(t) ==
    /\ step[t] = "search"
    /\ \E i \in Slots :
          /\ FirstAvailable(i)
          /\ idx' = [idx EXCEPT ![t] = i]
    /\ step' = [step EXCEPT ![t] = "store_id"]
    /\ UNCHANGED <<threadsInfo, slotLock, ret>>

\* No slot left: return -1 at once, still holding the mutex.
Overflow(t) ==
    /\ step[t] = "search"
    /\ \A i \in Slots : threadsInfo[i].set
    /\ ret' = [ret EXCEPT ![t] = NoSlot]
    /\ step' = [step EXCEPT ![t] = "idle"]
    /\ UNCHANGED <<threadsInfo, slotLock, idx>>

\* Mutant: the slot becomes visible before it carries the thread's id.
StoreIdPublishing(t) ==
    /\ step[t] = "store_id"
    /\ threadsInfo' = [threadsInfo EXCEPT ![idx[t]].set = TRUE]
    /\ step' = [step EXCEPT ![t] = "store_set"]
    /\ UNCHANGED <<slotLock, idx, ret>>

StoreId(t) ==
    /\ step[t] = "store_id"
    /\ threadsInfo' = [threadsInfo EXCEPT ![idx[t]].thread_id = Tid[t]]
    /\ step' = [step EXCEPT ![t] = "store_set"]
    /\ UNCHANGED <<slotLock, idx, ret>>

StoreSet(t) ==
    /\ step[t] = "store_set"
    /\ threadsInfo' = [threadsInfo EXCEPT ![idx[t]].set = TRUE]
    /\ step' = [step EXCEPT ![t] = "unlock"]
    /\ UNCHANGED <<slotLock, idx, ret>>

Unlock(t) ==
    /\ step[t] = "unlock"
    /\ slotLock' = NoOwner
    /\ ret' = [ret EXCEPT ![t] = idx[t]]
    /\ step' = [step EXCEPT ![t] = "idle"]
    /\ UNCHANGED <<threadsInfo, idx>>

\* Everything a thread does inside the function.
SlotStep(t) ==
    \/ ScanHit(t) \/ ScanMiss(t) \/ ScanEnd(t)
    \/ Acquire(t) \/ Search(t) \/ Overflow(t)
    \/ StoreId(t) \/ StoreSet(t) \/ Unlock(t)

SlotNext == \E t \in Threads : Call(t) \/ SlotStep(t)

SlotSpec == SlotInit /\ [][SlotNext]_slotVars

\* A thread inside the function keeps running; nothing obliges it to call.
SlotFairness == \A t \in Threads : WF_slotVars(SlotStep(t))

SlotFairSpec == SlotSpec /\ SlotFairness

-----------------------------------------------------------------------------
(* What the backends, which index start_times[], counters[] and event_set  *)
(* with the result, rely on.                                               *)

Unaliased(t) == \A s \in Threads \ {t} : Tid[s] # Tid[t]

\* Two threads with different ids never write through the same slot: the
\* slots that their last calls returned differ (papi_api.c:281-292 and
\* time_api.c:83-94 use the slot with no further locking).
SlotExclusive ==
    \A s, t \in Threads :
        ret[s] \in Slots /\ ret[s] = ret[t] => Tid[s] = Tid[t]

\* A thread whose id nobody shares fills at most one slot, although the scan
\* that decides to insert runs without the mutex and is not repeated under it.
OneSlotPerThread ==
    \A t \in Threads : Unaliased(t) =>
        \A i, j \in Slots : Holds(i, t) /\ Holds(j, t) => i = j

\* The index a start call used is the one the matching stop call gets: no
\* step rewrites a used slot, and later calls of an unaliased thread return
\* what the first one did.
SlotPermanent ==
    [][/\ \A i \in Slots :
             threadsInfo[i].set => threadsInfo'[i] = threadsInfo[i]
       /\ \A t \in Threads :
             Unaliased(t) /\ ret[t] \in Slots => ret'[t] = ret[t]]_slotVars

\* A thread that owns a slot gets through the function, whoever holds the
\* mutex: also after an overflowing thread has returned with it.
RegisteredReturn ==
    \A t \in Threads :
        (ret[t] \in Slots /\ step[t] # "idle") ~> (step[t] = "idle")

\* While the table has room every call returns.
ReturnsWhileRoom ==
    \A t \in Threads :
        (step[t] # "idle") ~> (step[t] = "idle" \/ \A i \in Slots : threadsInfo[i].set)

\* Only a new thread that finds the table full can be kept waiting.
ReturnsUnlessFull == RegisteredReturn /\ ReturnsWhileRoom

\* Every call returns (the overflow path prints an error and returns -1,
\* papi_api.c:73-76).
CallsReturn == \A t \in Threads : (step[t] # "idle") ~> (step[t] = "idle")

-----------------------------------------------------------------------------
\* The function implements the atomic registry: a slot is granted at the
\* store of line 80, which other threads see before the call returns.
registryTable == {<<i, threadsInfo[i].thread_id>> : i \in {j \in Slots : threadsInfo[j].set}}

registryPending == {t \in Threads : step[t] \notin {"idle", "unlock"}}

registryAnswer == [t \in Threads |-> IF step[t] = "unlock" THEN idx[t] ELSE ret[t]]

Registry == INSTANCE SlotRegistry WITH
                table <- registryTable,
                pending <- registryPending,
                answer <- registryAnswer

ImplementsRegistry == Registry!Spec
=============================================================================
