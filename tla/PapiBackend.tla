----------------------------- MODULE PapiBackend -----------------------------
(***************************************************************************)
(* The PAPI backend, papi_api.c: initialize, marker_start, marker_stop and *)
(* shutdown, called by any number of threads, over a model of the PAPI     *)
(* library.                                                                *)
(*                                                                         *)
(* The slot of a thread comes from find_or_insert_thread(), taken here as  *)
(* the atomic registry that ThreadSlots implements; it is a step of its    *)
(* own.  The rest of a marker call works on the thread's own slot and on   *)
(* its own event set and is one step; PAPI calls of Failing threads may    *)
(* fail, and the code returns at the first that does.  Nobody looks at the *)
(* result.                                                                 *)
(*                                                                         *)
(* A program starts and stops the markers of a thread last-in first-out,   *)
(* only Nesters more than one at a time, shuts the library down when all   *)
(* are stopped, and initialises it again only if no call has failed.  An   *)
(* event counts units of work of the thread that started it; all events    *)
(* count the same, so one number stands for a row of counters.             *)
(* counters_set_flag is written and never read: it is left out, and with   *)
(* it the loop of initialize that clears it.                               *)
(***************************************************************************)
EXTENDS Integers, Sequences, FiniteSetsExt

CONSTANTS Threads, MaxThreads,
          Markers,      \* the pairs (id, type), within the table's bounds
          NoMarker,     \* what marker holds outside a call
          Sets,         \* PAPI event sets
          PAPI_NULL,    \* no event set
          NumEvents,    \* the events of the configuration file
          Nesters,      \* threads that may start a marker inside another
          Failing,      \* threads whose PAPI calls may fail
          MaxWork       \* bound: units of work each thread does

ASSUME RoomAssumption == /\ MaxThreads \in Nat \ {0}
                         /\ IsFiniteSet(Threads) /\ Cardinality(Threads) <= MaxThreads
                         /\ IsFiniteSet(Sets) /\ Cardinality(Threads) <= Cardinality(Sets)

ASSUME UsageAssumption == /\ Nesters \cup Failing \subseteq Threads
                          /\ IsFiniteSet(Markers)
                          /\ PAPI_NULL \notin Sets /\ NoMarker \notin Markers
                          /\ NumEvents \in Nat \ {0} /\ MaxWork \in [Threads -> Nat]

VARIABLES
    table, pending, answer,         \* find_or_insert_thread()
    event_set,                      \* of every slot of threadsInfo
    counters,
    phase,          \* new, up (initialised) or down (shut down)
    failed,         \* has a call ended early?
    (* the PAPI library: registered threads, and the live event sets: the    *)
    (* thread that made it, events added, is it running, its count           *)
    registered, live,
    (* each thread: its call, the argument, the markers it has started       *)
    pc, marker, open,
    (* the work a thread has done: all of it, and what was in each marker    *)
    work, inside

registryVars == <<table, pending, answer>>
papiVars == <<event_set, registered, live>>
workVars == <<work, inside>>
vars == <<registryVars, papiVars, counters, phase, failed, pc, marker, open, workVars>>

Slots == 0 .. MaxThreads - 1

\* A thread stands for its id: no two share one here.
Registry == INSTANCE SlotRegistry WITH Tid <- [t \in Threads |-> t]

ToSetOf(s) == {s[i] : i \in DOMAIN s}

LiveSet == [owner : Threads, added : 0 .. NumEvents, running : BOOLEAN, count : Nat]

TypeOK ==
    /\ table \subseteq Slots \X Threads
    /\ pending \subseteq Threads
    /\ answer \in [Threads -> Slots \cup {-2}]
    /\ event_set \in [Slots -> Sets \cup {PAPI_NULL}]
    /\ counters \in [Markers -> [Slots -> Nat]]
    /\ phase \in {"new", "up", "down"} /\ failed \in BOOLEAN
    /\ registered \subseteq Threads
    /\ DOMAIN live \subseteq Sets /\ \A s \in DOMAIN live : live[s] \in LiveSet
    /\ pc \in [Threads -> {"out", "start", "stop"}]
    /\ marker \in [Threads -> Markers \cup {NoMarker}]
    /\ open \in [Threads -> Seq(Markers)]
    /\ work \in [Threads -> Nat]
    /\ inside \in [Threads -> [Markers -> Nat]]

\* Slots start with event_set 0 in the code and get PAPI_NULL when they are
\* handed out (line 78), before anything reads it.
Init ==
    /\ Registry!Init
    /\ event_set = [i \in Slots |-> PAPI_NULL]
    /\ counters = [m \in Markers |-> [i \in Slots |-> 0]]
    /\ phase = "new" /\ failed = FALSE
    /\ registered = {} /\ live = << >>
    /\ pc = [t \in Threads |-> "out"]
    /\ marker = [t \in Threads |-> NoMarker]
    /\ open = [t \in Threads |-> <<>>]
    /\ work = [t \in Threads |-> 0]
    /\ inside = [t \in Threads |-> [m \in Markers |-> 0]]

-----------------------------------------------------------------------------
(* The PAPI library, as far as papi_api.c uses it.                          *)

With(s, rec) == live' = [x \in DOMAIN live \cup {s} |-> IF x = s THEN rec ELSE live[x]]

Without(s) == live' = [x \in DOMAIN live \ {s} |-> live[x]]

\* PAPI_reset of the set whose number stands where the code looks.
ResetAny ==
    \/ UNCHANGED live
    \/ \E s \in DOMAIN live : With(s, [live[s] EXCEPT !.count = 0])

-----------------------------------------------------------------------------
\* The config is read and its events are looked up; counters is not cleared.
Initialize ==
    /\ phase = "new" \/ (phase = "down" /\ ~failed)
    /\ phase' = "up"
    /\ UNCHANGED <<registryVars, papiVars, counters, failed, pc, marker, open, workVars>>

MarkerStart(t) ==
    /\ phase = "up" /\ pc[t] = "out"
    /\ t \in Nesters \/ open[t] = <<>>
    /\ \E m \in Markers \ ToSetOf(open[t]) : marker' = [marker EXCEPT ![t] = m]
    /\ Registry!Begin(t)
    /\ pc' = [pc EXCEPT ![t] = "start"]
    /\ UNCHANGED <<papiVars, counters, phase, failed, open, workVars>>

\* find_or_insert_thread() returns; a new slot gets PAPI_NULL.
FindOrInsert(t) ==
    /\ \/ Registry!Known(t) /\ UNCHANGED event_set
       \/ Registry!Grant(t) /\ event_set' = [event_set EXCEPT ![answer'[t]] = PAPI_NULL]
    /\ UNCHANGED <<registered, live, counters, phase, failed, pc, marker, open, workVars>>

Starting(t) == pc[t] = "start" /\ t \notin pending

Started(t) ==
    /\ open' = [open EXCEPT ![t] = Append(@, marker[t])]
    /\ pc' = [pc EXCEPT ![t] = "out"]
    /\ marker' = [marker EXCEPT ![t] = NoMarker]
    /\ UNCHANGED <<registryVars, counters, phase, workVars>>

\* PAPI_register_thread fails.  start_thread returns -1, and marker_start
\* resets the event set of threadsInfo[-1]: some set, or none.
RegisterFails(t) ==
    /\ failed' = TRUE
    /\ Starting(t) /\ t \in Failing
    /\ ResetAny
    /\ Started(t) /\ UNCHANGED <<event_set, registered>>

\* PAPI_create_eventset fails: always when the slot still has a set, which
\* is what a nested start meets.
CreateFails(t) ==
    /\ failed' = TRUE
    /\ Starting(t)
    /\ t \in Failing \/ event_set[answer[t]] # PAPI_NULL
    /\ registered' = registered \cup {t}
    /\ ResetAny
    /\ Started(t) /\ UNCHANGED event_set

\* Mutant: the set of a failed start is forgotten.
AddOrStartFailsForgetting(t) ==
    /\ failed' = TRUE
    /\ Starting(t) /\ t \in Failing /\ event_set[answer[t]] = PAPI_NULL
    /\ registered' = registered \cup {t}
    /\ \E s \in Sets \ DOMAIN live, k \in 0 .. NumEvents :
          With(s, [owner |-> t, added |-> k, running |-> FALSE, count |-> 0])
    /\ Started(t) /\ UNCHANGED event_set

\* Mutant: an event that cannot be added does not end the start.
AddFailsGoesOn(t) ==
    /\ UNCHANGED failed
    /\ Starting(t) /\ t \in Failing /\ event_set[answer[t]] = PAPI_NULL
    /\ registered' = registered \cup {t}
    /\ \E s \in Sets \ DOMAIN live, k \in 0 .. NumEvents :
          /\ event_set' = [event_set EXCEPT ![answer[t]] = s]
          /\ With(s, [owner |-> t, added |-> k, running |-> TRUE, count |-> 0])
    /\ Started(t)

\* An event cannot be added, or with all of them added PAPI_start fails: the
\* set stays in the slot, stopped.
AddOrStartFails(t) ==
    /\ failed' = TRUE
    /\ Starting(t) /\ t \in Failing /\ event_set[answer[t]] = PAPI_NULL
    /\ registered' = registered \cup {t}
    /\ \E s \in Sets \ DOMAIN live, k \in 0 .. NumEvents :
          /\ event_set' = [event_set EXCEPT ![answer[t]] = s]
          /\ With(s, [owner |-> t, added |-> k, running |-> FALSE, count |-> 0])
    /\ Started(t)

\* Counting begins, from zero.
StartSucceeds(t) ==
    /\ UNCHANGED failed
    /\ Starting(t) /\ event_set[answer[t]] = PAPI_NULL
    /\ registered' = registered \cup {t}
    /\ \E s \in Sets \ DOMAIN live :
          /\ event_set' = [event_set EXCEPT ![answer[t]] = s]
          /\ With(s, [owner |-> t, added |-> NumEvents, running |-> TRUE, count |-> 0])
    /\ Started(t)

MarkerStop(t) ==
    /\ phase = "up" /\ pc[t] = "out" /\ open[t] # <<>>
    /\ marker' = [marker EXCEPT ![t] = open[t][Len(open[t])]]
    /\ open' = [open EXCEPT ![t] = SubSeq(@, 1, Len(@) - 1)]
    /\ Registry!Begin(t)
    /\ pc' = [pc EXCEPT ![t] = "stop"]
    /\ UNCHANGED <<papiVars, counters, phase, failed, workVars>>

Stopping(t) == pc[t] = "stop" /\ t \notin pending

Accumulate(t, n) ==
    counters' = [counters EXCEPT ![marker[t]][answer[t]] = @ + n]

Stopped(t) ==
    /\ pc' = [pc EXCEPT ![t] = "out"]
    /\ marker' = [marker EXCEPT ![t] = NoMarker]
    /\ UNCHANGED <<registryVars, phase, open, workVars>>

\* What PAPI_accum moves to counters: the count, or nothing when it fails.
Moved(t, n) == {n} \cup (IF t \in Failing THEN {0} ELSE {})

\* The slot has no set: PAPI_accum and PAPI_stop fail, and the call is over.
NothingToStop(t) ==
    /\ failed' = TRUE
    /\ Stopping(t) /\ event_set[answer[t]] \notin DOMAIN live
    /\ Stopped(t)
    /\ UNCHANGED <<papiVars, counters>>

\* PAPI_stop fails, always when the set does not run: the set stays as it is.
StopFails(t) ==
    /\ failed' = TRUE
    /\ Stopping(t) /\ event_set[answer[t]] \in DOMAIN live
    /\ LET s == event_set[answer[t]]
       IN  /\ t \in Failing \/ ~live[s].running
           /\ \E n \in Moved(t, live[s].count) :
                 /\ Accumulate(t, n)
                 /\ With(s, [live[s] EXCEPT !.count = @ - n])
    /\ Stopped(t) /\ UNCHANGED <<event_set, registered>>

\* An event cannot be removed, or the empty set not destroyed: the set stays
\* in the slot, stopped.
ReleaseFails(t) ==
    /\ failed' = TRUE
    /\ Stopping(t) /\ t \in Failing /\ event_set[answer[t]] \in DOMAIN live
    /\ LET s == event_set[answer[t]]
       IN  /\ live[s].running
           /\ \E n \in Moved(t, live[s].count), k \in 0 .. NumEvents :
                 /\ Accumulate(t, n)
                 /\ With(s, [live[s] EXCEPT !.count = @ - n, !.running = FALSE,
                                            !.added = @ - k])
    /\ Stopped(t) /\ UNCHANGED <<event_set, registered>>

\* Mutant: the count is read after the set was stopped and read once more.
StopSucceedsTwice(t) ==
    /\ UNCHANGED failed
    /\ Stopping(t) /\ event_set[answer[t]] \in DOMAIN live
    /\ LET s == event_set[answer[t]]
       IN  /\ live[s].running
           /\ Accumulate(t, 2 * live[s].count)
           /\ Without(s)
    /\ event_set' = [event_set EXCEPT ![answer[t]] = PAPI_NULL]
    /\ registered' = registered \ {t}
    /\ Stopped(t)

\* The set is stopped, emptied and destroyed, and the thread unregistered.
StopSucceeds(t) ==
    /\ Stopping(t) /\ event_set[answer[t]] \in DOMAIN live
    /\ LET s == event_set[answer[t]]
       IN  /\ live[s].running
           /\ \/ /\ Accumulate(t, live[s].count)
                 /\ registered' = registered \ {t} /\ UNCHANGED failed
              \/ /\ t \in Failing /\ failed' = TRUE     \* but the first or last call
                 /\ \E n \in Moved(t, live[s].count) : Accumulate(t, n)
                 /\ registered' \in {registered, registered \ {t}}
           /\ Without(s)
    /\ event_set' = [event_set EXCEPT ![answer[t]] = PAPI_NULL]
    /\ Stopped(t)

\* PAPI_shutdown destroys every set; threadsInfo is left as it is.
Shutdown ==
    /\ phase = "up" /\ phase' = "down"
    /\ \A t \in Threads : pc[t] = "out" /\ open[t] = <<>>
    /\ live' = << >> /\ registered' = {}
    /\ UNCHANGED <<registryVars, event_set, counters, failed, pc, marker, open, workVars>>

\* A thread works.
Work(t) ==
    /\ phase = "up" /\ pc[t] = "out" /\ work[t] < MaxWork[t]
    /\ work' = [work EXCEPT ![t] = @ + 1]
    /\ inside' = [inside EXCEPT ![t] = [m \in Markers |->
                     @[m] + IF m \in ToSetOf(open[t]) THEN 1 ELSE 0]]
    /\ live' = [s \in DOMAIN live |->
                   IF live[s].owner = t /\ live[s].running
                   THEN [live[s] EXCEPT !.count = @ + 1] ELSE live[s]]
    /\ UNCHANGED <<registryVars, event_set, registered, counters, phase, failed, pc, marker, open>>

Next ==
    \/ Initialize \/ Shutdown
    \/ \E t \in Threads :
          \/ MarkerStart(t) \/ FindOrInsert(t)
          \/ RegisterFails(t) \/ CreateFails(t) \/ AddOrStartFails(t) \/ StartSucceeds(t)
          \/ MarkerStop(t) \/ NothingToStop(t)
          \/ StopFails(t) \/ ReleaseFails(t) \/ StopSucceeds(t)
          \/ Work(t)

Spec == Init /\ [][Next]_vars

-----------------------------------------------------------------------------
Counted(t, m) == IF answer[t] \in Slots THEN counters[m][answer[t]] ELSE 0

\* What the sets of t hold and counters has not got yet.
Uncollected(t) ==
    SumFunctionOnSet([s \in DOMAIN live |-> live[s].count],
                     {s \in DOMAIN live : live[s].owner = t})

\* While no call has failed, which a nested start does, a thread's counter of
\* a marker holds the work of all its intervals, over several initialisations
\* too, and none of another thread or marker.
CountedExactly ==
    ~failed =>
        \A t \in Threads, m \in Markers : pc[t] # "stop" =>
            Counted(t, m) + (IF m \in ToSetOf(open[t]) THEN Uncollected(t) ELSE 0)
                = inside[t][m]

\* Whatever fails and however markers nest, no unit of work is counted for
\* two markers or twice for one.
CountedOnce ==
    \A t \in Threads :
        SumFunctionOnSet([m \in Markers |-> Counted(t, m)], Markers) + Uncollected(t) <= work[t]

\* Work is counted exactly until a call fails, and never twice afterwards.
CountedRight == CountedExactly /\ CountedOnce

\* While no call has failed a thread leaves nothing in PAPI between markers.
NothingLeft ==
    ~failed => \A t \in Threads : pc[t] = "out" /\ open[t] = <<>> =>
        t \notin registered /\ \A s \in DOMAIN live : live[s].owner # t

\* Until the library is shut down, whatever fails: no event set is lost, and
\* none is in the slot of another thread, where it would be stopped, emptied
\* and destroyed under its owner (papi_api.c:248-275); while nothing fails,
\* none is left between markers.
SetsOwned ==
    phase # "down" =>
        /\ \A s \in DOMAIN live : answer[live[s].owner] \in Slots
                                  /\ event_set[answer[live[s].owner]] = s
        /\ \A i \in Slots : event_set[i] \in DOMAIN live \cup {PAPI_NULL}
        /\ NothingLeft

\* A thread is counted by one running set, which is complete, and PAPI knows
\* the thread.
RunsComplete ==
    \A s \in DOMAIN live : live[s].running =>
        live[s].added = NumEvents /\ live[s].owner \in registered
=============================================================================
