---------------------------- MODULE TimerBackend ----------------------------
(***************************************************************************)
(* The timer backend, time_api.c: initialize, marker_start, marker_stop    *)
(* and shutdown, called by any number of threads.                          *)
(*                                                                         *)
(* The slot of a thread comes from find_or_insert_thread(), taken here as  *)
(* the atomic registry that ThreadSlots implements.  clock() is the CPU    *)
(* time of the whole process; one tick is one unit of it, and a marker     *)
(* call may be anywhere when it passes.  A program starts and stops the    *)
(* markers of a thread last-in first-out, only Nesters more than one at a  *)
(* time, and shuts the library down when all are stopped.  Locals of a     *)
(* call that is over get their initial value back.                         *)
(***************************************************************************)
EXTENDS Integers, Sequences, FiniteSetsExt

CONSTANTS Threads,      \* threads that use markers
          MaxThreads,   \* MAX_THREADS
          Markers,      \* the pairs (type, id), within the table's bounds
          NoMarker,     \* what marker holds outside a call
          Nesters,      \* threads that may start a marker inside another
          MaxClock      \* bound: ticks per behaviour

ASSUME RoomAssumption == /\ MaxThreads \in Nat \ {0}
                         /\ IsFiniteSet(Threads) /\ Cardinality(Threads) <= MaxThreads

ASSUME ClockAssumption == /\ Nesters \subseteq Threads /\ MaxClock \in Nat
                          /\ IsFiniteSet(Markers) /\ NoMarker \notin Markers

VARIABLES
    table, pending, answer,         \* find_or_insert_thread()
    clock,
    start_times, timers_accum, timers_accum_flag,
    up,         \* between initialize and shutdown
    total,      \* what the last shutdown printed as the total
    pc, marker, now,    \* each thread: its call, the argument, the local t
    open,       \* the markers a thread has started, the last one last
    inside      \* the ticks that passed while a thread was in a marker

slotVars == <<table, pending, answer>>
timerVars == <<start_times, timers_accum, timers_accum_flag>>
vars == <<slotVars, timerVars, clock, up, total, pc, marker, now, open, inside>>

Slots == 0 .. MaxThreads - 1

\* A thread stands for its id: no two share one here.
Registry == INSTANCE SlotRegistry WITH Tid <- [t \in Threads |-> t]

ToSetOf(s) == {s[i] : i \in DOMAIN s}

TypeOK ==
    /\ table \subseteq Slots \X Threads
    /\ pending \subseteq Threads
    /\ answer \in [Threads -> Slots \cup {-2}]
    /\ clock \in 0 .. MaxClock
    /\ start_times \in [Slots -> Nat]
    /\ timers_accum \in [Markers -> [Slots -> Nat]]
    /\ timers_accum_flag \in [Markers -> [Slots -> BOOLEAN]]
    /\ up \in BOOLEAN
    /\ pc \in [Threads -> {"out", "start", "stop"}]
    /\ marker \in [Threads -> Markers \cup {NoMarker}]
    /\ now \in [Threads -> Nat]
    /\ open \in [Threads -> Seq(Markers)]
    /\ inside \in [Threads -> [Markers -> Nat]]

Zero == [m \in Markers |-> [i \in Slots |-> 0]]
Unset == [m \in Markers |-> [i \in Slots |-> FALSE]]

Init ==
    /\ Registry!Init
    /\ clock = 0
    /\ start_times = [i \in Slots |-> 0]
    /\ timers_accum = Zero /\ timers_accum_flag = Unset
    /\ up = FALSE /\ total = 0
    /\ pc = [t \in Threads |-> "out"]
    /\ marker = [t \in Threads |-> NoMarker]
    /\ now = [t \in Threads |-> 0]
    /\ open = [t \in Threads |-> <<>>]
    /\ inside = [t \in Threads |-> [m \in Markers |-> 0]]

-----------------------------------------------------------------------------
\* Neither the slots nor start_times are cleared.
Initialize ==
    /\ ~up /\ up' = TRUE
    /\ timers_accum' = Zero /\ timers_accum_flag' = Unset
    /\ inside' = [t \in Threads |-> [m \in Markers |-> 0]]
    /\ UNCHANGED <<slotVars, start_times, clock, total, pc, marker, now, open>>

MarkerStart(t) ==
    /\ up /\ pc[t] = "out"
    /\ t \in Nesters \/ open[t] = <<>>
    /\ \E m \in Markers \ ToSetOf(open[t]) : marker' = [marker EXCEPT ![t] = m]
    /\ Registry!Begin(t)
    /\ pc' = [pc EXCEPT ![t] = "start"]
    /\ UNCHANGED <<timerVars, clock, up, total, now, open, inside>>

\* find_or_insert_thread() returns.
FindOrInsert(t) ==
    /\ Registry!Known(t) \/ Registry!Grant(t)
    /\ UNCHANGED <<timerVars, clock, up, total, pc, marker, now, open, inside>>

Leave(t) ==
    /\ pc' = [pc EXCEPT ![t] = "out"]
    /\ marker' = [marker EXCEPT ![t] = NoMarker]

\* The clock is read after the lookup.
StoreStart(t) ==
    /\ pc[t] = "start" /\ t \notin pending
    /\ start_times' = [start_times EXCEPT ![answer[t]] = clock]
    /\ open' = [open EXCEPT ![t] = Append(@, marker[t])]
    /\ Leave(t)
    /\ UNCHANGED <<slotVars, timers_accum, timers_accum_flag, clock, up, total,
                   now, inside>>

\* The clock is read before the lookup.
MarkerStop(t) ==
    /\ up /\ pc[t] = "out" /\ open[t] # <<>>
    /\ now' = [now EXCEPT ![t] = clock]
    /\ marker' = [marker EXCEPT ![t] = open[t][Len(open[t])]]
    /\ open' = [open EXCEPT ![t] = SubSeq(@, 1, Len(@) - 1)]
    /\ Registry!Begin(t)
    /\ pc' = [pc EXCEPT ![t] = "stop"]
    /\ UNCHANGED <<timerVars, clock, up, total, inside>>

\* Mutant: the clock is read when the lookup is over.
StoreStopLate(t) ==
    /\ pc[t] = "stop" /\ t \notin pending
    /\ timers_accum' = [timers_accum EXCEPT ![marker[t]][answer[t]] =
                            @ + (clock - start_times[answer[t]])]
    /\ timers_accum_flag' = [timers_accum_flag EXCEPT ![marker[t]][answer[t]] = TRUE]
    /\ Leave(t) /\ now' = [now EXCEPT ![t] = 0]
    /\ UNCHANGED <<slotVars, start_times, clock, up, total, open, inside>>

StoreStop(t) ==
    /\ pc[t] = "stop" /\ t \notin pending
    /\ timers_accum' = [timers_accum EXCEPT ![marker[t]][answer[t]] =
                            @ + (now[t] - start_times[answer[t]])]
    /\ timers_accum_flag' = [timers_accum_flag EXCEPT ![marker[t]][answer[t]] = TRUE]
    /\ Leave(t) /\ now' = [now EXCEPT ![t] = 0]
    /\ UNCHANGED <<slotVars, start_times, clock, up, total, open, inside>>

\* Mutant: the time of a marker is that of the thread which printed last.
LastTime(m) ==
    LET used == {i \in Slots : timers_accum_flag[m][i]}
    IN  IF used = {} THEN 0 ELSE timers_accum[m][Max(used)]

\* The slowest thread of a marker.
MaxTime(m) ==
    Max({0} \cup {timers_accum[m][i] : i \in {j \in Slots : timers_accum_flag[m][j]}})

Shutdown ==
    /\ up /\ up' = FALSE
    /\ \A t \in Threads : pc[t] = "out" /\ open[t] = <<>>
    /\ total' = SumFunctionOnSet([m \in Markers |-> MaxTime(m)], Markers)
    /\ UNCHANGED <<slotVars, timerVars, clock, pc, marker, now, open, inside>>

\* CPU time passes.
Tick ==
    /\ up /\ clock < MaxClock /\ clock' = clock + 1
    /\ inside' = [t \in Threads |-> [m \in Markers |->
                     inside[t][m] + IF m \in ToSetOf(open[t]) THEN 1 ELSE 0]]
    /\ UNCHANGED <<slotVars, timerVars, up, total, pc, marker, now, open>>

Next ==
    \/ Initialize \/ Shutdown \/ Tick
    \/ \E t \in Threads : \/ MarkerStart(t) \/ FindOrInsert(t) \/ StoreStart(t)
                          \/ MarkerStop(t) \/ StoreStop(t)

Spec == Init /\ [][Next]_vars

-----------------------------------------------------------------------------
\* What t has been charged for m; nothing before it has a slot.
Charged(t, m) == IF answer[t] \in Slots THEN timers_accum[m][answer[t]] ELSE 0

\* Between calls a thread that uses one marker at a time has been charged for
\* it exactly the time it spent in it, over all its starts, whatever the
\* other threads did to the tables meanwhile (time_api.c:83-94 does not lock).
ChargedExactly ==
    \A t \in Threads \ Nesters, m \in Markers : pc[t] # "stop" =>
        Charged(t, m) + (IF open[t] = <<m>> THEN clock - start_times[answer[t]] ELSE 0)
            = inside[t][m]

\* Nested markers share the one start time of the thread
\* (time_api.c:85): an outer marker may be charged too little, no marker is
\* ever charged for time the thread was not in it.
NeverOvercharged ==
    \A t \in Threads, m \in Markers : Charged(t, m) <= inside[t][m]

\* A marker is charged the time its thread spent in it, or less when markers
\* nest: lookups, the other threads and later initialisations add nothing
\* (time_api.c:60-95).
ChargedRight == ChargedExactly /\ NeverOvercharged

\* The printed total covers what every thread without nested markers spent in
\* its markers, and is no more than all threads together (time_api.c:97-125).
TotalCoversEveryThread ==
    ~up =>
        LET spent == [t \in Threads |-> SumFunctionOnSet(inside[t], Markers)]
        IN  /\ \A t \in Threads \ Nesters : spent[t] <= total
            /\ total <= SumFunctionOnSet(spent, Threads)
=============================================================================
