---------------------------- MODULE SlotRegistry ----------------------------
(***************************************************************************)
(* What find_or_insert_thread() promises its callers, when no two threads  *)
(* share an id: an atomic registry that hands every thread a slot of its   *)
(* own, once, and tells a thread -1 only when every slot belongs to        *)
(* somebody else.                                                          *)
(***************************************************************************)
EXTENDS Integers

CONSTANTS Threads, MaxThreads, Tid

VARIABLES
    table,      \* the pairs <<slot, id>> handed out
    pending,    \* the threads whose call has not been answered
    answer      \* the last answer each thread got

vars == <<table, pending, answer>>

Init ==
    /\ table = {}
    /\ pending = {}
    /\ answer = [t \in Threads |-> -2]

SlotsOf(t) == {p \in table : p[2] = Tid[t]}

Begin(t) ==
    /\ t \notin pending
    /\ pending' = pending \cup {t}
    /\ UNCHANGED <<table, answer>>

Reply(t, i) ==
    /\ t \in pending
    /\ pending' = pending \ {t}
    /\ answer' = [answer EXCEPT ![t] = i]

\* A thread the registry knows gets its slot again.
Known(t) ==
    /\ \E p \in SlotsOf(t) : Reply(t, p[1])
    /\ UNCHANGED table

\* A thread it does not know gets an unused slot.
Grant(t) ==
    /\ SlotsOf(t) = {}
    /\ \E i \in 0 .. MaxThreads - 1 :
          /\ \A p \in table : p[1] # i
          /\ table' = table \cup {<<i, Tid[t]>>}
          /\ Reply(t, i)

Refuse(t) ==
    /\ SlotsOf(t) = {}
    /\ \A i \in 0 .. MaxThreads - 1 : \E p \in table : p[1] = i
    /\ Reply(t, -1)
    /\ UNCHANGED table

Next == \E t \in Threads : Begin(t) \/ Known(t) \/ Grant(t) \/ Refuse(t)

Spec == Init /\ [][Next]_vars
=============================================================================
