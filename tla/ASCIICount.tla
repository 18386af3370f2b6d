------------------------------ MODULE ASCIICount ------------------------------
(* Operating System/Assignment3/ASCIICount.c: every child thread counts the    *)
(* characters of its section in counters of its own; main adds them up.        *)
EXTENDS CountingThreads

VARIABLES
    count,      \* section[t].count: the counters of each child thread
    summation   \* main's totals

vars == <<countingVars, count, summation>>

(* The counters are on main's stack: they have any value until a thread clears *)
(* them (99-100).                                                              *)
CONSTANT Garbage

Init ==
    /\ CountingInit
    /\ count = [t \in Threads |-> [c \in Chars |-> Garbage]]
    /\ summation = [c \in Chars |-> 0]

\* Mutant of RunnerStart: the counters are not cleared.
RunnerStart_NotCleared(t) ==
    /\ pc[t] = "start"
    /\ LoopFrom(t, start(t), "count")
    /\ UNCHANGED <<count, summation>>

RunnerStart(t) ==
    /\ pc[t] = "start"
    /\ count' = [count EXCEPT ![t] = [c \in Chars |-> 0]]
    /\ LoopFrom(t, start(t), "count")
    /\ UNCHANGED summation

CountChar(t) ==
    /\ pc[t] = "count"
    /\ count' = [count EXCEPT ![t][buffer[index[t]]] = @ + 1]
    /\ LoopFrom(t, index[t] + 1, "count")
    /\ UNCHANGED summation

JoinAndAdd(t) ==
    /\ Join(t)
    /\ summation' = [c \in Chars |-> summation[c] + count[t][c]]
    /\ UNCHANGED count

Prepare ==
    /\ UsageError \/ RefuseFile \/ ReadFile \/ CreateThread
    /\ UNCHANGED <<count, summation>>

Main == Prepare \/ \E t \in Threads : JoinAndAdd(t)

runner(t) == RunnerStart(t) \/ CountChar(t)

Next ==
    \/ Main
    \/ \E t \in Threads : runner(t)
    \/ Exited /\ UNCHANGED <<count, summation>>

Spec == Init /\ [][Next]_vars

-------------------------------------------------------------------------------
(* Properties *)

Joined(t) == mainPc = "printed" \/ (mainPc = "join" /\ t < mainThread)

(* The totals are at every moment exact for the sections that main has joined, *)
(* so main reads no counter before its thread has finished with it (line 72),  *)
(* never adds the garbage of a counter that is not cleared, and what it prints *)
(* in the end (75-80) is the census of the whole file.                         *)
SummationExact ==
    \A c \in Chars :
        summation[c] = Occurrences(c, UNION {start(t) .. end(t) : t \in {u \in Threads : Joined(u)}})

(* The census of the private counters: no byte is in two sections or in none,  *)
(* and the totals are exact.                                                   *)
CensusSound == SummationExact /\ SectionsPartitionFile

===============================================================================
