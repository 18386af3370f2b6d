------------------------------ MODULE ASCIICount2 -----------------------------
(* Operating System/Assignment4/ASCIICount2.c: all child threads increment the *)
(* same counters and nothing protects the increment.  The increment of line 92 *)
(* is a data race; the build reads the counter, adds one and writes it back.   *)
EXTENDS CountingThreads

VARIABLES
    count,      \* the counters all threads share
    register    \* the value each thread is about to write back

vars == <<countingVars, count, register>>

Init ==
    /\ CountingInit
    /\ count = [c \in Chars |-> 0]
    /\ register = [t \in Threads |-> 0]

RunnerStart(t) ==
    /\ pc[t] = "start"
    /\ LoopFrom(t, start(t), "read")
    /\ UNCHANGED <<count, register>>

ReadCount(t) ==
    /\ pc[t] = "read"
    /\ register' = [register EXCEPT ![t] = count[buffer[index[t]]]]
    /\ GoTo(t, "write")
    /\ UNCHANGED count

WriteCount(t) ==
    /\ pc[t] = "write"
    /\ count' = [count EXCEPT ![buffer[index[t]]] = register[t] + 1]
    /\ LoopFrom(t, index[t] + 1, "read")
    /\ UNCHANGED register

Main ==
    /\ \/ UsageError \/ RefuseFile \/ ReadFile \/ CreateThread
       \/ \E t \in Threads : Join(t)
    /\ UNCHANGED <<count, register>>

runner(t) == RunnerStart(t) \/ ReadCount(t) \/ WriteCount(t)

Next ==
    \/ Main
    \/ \E t \in Threads : runner(t)
    \/ Exited /\ UNCHANGED <<count, register>>

Spec == Init /\ [][Next]_vars

-------------------------------------------------------------------------------
(* Properties *)

(* The race loses increments - two threads may read the same value - but   *)
(* the counters never exceed the occurrences of a character in the file    *)
(* (lines 90-95).                                                          *)
NeverOvercounts ==
    \A c \in Chars : count[c] <= Occurrences(c, 0 .. size)

===============================================================================
