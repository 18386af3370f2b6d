------------------------------ MODULE ASCIICountS -----------------------------
(* Operating System/Assignment4/ASCIICountS.c: all child threads increment the *)
(* same counters, each increment inside a mutex.                               *)
EXTENDS CountingThreads

VARIABLES
    count,      \* the counters all threads share
    register,   \* the value each thread is about to write back
    mutex       \* the thread that holds the mutex, or NoThread

vars == <<countingVars, count, register, mutex>>

NoThread == THREAD_NUM    \* no thread has this number

Init ==
    /\ CountingInit
    /\ count = [c \in Chars |-> 0]
    /\ register = [t \in Threads |-> 0]
    /\ mutex = NoThread

RunnerStart(t) ==
    /\ pc[t] = "start"
    /\ LoopFrom(t, start(t), "lock")
    /\ UNCHANGED <<count, register, mutex>>

\* Mutant of Lock: the mutex is taken without waiting for it.
Lock_NoWait(t) ==
    /\ pc[t] = "lock"
    /\ mutex' = t
    /\ GoTo(t, "read")
    /\ UNCHANGED <<count, register>>

Lock(t) ==
    /\ pc[t] = "lock"
    /\ mutex = NoThread
    /\ mutex' = t
    /\ GoTo(t, "read")
    /\ UNCHANGED <<count, register>>

ReadCount(t) ==
    /\ pc[t] = "read"
    /\ register' = [register EXCEPT ![t] = count[buffer[index[t]]]]
    /\ GoTo(t, "write")
    /\ UNCHANGED <<count, mutex>>

WriteCount(t) ==
    /\ pc[t] = "write"
    /\ count' = [count EXCEPT ![buffer[index[t]]] = register[t] + 1]
    /\ GoTo(t, "unlock")
    /\ UNCHANGED <<register, mutex>>

\* Mutant of Unlock: the loop ends with the mutex held.
Unlock_Forgotten(t) ==
    /\ pc[t] = "unlock"
    /\ LoopFrom(t, index[t] + 1, "lock")
    /\ UNCHANGED <<count, register, mutex>>

Unlock(t) ==
    /\ pc[t] = "unlock"
    /\ mutex' = NoThread
    /\ LoopFrom(t, index[t] + 1, "lock")
    /\ UNCHANGED <<count, register>>

Main ==
    /\ \/ UsageError \/ RefuseFile \/ ReadFile \/ CreateThread
       \/ \E t \in Threads : Join(t)
    /\ UNCHANGED <<count, register, mutex>>

runner(t) ==
    RunnerStart(t) \/ Lock(t) \/ ReadCount(t) \/ WriteCount(t) \/ Unlock(t)

Next ==
    \/ Main
    \/ \E t \in Threads : runner(t)
    \/ Exited /\ UNCHANGED <<count, register, mutex>>

Fairness == WF_vars(Main) /\ \A t \in Threads : WF_vars(runner(t))

Spec == Init /\ [][Next]_vars

FairSpec == Spec /\ Fairness

-------------------------------------------------------------------------------
(* Properties *)

(* Every variable has its type.                                                *)
TypeOK ==
    /\ CountingTypeOK({"lock", "read", "write", "unlock"})
    /\ count \in [Chars -> Nat]
    /\ register \in [Threads -> Nat]
    /\ mutex \in Threads \cup {NoThread}

(* A thread is inside the section of lines 94-96 only while it holds the       *)
(* mutex, so no increment is interrupted by another.                           *)
MutualExclusion ==
    \A t \in Threads : pc[t] \in {"read", "write", "unlock"} <=> mutex = t

(* The bytes whose character thread t has counted.                             *)
Counted(t) ==
    IF pc[t] \in {"unborn", "start"} THEN {}
    ELSE start(t) .. IF pc[t] = "unlock" THEN index[t] ELSE index[t] - 1

(* The shared counters are at every moment exact for the bytes counted so far: *)
(* no increment of any thread is lost or made twice (line 95), and a thread    *)
(* about to write has read the current value.                                  *)
CountExact ==
    /\ \A c \in Chars : count[c] = Occurrences(c, UNION {Counted(t) : t \in Threads})
    /\ \A t \in Threads : pc[t] = "write" => register[t] = count[buffer[index[t]]]

(* What the program prints (lines 73-78) is the number of occurrences of each  *)
(* character in the whole file.                                                *)
PrintsOccurrences ==
    mainPc = "printed" => \A c \in Chars : count[c] = Occurrences(c, 0 .. size)

(* main terminates: no thread waits for the mutex for ever.                    *)
Termination == <>(mainPc \in {"printed", "failed"})

===============================================================================
