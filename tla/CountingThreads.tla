---------------------------- MODULE CountingThreads ---------------------------
(* What the three character-counting programs of Operating System/Assignment3  *)
(* and Assignment4 have in common: main reads a file into the buffer, divides  *)
(* it into one section for each child thread, creates the threads and joins    *)
(* them in order.  ASCIICount, ASCIICount2 and ASCIICountS extend this module  *)
(* with the counters and with what runner() does to them.                      *)
EXTENDS Integers, FiniteSets

CONSTANTS THREAD_NUM,   \* number of child threads (8 in the source)
          BUFFER_SIZE,  \* size of the buffer (65536 in the source)
          Chars,        \* the ASCII characters
          MaxFileSize   \* bound of the model: the longest file

ASSUME CountingAssumption ==
    /\ THREAD_NUM \in Nat \ {0}
    /\ BUFFER_SIZE \in Nat
    /\ MaxFileSize \in Nat

Threads == 0 .. THREAD_NUM - 1

VARIABLES
    size,        \* the position of the last byte of the file: -1 when it is empty
    buffer,      \* the bytes of the file
    mainPc,      \* what main is doing
    mainThread,  \* the thread it is creating or joining
    pc,          \* where each child thread is
    index        \* the loop variable i of each child thread

-------------------------------------------------------------------------------
(* The partition into sections (lines 51-58 of ASCIICount.c).  Division in C   *)
(* rounds towards zero, so an empty file has a quotient of 0.                  *)

quotient == IF size < 0 THEN 0 ELSE size \div THREAD_NUM

start(t) == quotient * t

end(t) == IF t < THREAD_NUM - 1 THEN quotient * (t + 1) - 1 ELSE size

-------------------------------------------------------------------------------
countingVars == <<size, buffer, mainPc, mainThread, pc, index>>

CountingInit ==
    /\ \E n \in 0 .. MaxFileSize :
         /\ size = n - 1
         /\ buffer \in [0 .. n - 1 -> Chars]
    /\ mainPc = "open"
    /\ mainThread = 0
    /\ pc = [t \in Threads |-> "unborn"]
    /\ index = [t \in Threads |-> 0]

(* No file name, or a file that cannot be opened (lines 29-37).                *)
UsageError ==
    /\ mainPc = "open"
    /\ mainPc' = "failed"
    /\ UNCHANGED <<size, buffer, mainThread, pc, index>>

RefuseFile ==
    /\ mainPc = "open"
    /\ size + 1 > BUFFER_SIZE
    /\ mainPc' = "failed"
    /\ UNCHANGED <<size, buffer, mainThread, pc, index>>

ReadFile ==
    /\ mainPc = "open"
    /\ size + 1 <= BUFFER_SIZE
    /\ mainPc' = "create"
    /\ UNCHANGED <<size, buffer, mainThread, pc, index>>

MainAdvance(phase) ==
    IF mainThread + 1 \in Threads
    THEN mainThread' = mainThread + 1 /\ UNCHANGED mainPc
    ELSE mainThread' = 0 /\ mainPc' = phase

CreateThread ==
    /\ mainPc = "create"
    /\ pc' = [pc EXCEPT ![mainThread] = "start"]
    /\ MainAdvance("join")
    /\ UNCHANGED <<size, buffer, index>>

(* main waits for the thread to exit; after the last one it prints the counts. *)
Join(t) ==
    /\ mainPc = "join"
    /\ mainThread = t
    /\ pc[t] = "done"
    /\ MainAdvance("printed")
    /\ UNCHANGED <<size, buffer, pc, index>>

(* The thread's loop test with i = k.                                          *)
LoopFrom(t, k, body) ==
    /\ index' = [index EXCEPT ![t] = k]
    /\ pc' = [pc EXCEPT ![t] = IF k <= end(t) THEN body ELSE "done"]
    /\ UNCHANGED <<size, buffer, mainPc, mainThread>>

GoTo(t, label) ==
    /\ pc' = [pc EXCEPT ![t] = label]
    /\ UNCHANGED <<size, buffer, mainPc, mainThread, index>>

(* The process has exited.                                                     *)
Exited == mainPc \in {"printed", "failed"} /\ UNCHANGED countingVars

-------------------------------------------------------------------------------
CountingTypeOK(labels) ==
    /\ size \in Int /\ size >= -1
    /\ buffer \in [0 .. size -> Chars]
    /\ mainPc \in {"open", "create", "join", "printed", "failed"}
    /\ mainThread \in Threads
    /\ pc \in [Threads -> labels \cup {"unborn", "start", "done"}]
    /\ index \in [Threads -> Int]

Occurrences(c, S) == Cardinality({k \in S : buffer[k] = c})

(* Each byte of the file is in exactly one section, whatever the size of the   *)
(* file: one that is empty, shorter than the number of threads, or not a       *)
(* multiple of it included.                                                    *)
SectionsPartitionFile ==
    \A k \in 0 .. size : \E t \in Threads :
        \A u \in Threads : start(u) <= k /\ k <= end(u) <=> u = t

(* The threads that main has not reached have not started (lines 65-66), and   *)
(* the ones it has joined are finished (68-69).                                *)
StartedAndJoinedInOrder ==
    \A t \in Threads :
        /\ mainPc \in {"open", "failed"} => pc[t] = "unborn"
        /\ mainPc = "create" /\ t >= mainThread => pc[t] = "unborn"
        /\ mainPc = "join" /\ t < mainThread => pc[t] = "done"
        /\ mainPc = "printed" => pc[t] = "done"

(* A thread only uses bytes of the file, and only of its own section: no two   *)
(* threads look at the same byte and none looks beyond the end of the buffer.  *)
BytesInsideSection ==
    \A t \in Threads : pc[t] \notin {"unborn", "start", "done"} =>
        /\ index[t] \in start(t) .. end(t)
        /\ index[t] \in 0 .. BUFFER_SIZE - 1

(* A thread that has finished has gone through the whole of its section.       *)
FinishedSections ==
    \A t \in Threads : pc[t] = "done" => index[t] = end(t) + 1

===============================================================================
