--------------------------- MODULE ASCIICountSProofs --------------------------
(* The partition of the file into sections and the threads, which the three    *)
(* census programs share; then that ASCIICountS and ASCIICount count exactly   *)
(* and that ASCIICount2 never counts too much, for every file, every number of *)
(* threads and every interleaving.                                             *)
EXTENDS ASCIICountS, FiniteSetTheorems, TLAPS

-------------------------------------------------------------------------------
(* Sections. *)

(* The arithmetic of sections of length q.                                     *)
LEMMA Multiples ==
    ASSUME NEW q \in Nat, NEW t \in Nat
    PROVE  /\ q * t \in Nat
           /\ q * (t + 1) = q * t + q
           /\ \A u \in Nat : t < u => q * (t + 1) <= q * u
<1>1. q * t \in Nat /\ q * (t + 1) = q * t + q
  OBVIOUS
<1>2. ASSUME NEW u \in Nat, t < u PROVE q * (t + 1) <= q * u
  <2>1. t + 1 \in Nat /\ t + 1 <= u
    BY <1>2
  <2> QED
    BY ONLY <2>1, q \in Nat, u \in Nat
<1> QED
  BY <1>1, <1>2

(* Integer division rounds down.                                               *)
LEMMA DivisionBounds ==
    ASSUME NEW n \in Nat, NEW d \in Nat \ {0}
    PROVE  /\ n \div d \in Nat
           /\ d * (n \div d) <= n
           /\ (n \div d) * d <= n
           /\ n < d * ((n \div d) + 1)
<1>1. n \div d \in Nat
  OBVIOUS
<1>2. d * (n \div d) <= n
  OBVIOUS
<1>3. (n \div d) * d <= n
  OBVIOUS
<1>4. n < d * ((n \div d) + 1)
  OBVIOUS
<1> QED
  BY <1>1, <1>2, <1>3, <1>4

(* The sections start inside the file in the order of the threads, are not     *)
(* longer than the file, and an empty one ends just before it starts.          *)
LEMMA SectionBounds ==
    ASSUME size \in Int, size >= -1
    PROVE  /\ quotient \in Nat
           /\ quotient * (THREAD_NUM - 1) <= size + 1
           /\ \A t \in Threads : /\ start(t) \in Nat
                                 /\ end(t) \in Int
                                 /\ start(t) <= end(t) + 1
                                 /\ end(t) <= size
<1>1. THREAD_NUM \in Nat \ {0} /\ THREAD_NUM - 1 \in Nat
  BY CountingAssumption
<1>2. quotient \in Nat
  BY <1>1 DEF quotient
<1>3. quotient * THREAD_NUM <= size + 1
  <2>1. CASE size < 0
    BY <1>1, <2>1 DEF quotient
  <2>2. CASE size >= 0
    <3>1. size \in Nat
      BY <2>2
    <3>2. (size \div THREAD_NUM) * THREAD_NUM <= size
      BY <3>1, <1>1, DivisionBounds
    <3>3. quotient = size \div THREAD_NUM
      BY <2>2 DEF quotient
    <3>4. quotient * THREAD_NUM <= size
      BY <3>2, <3>3
    <3> QED
      BY <1>1, <1>2, <3>1, <3>4, Multiples
  <2> QED
    BY <2>1, <2>2
<1>4. quotient * THREAD_NUM = quotient * (THREAD_NUM - 1) + quotient
  BY <1>1, <1>2, Multiples
<1>5. quotient * (THREAD_NUM - 1) \in Nat
  BY <1>1, <1>2, Multiples
<1>6. quotient * (THREAD_NUM - 1) <= size + 1
  BY <1>1, <1>2, <1>3, <1>4, <1>5
<1>7. ASSUME NEW t \in Threads
      PROVE  start(t) \in Nat /\ end(t) \in Int /\ start(t) <= end(t) + 1 /\ end(t) <= size
  <2>1. t \in Nat /\ t <= THREAD_NUM - 1
    BY <1>1 DEF Threads
  <2>2. /\ quotient * t \in Nat
        /\ quotient * (t + 1) = quotient * t + quotient
        /\ t < THREAD_NUM - 1 => quotient * (t + 1) <= quotient * (THREAD_NUM - 1)
    BY <1>1, <1>2, <2>1, Multiples
  <2>3. CASE t < THREAD_NUM - 1
    BY <1>2, <1>5, <1>6, <2>2, <2>3 DEF start, end
  <2>4. CASE t = THREAD_NUM - 1
    BY <1>6, <2>2, <2>4 DEF start, end
  <2> QED
    BY <1>1, <2>1, <2>3, <2>4
<1> QED
  BY <1>2, <1>6, <1>7

(* No byte is in two sections.                                                 *)
LEMMA SectionsDisjoint ==
    ASSUME size \in Int, size >= -1, NEW t \in Threads, NEW u \in Threads, t < u
    PROVE  end(t) < start(u)
<1>1. t \in Nat /\ u \in Nat /\ t < THREAD_NUM - 1
  BY CountingAssumption DEF Threads
<1>2. quotient \in Nat
  BY SectionBounds
<1>3. quotient * (t + 1) <= quotient * u /\ quotient * u \in Nat /\ quotient * (t + 1) \in Nat
  BY <1>1, <1>2, Multiples
<1> QED
  BY <1>1, <1>3 DEF start, end

(* Every byte is in some section.                                              *)
LEMMA SectionsCover ==
    ASSUME size \in Int, NEW k \in 0 .. size
    PROVE  \E t \in Threads : start(t) <= k /\ k <= end(t)
<1>1. size >= 0 /\ k \in Nat /\ THREAD_NUM - 1 \in Threads
  BY CountingAssumption DEF Threads
<1>2. quotient \in Nat /\ THREAD_NUM - 1 \in Nat
  BY <1>1, SectionBounds, CountingAssumption
<1>3. quotient * (THREAD_NUM - 1) \in Nat
  BY <1>2, Multiples
<1>4. CASE quotient * (THREAD_NUM - 1) <= k
  <2>1. start(THREAD_NUM - 1) <= k
    BY <1>4 DEF start
  <2>2. end(THREAD_NUM - 1) = size /\ k <= size
    BY <1>2 DEF end
  <2> QED
    BY <1>1, <2>1, <2>2
<1>5. CASE k < quotient * (THREAD_NUM - 1)
  <2>1. quotient > 0
    BY <1>1, <1>2, <1>5
  <2> DEFINE t == k \div quotient
  <2>2. t \in Nat /\ quotient * t <= k /\ k < quotient * (t + 1)
    <3>1. quotient \in Nat \ {0}
      BY <1>2, <2>1
    <3> QED
      BY <1>1, <3>1, DivisionBounds
  <2>3. t < THREAD_NUM - 1
    <3>1. SUFFICES ASSUME THREAD_NUM - 1 <= t PROVE FALSE
      BY <1>2, <2>2
    <3> HIDE DEF t
    <3>2. quotient * (THREAD_NUM - 1) <= quotient * t
      BY ONLY <3>1, <1>2, <2>2
    <3> QED
      BY <1>1, <1>3, <1>5, <2>2, <3>2, Multiples, <1>2
  <2>4. t \in Threads
    BY <2>2, <2>3, CountingAssumption DEF Threads
  <2> HIDE DEF t
  <2>5. quotient * (t + 1) \in Nat
    BY <1>2, <2>2, Multiples
  <2>6. start(t) <= k /\ k <= end(t)
    BY <1>1, <2>2, <2>3, <2>5 DEF start, end
  <2> QED
    BY <2>4, <2>6
<1> QED
  BY <1>1, <1>3, <1>4, <1>5

(* The sections partition the file, whatever its size and the number of        *)
(* threads (lines 51-58 of ASCIICount.c).                                      *)
THEOREM PartitionCorrect ==
    ASSUME size \in Int, size >= -1
    PROVE  SectionsPartitionFile
<1> SUFFICES ASSUME NEW k \in 0 .. size
             PROVE  \E t \in Threads : \A u \in Threads :
                        start(u) <= k /\ k <= end(u) <=> u = t
  BY DEF SectionsPartitionFile
<1>1. PICK t \in Threads : start(t) <= k /\ k <= end(t)
  BY SectionsCover
<1>2. ASSUME NEW u \in Threads, start(u) <= k, k <= end(u) PROVE u = t
  <2>1. t \in Int /\ u \in Int /\ k \in Int
    BY CountingAssumption DEF Threads
  <2>2. /\ start(t) \in Int /\ end(t) \in Int
        /\ start(u) \in Int /\ end(u) \in Int
    BY SectionBounds
  <2>3. ~(t < u)
    BY <1>1, <1>2, <2>1, <2>2, SectionsDisjoint
  <2>4. ~(u < t)
    BY <1>1, <1>2, <2>1, <2>2, SectionsDisjoint
  <2> QED
    BY <2>1, <2>3, <2>4
<1> QED
  BY <1>1, <1>2

-------------------------------------------------------------------------------
(* Threads.  What every one of the programs keeps: a thread at a label of the  *)
(* loop, one of L, has an index inside its section, a finished one has its     *)
(* index just behind it, and the file fits in the buffer.                      *)
Running(L) ==
    /\ CountingTypeOK(L)
    /\ StartedAndJoinedInOrder
    /\ \A t \in Threads : pc[t] \in L => index[t] \in start(t) .. end(t)
    /\ FinishedSections
    /\ mainPc \in {"create", "join", "printed"} => size + 1 <= BUFFER_SIZE

Outside == {"unborn", "start", "done"}

(* What the constants say of the threads.                                      *)
LEMMA ThreadNumbers ==
    /\ NoThread \notin Threads
    /\ 0 \in Threads
    /\ Threads \subseteq Nat
    /\ THREAD_NUM \in Nat \ {0}
BY CountingAssumption DEF Threads, NoThread

(* An index inside a section is inside the file.                               *)
LEMMA SectionInsideFile ==
    ASSUME size \in Int, size >= -1, NEW t \in Threads, NEW k \in start(t) .. end(t)
    PROVE  k \in 0 .. size
<1>1. start(t) \in Nat /\ end(t) \in Int /\ end(t) <= size
  BY SectionBounds
<1> QED
  BY <1>1

(* No thread is running before the file is read.                               *)
LEMMA RunningStarts ==
    ASSUME CountingInit, NEW L, L \cap Outside = {}
    PROVE  Running(L)
<1>1. PICK n \in 0 .. MaxFileSize : size = n - 1 /\ buffer \in [0 .. n - 1 -> Chars]
  BY DEF CountingInit
<1>2. CountingTypeOK(L)
  BY <1>1, ThreadNumbers, CountingAssumption DEF CountingInit, CountingTypeOK
<1> QED
  BY <1>2 DEF CountingInit, Running, StartedAndJoinedInOrder, FinishedSections, Outside

(* The thread t goes on with its loop at position k.                           *)
LEMMA LoopRuns ==
    ASSUME NEW L, L \cap Outside = {}, Running(L), NEW body \in L,
           NEW t \in Threads, NEW k \in Int, LoopFrom(t, k, body),
           pc[t] \in L \cup {"start"}, start(t) <= k, k <= end(t) + 1
    PROVE  Running(L)'
<1> USE DEF Running, Outside
<1>1. \A u \in Threads : start(u)' = start(u) /\ end(u)' = end(u)
  BY DEF LoopFrom, start, end, quotient
<1>2. CountingTypeOK(L)'
  BY DEF CountingTypeOK, LoopFrom
<1>3. StartedAndJoinedInOrder'
  BY DEF CountingTypeOK, LoopFrom, StartedAndJoinedInOrder
<1>4. end(t) \in Int /\ start(t) \in Int
  BY SectionBounds DEF CountingTypeOK
<1>5. index' = [index EXCEPT ![t] = k]
      /\ pc' = [pc EXCEPT ![t] = IF k <= end(t) THEN body ELSE "done"]
  BY DEF LoopFrom
<1>6. \A u \in Threads : pc'[u] \in L => index'[u] \in start(u) .. end(u)
  <2> SUFFICES ASSUME NEW u \in Threads, pc'[u] \in L PROVE index'[u] \in start(u) .. end(u)
    OBVIOUS
  <2>1. CASE u = t
    BY <1>4, <1>5, <2>1 DEF CountingTypeOK
  <2>2. CASE u # t
    BY <1>5, <2>2 DEF CountingTypeOK
  <2> QED
    BY <2>1, <2>2
<1>7. \A u \in Threads : pc'[u] = "done" => index'[u] = end(u) + 1
  <2> SUFFICES ASSUME NEW u \in Threads, pc'[u] = "done" PROVE index'[u] = end(u) + 1
    OBVIOUS
  <2>1. CASE u = t
    <3>1. pc'[t] = IF k <= end(t) THEN body ELSE "done"
      BY <1>5 DEF CountingTypeOK
    <3>2. body # "done"
      OBVIOUS
    <3>3. ~(k <= end(t))
      BY <2>1, <3>1, <3>2
    <3>4. index'[t] = k
      BY <1>5 DEF CountingTypeOK
    <3> QED
      BY <1>4, <2>1, <3>3, <3>4
  <2>2. CASE u # t
    BY <1>5, <2>2 DEF CountingTypeOK, FinishedSections
  <2> QED
    BY <2>1, <2>2
<1>8. size' = size /\ mainPc' = mainPc
  BY DEF LoopFrom
<1> QED
  BY <1>1, <1>2, <1>3, <1>6, <1>7, <1>8 DEF FinishedSections

(* The thread t goes on inside the body of its loop.                           *)
LEMMA BodyRuns ==
    ASSUME NEW L, L \cap Outside = {}, Running(L), NEW label \in L,
           NEW t \in Threads, GoTo(t, label), pc[t] \in L
    PROVE  Running(L)'
<1> USE DEF Running, GoTo, Outside
<1>1. \A u \in Threads : start(u)' = start(u) /\ end(u)' = end(u)
  BY DEF start, end, quotient
<1>2. CountingTypeOK(L)'
  BY DEF CountingTypeOK
<1>3. StartedAndJoinedInOrder'
  BY DEF CountingTypeOK, StartedAndJoinedInOrder
<1>4. \A u \in Threads : pc'[u] \in L => index'[u] \in start(u) .. end(u)
  BY <1>1 DEF CountingTypeOK
<1>5. \A u \in Threads : pc'[u] = "done" => index'[u] = end(u) + 1
  BY DEF CountingTypeOK, FinishedSections
<1> QED
  BY <1>1, <1>2, <1>3, <1>4, <1>5 DEF FinishedSections

(* A step of main keeps the threads as they are, or starts one.                *)
MainStep ==
    UsageError \/ RefuseFile \/ ReadFile \/ CreateThread \/ \E t \in Threads : Join(t)

LEMMA MainRuns ==
    ASSUME NEW L, L \cap Outside = {}, Running(L), MainStep
    PROVE  Running(L)'
<1> USE ThreadNumbers DEF Running, CountingTypeOK, Outside
<1>1. /\ UNCHANGED <<size, buffer, index>>
      /\ \A u \in Threads : start(u)' = start(u) /\ end(u)' = end(u)
  BY DEF MainStep, UsageError, RefuseFile, ReadFile, CreateThread, Join, start, end, quotient
<1>2. CASE UsageError \/ RefuseFile \/ ReadFile
  <2>1. /\ mainPc = "open" /\ mainPc' \in {"failed", "create"}
        /\ UNCHANGED <<pc, mainThread>>
        /\ mainPc' = "create" => size + 1 <= BUFFER_SIZE
    BY <1>2 DEF UsageError, RefuseFile, ReadFile
  <2> QED
    BY <1>1, <2>1 DEF StartedAndJoinedInOrder, FinishedSections
<1>3. CASE CreateThread
  <2>1. /\ mainPc = "create"
        /\ pc' = [pc EXCEPT ![mainThread] = "start"]
        /\ MainAdvance("join")
    BY <1>3 DEF CreateThread
  <2>2. mainPc' \in {"create", "join"} /\ mainThread' \in Threads
    BY <2>1 DEF MainAdvance
  <2>3. StartedAndJoinedInOrder'
    BY <2>1 DEF MainAdvance, StartedAndJoinedInOrder
  <2>4. CountingTypeOK(L)'
    BY <1>1, <2>1, <2>2
  <2>5. \A u \in Threads : pc'[u] \in L => pc[u] \in L
    BY <2>1
  <2>6. \A u \in Threads : pc'[u] = "done" => pc[u] = "done"
    BY <2>1
  <2> QED
    BY <1>1, <2>1, <2>2, <2>3, <2>4, <2>5, <2>6 DEF FinishedSections
<1>4. ASSUME NEW t \in Threads, Join(t) PROVE Running(L)'
  <2>1. /\ mainPc = "join" /\ mainThread = t /\ pc[t] = "done" /\ pc' = pc
        /\ MainAdvance("printed")
    BY <1>4 DEF Join
  <2>2. mainPc' \in {"join", "printed"} /\ mainThread' \in Threads
    BY <2>1 DEF MainAdvance
  <2>3. StartedAndJoinedInOrder'
    <3>1. CASE t + 1 \in Threads
      BY <2>1, <3>1 DEF MainAdvance, StartedAndJoinedInOrder
    <3>2. CASE t + 1 \notin Threads
      <4>1. \A u \in Threads : u < t \/ u = t
        BY <3>2 DEF Threads
      <4> QED
        BY <2>1, <3>2, <4>1 DEF MainAdvance, StartedAndJoinedInOrder
    <3> QED
      BY <3>1, <3>2
  <2> QED
    BY <1>1, <2>1, <2>2, <2>3 DEF FinishedSections
<1> QED
  BY <1>2, <1>3, <1>4 DEF MainStep

(* A step that changes nothing.                                                *)
LEMMA NothingRuns ==
    ASSUME NEW L, Running(L), UNCHANGED countingVars
    PROVE  Running(L)'
BY DEF countingVars, Running, CountingTypeOK, StartedAndJoinedInOrder,
       FinishedSections, start, end, quotient

-------------------------------------------------------------------------------
(* Counting under the mutex.  The labels of the loop, and the threads there.   *)
Body == {"lock", "read", "write", "unlock"}

InLoop(t) == pc[t] \in Body

(* What keeps the indices inside the file, and the types of the counters.      *)
Bookkeeping == Running(Body) /\ TypeOK

LEMMA BodyIsInside == Body \cap Outside = {}
BY DEF Body, Outside

(* Every byte that was counted lies in the section of its thread, and main     *)
(* creates and joins in order (ASCIICountS.c:66-103).                          *)
THEOREM BookkeepingCorrect == Spec => []Bookkeeping
<1> USE ThreadNumbers, BodyIsInside
<1>1. Init => Bookkeeping
  <2> SUFFICES ASSUME Init PROVE Bookkeeping
    OBVIOUS
  <2>1. Running(Body)
    BY RunningStarts DEF Init
  <2> QED
    BY <2>1 DEF Init, Bookkeeping, TypeOK, Running, Body
<1>2. Bookkeeping /\ [Next]_vars => Bookkeeping'
  <2> SUFFICES ASSUME Bookkeeping, [Next]_vars PROVE Bookkeeping'
    OBVIOUS
  <2> DEFINE Counters == /\ count \in [Chars -> Nat]
                         /\ register \in [Threads -> Nat]
                         /\ mutex \in Threads \cup {NoThread}
  <2>1. CountingTypeOK(Body) /\ Running(Body) /\ Counters
    BY DEF Bookkeeping, Running, TypeOK
  <2>2. Running(Body)' /\ Counters' => Bookkeeping'
    BY DEF Bookkeeping, TypeOK, Running, Body
  <2>3. CASE Main
    <3>1. MainStep /\ UNCHANGED <<count, register, mutex>>
      BY <2>3 DEF Main, MainStep
    <3>2. Running(Body)'
      BY <2>1, <3>1, MainRuns
    <3> QED
      BY <2>1, <2>2, <3>1, <3>2
  <2>4. ASSUME NEW t \in Threads, RunnerStart(t) PROVE Bookkeeping'
    <3>1. start(t) \in Int /\ start(t) <= end(t) + 1
      BY <2>1, SectionBounds DEF CountingTypeOK
    <3>2. Running(Body)'
      BY <2>1, <2>4, <3>1, LoopRuns DEF RunnerStart, Body
    <3> QED
      BY <2>1, <2>2, <2>4, <3>2 DEF RunnerStart
  <2>5. ASSUME NEW t \in Threads, Lock(t) PROVE Bookkeeping'
    <3>1. Running(Body)'
      BY <2>1, <2>5, BodyRuns DEF Lock, Body
    <3> QED
      BY <2>1, <2>2, <2>5, <3>1 DEF Lock
  <2>6. ASSUME NEW t \in Threads, ReadCount(t) PROVE Bookkeeping'
    <3>1. index[t] \in 0 .. size
      <4>1. index[t] \in start(t) .. end(t)
        BY <2>1, <2>6 DEF ReadCount, Body, Running
      <4> QED
        BY <2>1, <4>1, SectionInsideFile DEF CountingTypeOK
    <3>2. register' \in [Threads -> Nat]
      BY <2>1, <2>6, <3>1 DEF ReadCount, CountingTypeOK
    <3>3. Running(Body)'
      BY <2>1, <2>6, BodyRuns DEF ReadCount, Body
    <3> QED
      BY <2>1, <2>2, <2>6, <3>2, <3>3 DEF ReadCount
  <2>7. ASSUME NEW t \in Threads, WriteCount(t) PROVE Bookkeeping'
    <3>1. count' \in [Chars -> Nat]
      <4>1. register[t] + 1 \in Nat /\ count \in [Chars -> Nat]
        BY <2>1
      <4>2. count' = [count EXCEPT ![buffer[index[t]]] = register[t] + 1]
        BY <2>7 DEF WriteCount
      <4> QED
        BY <4>1, <4>2
    <3>2. Running(Body)'
      BY <2>1, <2>7, BodyRuns DEF WriteCount, Body
    <3> QED
      BY <2>1, <2>2, <2>7, <3>1, <3>2 DEF WriteCount
  <2>8. ASSUME NEW t \in Threads, Unlock(t) PROVE Bookkeeping'
    <3>1. index[t] \in start(t) .. end(t)
      BY <2>1, <2>8 DEF Running, Body, Unlock
    <3>2. end(t) \in Int /\ start(t) \in Int
      BY <2>1, SectionBounds DEF CountingTypeOK
    <3>3. index[t] + 1 \in Int /\ start(t) <= index[t] + 1 /\ index[t] + 1 <= end(t) + 1
      BY <3>1, <3>2
    <3>4. Running(Body)'
      BY <2>1, <2>8, <3>3, LoopRuns DEF Unlock, Body
    <3> QED
      BY <2>1, <2>2, <2>8, <3>4 DEF Unlock
  <2>9. CASE UNCHANGED vars
    <3>1. Running(Body)'
      BY <2>1, <2>9, NothingRuns DEF vars
    <3> QED
      BY <2>1, <2>2, <2>9, <3>1 DEF vars
  <2> QED
    BY <2>3, <2>4, <2>5, <2>6, <2>7, <2>8, <2>9 DEF Next, runner, Exited, vars
<1> QED
  BY <1>1, <1>2, PTL DEF Spec

(* Every variable keeps its type.                                              *)
THEOREM TypeCorrect == Spec => []TypeOK
BY BookkeepingCorrect, PTL DEF Bookkeeping, Running, Body, InLoop

(* No thread uses a byte outside its section, or beyond the buffer, whatever   *)
(* the size of the file.                                                       *)
THEOREM BytesInside == Spec => []BytesInsideSection
<1>1. Bookkeeping => BytesInsideSection
  <2> SUFFICES ASSUME Bookkeeping, NEW t \in Threads, pc[t] \notin {"unborn", "start", "done"}
               PROVE  index[t] \in start(t) .. end(t) /\ index[t] \in 0 .. BUFFER_SIZE - 1
    BY DEF BytesInsideSection
  <2>1. size \in Int /\ size >= -1
    BY DEF Bookkeeping, Running, Body, InLoop, TypeOK, CountingTypeOK
  <2>2. InLoop(t)
    BY DEF Bookkeeping, Running, Body, TypeOK, CountingTypeOK, InLoop
  <2>3. index[t] \in start(t) .. end(t)
    BY <2>2 DEF Bookkeeping, Running, Body, InLoop
  <2>4. index[t] \in 0 .. size
    BY <2>1, <2>3, SectionInsideFile
  <2>5. mainPc \in {"create", "join", "printed"}
    BY DEF Bookkeeping, Running, Body, InLoop, TypeOK, CountingTypeOK, StartedAndJoinedInOrder
  <2>6. size + 1 <= BUFFER_SIZE /\ BUFFER_SIZE \in Nat
    BY <2>5, CountingAssumption DEF Bookkeeping, Running, Body, InLoop
  <2> QED
    BY <2>1, <2>3, <2>4, <2>6
<1> QED
  BY <1>1, BookkeepingCorrect, PTL

(* The mutex excludes: at most one thread is between lines 94 and 96.          *)
THEOREM IncrementsExclusive == Spec => []MutualExclusion
<1> USE ThreadNumbers
<1>1. Init => MutualExclusion
  BY DEF Init, CountingInit, MutualExclusion
<1>2. Bookkeeping /\ MutualExclusion /\ [Next]_vars => MutualExclusion'
  <2> SUFFICES ASSUME Bookkeeping, MutualExclusion, [Next]_vars PROVE MutualExclusion'
    OBVIOUS
  <2> USE DEF MutualExclusion
  <2>1. /\ pc \in [Threads -> {"unborn", "start", "lock", "read", "write", "unlock", "done"}]
        /\ mainThread \in Threads
        /\ mainPc = "create" => pc[mainThread] = "unborn"
    BY DEF Bookkeeping, Running, Body, InLoop, TypeOK, CountingTypeOK, StartedAndJoinedInOrder
  <2>2. CASE Main
    BY <2>1, <2>2 DEF Main, UsageError, RefuseFile, ReadFile, CreateThread, Join
  <2>3. ASSUME NEW t \in Threads, RunnerStart(t) PROVE MutualExclusion'
    BY <2>1, <2>3 DEF RunnerStart, LoopFrom
  <2>4. ASSUME NEW t \in Threads, Lock(t) PROVE MutualExclusion'
    BY <2>1, <2>4 DEF Lock, GoTo
  <2>5. ASSUME NEW t \in Threads, ReadCount(t) \/ WriteCount(t) PROVE MutualExclusion'
    BY <2>1, <2>5 DEF ReadCount, WriteCount, GoTo
  <2>6. ASSUME NEW t \in Threads, Unlock(t) PROVE MutualExclusion'
    BY <2>1, <2>6 DEF Unlock, LoopFrom
  <2>7. CASE UNCHANGED vars
    BY <2>7 DEF vars, countingVars
  <2> QED
    BY <2>2, <2>3, <2>4, <2>5, <2>6, <2>7 DEF Next, runner, Exited, vars
<1> QED
  BY <1>1, <1>2, BookkeepingCorrect, PTL DEF Spec

-------------------------------------------------------------------------------
(* Exactness.  All the bytes counted so far, and those with character c.       *)
CountedBytes == UNION {Counted(t) : t \in Threads}

WithChar(c, S) == {k \in S : buffer[k] = c}

(* The counted bytes are bytes of the file, finitely many.                     *)
LEMMA CountedInFile ==
    ASSUME Bookkeeping
    PROVE  /\ CountedBytes \subseteq 0 .. size
           /\ IsFiniteSet(CountedBytes)
           /\ \A t \in Threads : Counted(t) \subseteq start(t) .. end(t)
<1>1. size \in Int /\ size >= -1
  BY DEF Bookkeeping, Running, Body, InLoop, TypeOK, CountingTypeOK
<1>2. ASSUME NEW t \in Threads PROVE Counted(t) \subseteq start(t) .. end(t)
  <2>1. start(t) \in Int /\ end(t) \in Int /\ index[t] \in Int
    BY <1>1, SectionBounds DEF Bookkeeping, Running, Body, InLoop, TypeOK, CountingTypeOK
  <2>2. pc[t] \in {"unborn", "start", "lock", "read", "write", "unlock", "done"}
    BY DEF Bookkeeping, Running, Body, InLoop, TypeOK, CountingTypeOK
  <2>3. CASE InLoop(t)
    <3>1. index[t] \in start(t) .. end(t)
      BY <2>3 DEF Bookkeeping, Running, Body, InLoop
    <3> QED
      BY <2>1, <2>3, <3>1 DEF Counted, InLoop, Body
  <2>4. CASE pc[t] = "done"
    <3>1. index[t] = end(t) + 1
      BY <2>4 DEF Bookkeeping, Running, Body, InLoop, FinishedSections
    <3> QED
      BY <2>1, <2>4, <3>1 DEF Counted
  <2>5. CASE pc[t] \in {"unborn", "start"}
    BY <2>5 DEF Counted
  <2> QED
    BY <2>2, <2>3, <2>4, <2>5 DEF InLoop, Body
<1>3. CountedBytes \subseteq 0 .. size
  BY <1>1, <1>2, SectionInsideFile DEF CountedBytes
<1>4. IsFiniteSet(0 .. size)
  BY <1>1, FS_Interval
<1> QED
  BY <1>2, <1>3, <1>4, FS_Subset

(* A step that counts no byte and writes no counter preserves exactness.       *)
LEMMA NothingCounted ==
    ASSUME CountExact, UNCHANGED <<count, buffer>>,
           \A t \in Threads : Counted(t)' = Counted(t),
           \A t \in Threads : pc'[t] = "write" => register'[t] = count[buffer[index'[t]]]
    PROVE  CountExact'
<1>1. UNION {Counted(t)' : t \in Threads} = UNION {Counted(t) : t \in Threads}
  OBVIOUS
<1> QED
  BY <1>1 DEF CountExact, Occurrences

(* A byte that is counted adds one to the occurrences of its character only.   *)
LEMMA OneMoreByte ==
    ASSUME NEW S, IsFiniteSet(S), NEW k, k \notin S, NEW c
    PROVE  Occurrences(c, S \cup {k}) =
             IF buffer[k] = c THEN Occurrences(c, S) + 1 ELSE Occurrences(c, S)
<1>1. IsFiniteSet(WithChar(c, S)) /\ k \notin WithChar(c, S)
  BY FS_Subset DEF WithChar
<1>2. CASE buffer[k] = c
  <2>1. WithChar(c, S \cup {k}) = WithChar(c, S) \cup {k}
    BY <1>2 DEF WithChar
  <2>2. Cardinality(WithChar(c, S) \cup {k}) = Cardinality(WithChar(c, S)) + 1
    BY <1>1, FS_AddElement
  <2> QED
    BY <1>2, <2>1, <2>2 DEF Occurrences, WithChar
<1>3. CASE buffer[k] # c
  <2>1. WithChar(c, S \cup {k}) = WithChar(c, S)
    BY <1>3 DEF WithChar
  <2> QED
    BY <1>3, <2>1 DEF Occurrences, WithChar
<1> QED
  BY <1>2, <1>3

(* The shared counters are exact for the bytes counted so far: no increment of *)
(* line 95 is lost or made twice, in any interleaving of any number of threads.*)
THEOREM CountersExact == Spec => []CountExact
<1> USE ThreadNumbers
<1>1. Init => CountExact
  <2> SUFFICES ASSUME Init PROVE CountExact
    OBVIOUS
  <2>1. \A t \in Threads : Counted(t) = {}
    BY DEF Init, CountingInit, Counted
  <2>2. UNION {Counted(t) : t \in Threads} = {}
    BY <2>1
  <2>3. \A c \in Chars : Occurrences(c, {}) = 0
    BY FS_EmptySet DEF Occurrences
  <2> QED
    BY <2>2, <2>3 DEF Init, CountingInit, CountExact
<1>2. Bookkeeping /\ MutualExclusion /\ CountExact /\ [Next]_vars => CountExact'
  <2> SUFFICES ASSUME Bookkeeping, MutualExclusion, CountExact, [Next]_vars
               PROVE  CountExact'
    OBVIOUS
  <2>1. /\ size \in Int /\ size >= -1
        /\ pc \in [Threads -> {"unborn", "start", "lock", "read", "write", "unlock", "done"}]
        /\ index \in [Threads -> Int]
        /\ register \in [Threads -> Nat]
        /\ count \in [Chars -> Nat]
        /\ buffer \in [0 .. size -> Chars]
        /\ mainThread \in Threads
        /\ mainPc = "create" => pc[mainThread] = "unborn"
    BY DEF Bookkeeping, Running, Body, InLoop, TypeOK, CountingTypeOK, StartedAndJoinedInOrder
  <2>2. \A t \in Threads : pc[t] = "write" => register[t] = count[buffer[index[t]]]
    BY DEF CountExact
  <2>3. UNCHANGED size => \A t \in Threads : start(t)' = start(t) /\ end(t)' = end(t)
    BY DEF start, end, quotient
  <2>4. CASE Main
    <3>1. UNCHANGED <<size, buffer, index, count, register>>
      BY <2>4 DEF Main, UsageError, RefuseFile, ReadFile, CreateThread, Join
    <3>2. pc' = pc \/ (mainPc = "create" /\ pc' = [pc EXCEPT ![mainThread] = "start"])
      BY <2>4 DEF Main, UsageError, RefuseFile, ReadFile, CreateThread, Join
    <3>3. \A t \in Threads : Counted(t)' = Counted(t)
      BY <2>1, <2>3, <3>1, <3>2 DEF Counted
    <3>4. \A t \in Threads : pc'[t] = "write" => pc[t] = "write"
      BY <2>1, <3>2
    <3> QED
      BY <2>2, <3>1, <3>3, <3>4, NothingCounted
  <2>5. ASSUME NEW t \in Threads, RunnerStart(t) PROVE CountExact'
    <3>1. /\ UNCHANGED <<size, buffer, count, register>>
          /\ pc[t] = "start"
          /\ index' = [index EXCEPT ![t] = start(t)]
          /\ pc' = [pc EXCEPT ![t] = IF start(t) <= end(t) THEN "lock" ELSE "done"]
      BY <2>5 DEF RunnerStart, LoopFrom
    <3>2. start(t) \in Int
      BY <2>1, SectionBounds
    <3>3. start(t) .. start(t) - 1 = {}
      BY <3>2
    <3>4. \A u \in Threads : Counted(u)' = Counted(u)
      BY <2>1, <2>3, <3>1, <3>3 DEF Counted
    <3> QED
      BY <2>1, <2>2, <3>1, <3>4, NothingCounted
  <2>6. ASSUME NEW t \in Threads, Lock(t) PROVE CountExact'
    <3>1. \A u \in Threads : Counted(u)' = Counted(u)
      BY <2>1, <2>3, <2>6 DEF Lock, GoTo, Counted
    <3> QED
      BY <2>1, <2>2, <2>6, <3>1, NothingCounted DEF Lock, GoTo
  <2>7. ASSUME NEW t \in Threads, ReadCount(t) PROVE CountExact'
    <3>1. \A u \in Threads : Counted(u)' = Counted(u)
      BY <2>1, <2>3, <2>7 DEF ReadCount, GoTo, Counted
    <3> QED
      BY <2>1, <2>2, <2>7, <3>1, NothingCounted DEF ReadCount, GoTo
  <2>8. ASSUME NEW t \in Threads, Unlock(t) PROVE CountExact'
    <3>1. /\ UNCHANGED <<size, buffer, count, register>>
          /\ pc[t] = "unlock"
          /\ index' = [index EXCEPT ![t] = index[t] + 1]
          /\ pc' = [pc EXCEPT ![t] = IF index[t] + 1 <= end(t) THEN "lock" ELSE "done"]
      BY <2>8 DEF Unlock, LoopFrom
    <3>2. (index[t] + 1) - 1 = index[t]
      BY <2>1
    <3>3. \A u \in Threads : Counted(u)' = Counted(u)
      BY <2>1, <2>3, <3>1, <3>2 DEF Counted
    <3> QED
      BY <2>1, <2>2, <3>1, <3>3, NothingCounted
  <2>9. ASSUME NEW t \in Threads, WriteCount(t) PROVE CountExact'
    <3> DEFINE k == index[t]
    <3>1. /\ UNCHANGED <<size, buffer, index, register>>
          /\ pc[t] = "write"
          /\ pc' = [pc EXCEPT ![t] = "unlock"]
          /\ count' = [count EXCEPT ![buffer[k]] = register[t] + 1]
      BY <2>9 DEF WriteCount, GoTo
    <3>2. k \in start(t) .. end(t)
      BY <3>1 DEF Bookkeeping, Running, Body, InLoop
    <3>3. k \in 0 .. size /\ buffer[k] \in Chars
      BY <2>1, <3>2, SectionInsideFile
    <3>4. k \notin CountedBytes
      <4>1. k \notin Counted(t)
        <5>1. Counted(t) = start(t) .. k - 1
          BY <3>1 DEF Counted
        <5> QED
          BY <2>1, <5>1
      <4>2. ASSUME NEW u \in Threads, u # t PROVE k \notin Counted(u)
        <5>1. Counted(u) \subseteq start(u) .. end(u)
          BY CountedInFile
        <5>2. end(t) < start(u) \/ end(u) < start(t)
          BY <2>1, <4>2, SectionsDisjoint
        <5>3. /\ start(t) \in Int /\ end(t) \in Int
              /\ start(u) \in Int /\ end(u) \in Int
          BY <2>1, SectionBounds
        <5> QED
          BY <3>2, <5>1, <5>2, <5>3
      <4> QED
        BY <4>1, <4>2 DEF CountedBytes
    <3>5. UNION {Counted(u)' : u \in Threads} = CountedBytes \cup {k}
      <4>1. Counted(t)' = Counted(t) \cup {k}
        <5>1. Counted(t) = start(t) .. k - 1 /\ Counted(t)' = start(t) .. k
          BY <2>1, <2>3, <3>1 DEF Counted
        <5>2. start(t) \in Int
          BY <2>1, SectionBounds
        <5> QED
          BY <3>2, <5>1, <5>2
      <4>2. \A u \in Threads : u # t => Counted(u)' = Counted(u)
        BY <2>1, <2>3, <3>1 DEF Counted
      <4> QED
        BY <4>1, <4>2 DEF CountedBytes
    <3>6. register[t] = count[buffer[k]]
      BY <2>2, <3>1
    <3>7. \A c \in Chars : count[c] = Occurrences(c, CountedBytes)
      BY DEF CountExact, CountedBytes
    <3>8. ASSUME NEW c \in Chars
          PROVE  count'[c] = Occurrences(c, CountedBytes \cup {k})
      <4>1. Occurrences(c, CountedBytes \cup {k}) =
              IF buffer[k] = c THEN count[c] + 1 ELSE count[c]
        BY <3>4, <3>7, CountedInFile, OneMoreByte
      <4> QED
        BY <2>1, <3>1, <3>6, <4>1
    <3>9. ASSUME NEW c \in Chars
          PROVE  Occurrences(c, UNION {Counted(u) : u \in Threads})' =
                   Occurrences(c, CountedBytes \cup {k})
      <4> HIDE DEF k
      <4>1. buffer' = buffer
        BY <3>1
      <4> QED
        BY <3>5, <4>1 DEF Occurrences
    <3>10. \A u \in Threads : pc'[u] # "write"
      <4>1. \A u \in Threads : pc[u] = "write" => u = t
        BY <3>1 DEF MutualExclusion
      <4> QED
        BY <2>1, <3>1, <4>1
    <3> QED
      BY <3>8, <3>9, <3>10 DEF CountExact
  <2>10. CASE UNCHANGED vars
    BY <2>10 DEF vars, countingVars, CountExact, Counted, Occurrences, start, end, quotient
  <2> QED
    BY <2>4, <2>5, <2>6, <2>7, <2>8, <2>9, <2>10 DEF Next, runner, Exited, vars
<1> QED
  BY <1>1, <1>2, BookkeepingCorrect, IncrementsExclusive, PTL DEF Spec

(* What the program prints is the number of occurrences of each character in   *)
(* the file (lines 73-78), for every file and every number of threads.         *)
THEOREM PrintedCountsCorrect == Spec => []PrintsOccurrences
<1>1. Bookkeeping /\ CountExact => PrintsOccurrences
  <2> SUFFICES ASSUME Bookkeeping, CountExact, mainPc = "printed", NEW c \in Chars
               PROVE  count[c] = Occurrences(c, 0 .. size)
    BY DEF PrintsOccurrences
  <2>1. size \in Int /\ size >= -1
    BY DEF Bookkeeping, Running, Body, InLoop, TypeOK, CountingTypeOK
  <2>2. \A t \in Threads : pc[t] = "done" /\ index[t] = end(t) + 1
    BY DEF Bookkeeping, Running, Body, InLoop, StartedAndJoinedInOrder, FinishedSections
  <2>3. ASSUME NEW t \in Threads PROVE Counted(t) = start(t) .. end(t)
    <3>1. end(t) \in Int
      BY <2>1, SectionBounds
    <3> QED
      BY <2>2, <3>1 DEF Counted
  <2>4. 0 .. size \subseteq CountedBytes
    <3> SUFFICES ASSUME NEW k \in 0 .. size PROVE k \in CountedBytes
      OBVIOUS
    <3>1. PICK t \in Threads : start(t) <= k /\ k <= end(t)
      BY <2>1, SectionsCover
    <3>2. start(t) \in Int /\ end(t) \in Int
      BY <2>1, SectionBounds
    <3> QED
      BY <2>3, <3>1, <3>2 DEF CountedBytes
  <2>5. CountedBytes = 0 .. size
    BY <2>4, CountedInFile
  <2> QED
    BY <2>5 DEF CountExact, CountedBytes
<1> QED
  BY <1>1, BookkeepingCorrect, CountersExact, PTL

-------------------------------------------------------------------------------
(* The other two census programs, over the same threads: ASCIICount, with the  *)
(* counters of every thread in private and the totals in summation, and        *)
(* ASCIICount2, with the variables of ASCIICountS but no mutex.                *)
CONSTANT Garbage

VARIABLES private, summation

Private == INSTANCE ASCIICount WITH count <- private

Racy == INSTANCE ASCIICount2

(* An instance repeats the definitions of the threads, which do not depend on  *)
(* its counters.                                                               *)
LEMMA PrivateThreads ==
    /\ Private!Threads = Threads
    /\ Private!CountingInit <=> CountingInit
    /\ \A t : Private!start(t) = start(t) /\ Private!end(t) = end(t)
    /\ Private!SectionsPartitionFile <=> SectionsPartitionFile
    /\ \A c, S : Private!Occurrences(c, S) = Occurrences(c, S)
BY DEF Private!Threads, Threads, Private!CountingInit, CountingInit,
       Private!start, start, Private!end, end, Private!quotient, quotient,
       Private!SectionsPartitionFile, SectionsPartitionFile,
       Private!Occurrences, Occurrences, Private!Cardinality, Cardinality

LEMMA PrivateSteps ==
    /\ Private!UsageError \/ Private!RefuseFile \/ Private!ReadFile \/ Private!CreateThread
          <=> UsageError \/ RefuseFile \/ ReadFile \/ CreateThread
    /\ \A t : Private!Join(t) <=> Join(t)
    /\ \A t, k, body : Private!LoopFrom(t, k, body) <=> LoopFrom(t, k, body)
    /\ Private!Exited <=> Exited
BY DEF Private!Threads, Threads, Private!start, start, Private!end, end,
       Private!quotient, quotient, Private!UsageError, UsageError,
       Private!RefuseFile, RefuseFile, Private!ReadFile, ReadFile,
       Private!CreateThread, CreateThread, Private!MainAdvance, MainAdvance,
       Private!Join, Join, Private!LoopFrom, LoopFrom,
       Private!Exited, Exited, Private!countingVars, countingVars

LEMMA RacyThreads ==
    /\ Racy!Threads = Threads
    /\ Racy!CountingInit <=> CountingInit
    /\ \A t : Racy!start(t) = start(t) /\ Racy!end(t) = end(t)
    /\ \A c, S : Racy!Occurrences(c, S) = Occurrences(c, S)
BY DEF Racy!Threads, Threads, Racy!CountingInit, CountingInit,
       Racy!start, start, Racy!end, end, Racy!quotient, quotient,
       Racy!Occurrences, Occurrences, Racy!Cardinality, Cardinality

LEMMA RacySteps ==
    /\ Racy!UsageError \/ Racy!RefuseFile \/ Racy!ReadFile \/ Racy!CreateThread
          <=> UsageError \/ RefuseFile \/ ReadFile \/ CreateThread
    /\ \A t : Racy!Join(t) <=> Join(t)
    /\ \A t, k, body : Racy!LoopFrom(t, k, body) <=> LoopFrom(t, k, body)
    /\ \A t, label : Racy!GoTo(t, label) <=> GoTo(t, label)
    /\ Racy!Exited <=> Exited
BY DEF Racy!Threads, Threads, Racy!start, start, Racy!end, end,
       Racy!quotient, quotient, Racy!UsageError, UsageError,
       Racy!RefuseFile, RefuseFile, Racy!ReadFile, ReadFile,
       Racy!CreateThread, CreateThread, Racy!MainAdvance, MainAdvance,
       Racy!Join, Join, Racy!LoopFrom, LoopFrom, Racy!GoTo, GoTo,
       Racy!Exited, Exited, Racy!countingVars, countingVars

(* Occurrences in no byte, in finitely many, in more of them and in two parts. *)
LEMMA OccurrencesParts ==
    ASSUME NEW c, NEW S, IsFiniteSet(S), NEW T, IsFiniteSet(T)
    PROVE  /\ Occurrences(c, {}) = 0
           /\ Occurrences(c, S) \in Nat
           /\ S \subseteq T => Occurrences(c, S) <= Occurrences(c, T)
           /\ S \cap T = {} => Occurrences(c, S \cup T) = Occurrences(c, S) + Occurrences(c, T)
<1>1. /\ IsFiniteSet(WithChar(c, S)) /\ Cardinality(WithChar(c, S)) \in Nat
      /\ IsFiniteSet(WithChar(c, T)) /\ Cardinality(WithChar(c, T)) \in Nat
  <2>1. WithChar(c, S) \subseteq S /\ WithChar(c, T) \subseteq T
    BY DEF WithChar
  <2> QED
    BY <2>1, FS_Subset, FS_CardinalityType
<1>2. \A R : Occurrences(c, R) = Cardinality(WithChar(c, R))
  BY DEF Occurrences, WithChar
<1>3. WithChar(c, {}) = {} /\ Cardinality({}) = 0
  BY FS_EmptySet DEF WithChar
<1>4. ASSUME S \subseteq T PROVE Occurrences(c, S) <= Occurrences(c, T)
  <2>1. WithChar(c, S) \subseteq WithChar(c, T)
    BY <1>4 DEF WithChar
  <2> QED
    BY <1>1, <1>2, <2>1, FS_Subset
<1>5. ASSUME S \cap T = {}
      PROVE  Occurrences(c, S \cup T) = Occurrences(c, S) + Occurrences(c, T)
  <2>1. /\ WithChar(c, S \cup T) = WithChar(c, S) \cup WithChar(c, T)
        /\ WithChar(c, S) \cap WithChar(c, T) = {}
    BY <1>5 DEF WithChar
  <2>2. Cardinality(WithChar(c, S) \cup WithChar(c, T)) =
          Cardinality(WithChar(c, S)) + Cardinality(WithChar(c, T)) - Cardinality({})
    BY <1>1, <2>1, FS_Union
  <2>3. Cardinality(WithChar(c, S)) + Cardinality(WithChar(c, T)) - Cardinality({}) =
          Cardinality(WithChar(c, S)) + Cardinality(WithChar(c, T))
    BY ONLY <1>1, <1>3
  <2> QED
    BY ONLY <1>2, <2>1, <2>2, <2>3
<1> QED
  BY <1>1, <1>2, <1>3, <1>4, <1>5

-------------------------------------------------------------------------------
(* Private counters.  A thread has counted its section up to its index, and    *)
(* main has added up the sections of the threads it has joined.                *)
Joined(t) == mainPc = "printed" \/ (mainPc = "join" /\ t < mainThread)

JoinedBytes == UNION {start(t) .. end(t) : t \in {u \in Threads : Joined(u)}}

Seen(t) == start(t) .. index[t] - 1

OwnSections ==
    \A t \in Threads : pc[t] \notin {"unborn", "start"} =>
        \A c \in Chars : private[t][c] = Occurrences(c, Seen(t))

Totals == \A c \in Chars : summation[c] = Occurrences(c, JoinedBytes)

PrivateInv ==
    /\ Running({"count"})
    /\ private \in [Threads -> [Chars -> Nat \cup {Garbage}]]
    /\ summation \in [Chars -> Nat]
    /\ OwnSections
    /\ Totals

LEMMA CountIsInside == {"count"} \cap Outside = {}
BY DEF Outside

(* What it is for: the totals that a run checks are those of Totals.           *)
LEMMA TotalsAreExact ==
    ASSUME PrivateInv PROVE Private!CensusSound
<1>1. \A t : Private!Joined(t) <=> Joined(t)
  BY DEF Private!Joined, Joined
<1>2. {u \in Private!Threads : Private!Joined(u)} = {u \in Threads : Joined(u)}
  BY <1>1, PrivateThreads
<1>3. UNION {Private!start(t) .. Private!end(t) : t \in {u \in Private!Threads : Private!Joined(u)}}
        = JoinedBytes
  BY <1>2, PrivateThreads DEF JoinedBytes
<1>4. Private!SummationExact
  BY <1>3, PrivateThreads DEF Private!SummationExact, PrivateInv, Totals
<1>5. Private!SectionsPartitionFile
  BY PartitionCorrect, PrivateThreads DEF PrivateInv, Running, CountingTypeOK
<1> QED
  BY <1>4, <1>5 DEF Private!CensusSound

(* The bytes of a section and of the joined sections, finitely many.           *)
LEMMA SectionsFinite ==
    ASSUME size \in Int, size >= -1
    PROVE  /\ \A t \in Threads : IsFiniteSet(start(t) .. end(t))
           /\ IsFiniteSet(JoinedBytes) /\ JoinedBytes \subseteq 0 .. size
<1>1. \A t \in Threads : start(t) .. end(t) \subseteq 0 .. size
  BY SectionInsideFile
<1>2. JoinedBytes \subseteq 0 .. size
  BY <1>1 DEF JoinedBytes
<1>3. IsFiniteSet(0 .. size)
  BY FS_Interval
<1> QED
  BY <1>1, <1>2, <1>3, FS_Subset

(* A step that leaves the bytes, the counters and the totals alone keeps what  *)
(* they say of the threads that are in the loop before and after.              *)
LEMMA NothingSeen ==
    ASSUME PrivateInv, UNCHANGED <<size, buffer, private, summation, index>>,
           Running({"count"})',
           \A t \in Threads : Joined(t)' = Joined(t),
           \A t \in Threads : pc'[t] \notin {"unborn", "start"} => pc'[t] = pc[t]
    PROVE  PrivateInv'
<1>1. \A t : start(t)' = start(t) /\ end(t)' = end(t)
  BY DEF start, end, quotient
<1>2. JoinedBytes' = JoinedBytes
  BY <1>1 DEF JoinedBytes
<1>3. OwnSections'
  BY <1>1 DEF PrivateInv, OwnSections, Occurrences, Seen
<1>4. Totals'
  BY <1>2 DEF PrivateInv, Totals, Occurrences
<1> QED
  BY <1>3, <1>4 DEF PrivateInv

(* A thread clears its counters (99-100) before it looks at a byte.            *)
LEMMA PrivateStart ==
    ASSUME PrivateInv, NEW t \in Threads, Private!RunnerStart(t)
    PROVE  PrivateInv'
<1>1. /\ size \in Int /\ size >= -1
      /\ pc \in [Threads -> {"unborn", "start", "count", "done"}]
      /\ index \in [Threads -> Int]
      /\ Running({"count"})
  BY DEF PrivateInv, Running, CountingTypeOK
<1>2. /\ pc[t] = "start" /\ LoopFrom(t, start(t), "count") /\ UNCHANGED summation
      /\ private' = [private EXCEPT ![t] = [c \in Chars |-> 0]]
  BY PrivateThreads, PrivateSteps DEF Private!RunnerStart
<1>3. /\ UNCHANGED <<size, buffer, mainPc, mainThread>>
      /\ index' = [index EXCEPT ![t] = start(t)]
      /\ \A u \in Threads : u # t => pc'[u] = pc[u]
  BY <1>1, <1>2 DEF LoopFrom
<1>4. \A u : start(u)' = start(u) /\ end(u)' = end(u)
  BY <1>3 DEF start, end, quotient
<1>5. start(t) \in Int /\ start(t) <= end(t) + 1
  BY <1>1, SectionBounds
<1>6. Running({"count"})'
  BY <1>1, <1>2, <1>5, CountIsInside, LoopRuns
<1>7. OwnSections'
  <2>1. ASSUME NEW u \in Threads, pc'[u] \notin {"unborn", "start"}, NEW c \in Chars
        PROVE  private'[u][c] = Occurrences(c, Seen(u))'
    <3>1. CASE u = t
      <4>1. Seen(u)' = {}
        BY <1>1, <1>3, <1>4, <1>5, <3>1 DEF Seen
      <4>2. Occurrences(c, {}) = 0
        BY OccurrencesParts, FS_EmptySet
      <4>3. Occurrences(c, Seen(u))' = 0
        BY <1>3, <4>1, <4>2 DEF Occurrences
      <4> QED
        BY <1>2, <3>1, <4>3 DEF PrivateInv
    <3>2. CASE u # t
      <4>1. Seen(u)' = Seen(u)
        BY <1>1, <1>3, <1>4, <3>2 DEF Seen
      <4>2. Occurrences(c, Seen(u))' = Occurrences(c, Seen(u))
        BY <1>3, <4>1 DEF Occurrences
      <4>3. private[u][c] = Occurrences(c, Seen(u))
        BY <1>3, <2>1, <3>2 DEF PrivateInv, OwnSections
      <4> QED
        BY <1>2, <3>2, <4>2, <4>3 DEF PrivateInv
    <3> QED
      BY <3>1, <3>2
  <2> QED
    BY <2>1 DEF OwnSections
<1>8. Totals'
  <2>1. JoinedBytes' = JoinedBytes
    BY <1>3, <1>4 DEF JoinedBytes, Joined
  <2> QED
    BY <1>2, <1>3, <2>1 DEF PrivateInv, Totals, Occurrences
<1>9. private' \in [Threads -> [Chars -> Nat \cup {Garbage}]]
  BY <1>2 DEF PrivateInv
<1> QED
  BY <1>2, <1>6, <1>7, <1>8, <1>9 DEF PrivateInv

(* A thread counts the character at its index in counters of its own (106).    *)
LEMMA PrivateCount ==
    ASSUME PrivateInv, NEW t \in Threads, Private!CountChar(t)
    PROVE  PrivateInv'
<1> DEFINE k == index[t]
<1>1. /\ size \in Int /\ size >= -1
      /\ pc \in [Threads -> {"unborn", "start", "count", "done"}]
      /\ index \in [Threads -> Int]
      /\ buffer \in [0 .. size -> Chars]
      /\ Running({"count"})
  BY DEF PrivateInv, Running, CountingTypeOK
<1>2. /\ pc[t] = "count" /\ LoopFrom(t, k + 1, "count") /\ UNCHANGED summation
      /\ private' = [private EXCEPT ![t][buffer[k]] = @ + 1]
  BY PrivateSteps DEF Private!CountChar
<1>3. /\ UNCHANGED <<size, buffer, mainPc, mainThread>>
      /\ index' = [index EXCEPT ![t] = k + 1]
      /\ \A u \in Threads : u # t => pc'[u] = pc[u]
  BY <1>1, <1>2 DEF LoopFrom
<1>4. \A u : start(u)' = start(u) /\ end(u)' = end(u)
  BY <1>3 DEF start, end, quotient
<1>5. /\ start(t) \in Int /\ end(t) \in Int
      /\ k \in start(t) .. end(t) /\ k \in 0 .. size /\ buffer[k] \in Chars
  <2>1. k \in start(t) .. end(t)
    BY <1>1, <1>2 DEF Running
  <2> QED
    BY <1>1, <2>1, SectionBounds, SectionInsideFile
<1>6. Running({"count"})'
  <2>1. k + 1 \in Int /\ start(t) <= k + 1 /\ k + 1 <= end(t) + 1
    BY <1>5
  <2> QED
    BY <1>1, <1>2, <2>1, CountIsInside, LoopRuns
<1>7. \A c \in Chars : private[t][c] = Occurrences(c, Seen(t))
  BY <1>2 DEF PrivateInv, OwnSections
<1>8. Seen(t)' = Seen(t) \cup {k} /\ k \notin Seen(t) /\ IsFiniteSet(Seen(t))
  <2>1. Seen(t) = start(t) .. k - 1
    BY DEF Seen
  <2>2. Seen(t)' = start(t) .. k
    <3>1. index'[t] = k + 1
      BY <1>1, <1>3
    <3>2. (k + 1) - 1 = k
      BY <1>5
    <3> QED
      BY <1>4, <3>1, <3>2 DEF Seen
  <2>3. IsFiniteSet(start(t) .. k - 1)
    BY <1>5, FS_Interval
  <2> QED
    BY <1>5, <2>1, <2>2, <2>3
<1> HIDE DEF k
<1>9. ASSUME NEW c \in Chars PROVE private'[t][c] = Occurrences(c, Seen(t))'
  <2>1. Occurrences(c, Seen(t))' = Occurrences(c, Seen(t) \cup {k})
    BY <1>3, <1>8 DEF Occurrences
  <2>2. Occurrences(c, Seen(t) \cup {k}) =
          IF buffer[k] = c THEN private[t][c] + 1 ELSE private[t][c]
    BY <1>7, <1>8, OneMoreByte
  <2>3. private'[t] = [private[t] EXCEPT ![buffer[k]] = @ + 1]
    BY <1>2 DEF PrivateInv
  <2> QED
    BY <2>1, <2>2, <2>3 DEF PrivateInv
<1>10. OwnSections'
  <2>1. ASSUME NEW u \in Threads, u # t, pc'[u] \notin {"unborn", "start"}, NEW c \in Chars
        PROVE  private'[u][c] = Occurrences(c, Seen(u))'
    <3>1. Seen(u)' = Seen(u)
      BY <1>1, <1>3, <1>4, <2>1 DEF Seen
    <3>2. Occurrences(c, Seen(u))' = Occurrences(c, Seen(u))
      BY <1>3, <3>1 DEF Occurrences
    <3>3. private[u][c] = Occurrences(c, Seen(u))
      BY <1>3, <2>1 DEF PrivateInv, OwnSections
    <3>4. private'[u] = private[u]
      BY <1>2, <2>1 DEF PrivateInv
    <3> QED
      BY <3>2, <3>3, <3>4
  <2> QED
    BY <1>9, <2>1 DEF OwnSections
<1>11. Totals'
  <2>1. JoinedBytes' = JoinedBytes
    BY <1>3, <1>4 DEF JoinedBytes, Joined
  <2> QED
    BY <1>2, <1>3, <2>1 DEF PrivateInv, Totals, Occurrences
<1>12. private' \in [Threads -> [Chars -> Nat \cup {Garbage}]]
  <2>1. private[t] \in [Chars -> Nat \cup {Garbage}]
    BY DEF PrivateInv
  <2>2. private[t][buffer[k]] + 1 \in Nat
    BY <1>5, <1>7, <1>8, OccurrencesParts
  <2>3. [private[t] EXCEPT ![buffer[k]] = @ + 1] \in [Chars -> Nat \cup {Garbage}]
    BY <2>1, <2>2
  <2> QED
    BY <1>2, <2>3 DEF PrivateInv
<1> QED
  BY <1>2, <1>6, <1>10, <1>11, <1>12 DEF PrivateInv

(* main adds the counters of a thread it has joined (69-73).                   *)
LEMMA PrivateJoin ==
    ASSUME PrivateInv, NEW t \in Threads, Private!JoinAndAdd(t)
    PROVE  PrivateInv'
<1>1. /\ size \in Int /\ size >= -1
      /\ index \in [Threads -> Int] /\ Running({"count"})
  BY DEF PrivateInv, Running, CountingTypeOK
<1>2. /\ Join(t) /\ UNCHANGED private
      /\ summation' = [c \in Chars |-> summation[c] + private[t][c]]
  BY PrivateSteps DEF Private!JoinAndAdd
<1>3. /\ UNCHANGED <<size, buffer, pc, index>>
      /\ mainPc = "join" /\ mainThread = t /\ pc[t] = "done" /\ MainAdvance("printed")
  BY <1>2 DEF Join
<1>4. \A u : start(u)' = start(u) /\ end(u)' = end(u)
  BY <1>3 DEF start, end, quotient
<1>5. Running({"count"})'
  BY <1>1, <1>2, CountIsInside, MainRuns DEF MainStep
<1>6. \A u \in Threads : Joined(u)' <=> Joined(u) \/ u = t
  <2>1. t \in Nat /\ Threads \subseteq Nat
    BY ThreadNumbers
  <2>2. CASE t + 1 \in Threads
    BY <1>3, <2>1, <2>2 DEF Joined, MainAdvance
  <2>3. CASE t + 1 \notin Threads
    <3>1. \A u \in Threads : u < t \/ u = t
      BY <2>1, <2>3, ThreadNumbers DEF Threads
    <3> QED
      BY <1>3, <2>3, <3>1 DEF Joined, MainAdvance
  <2> QED
    BY <2>2, <2>3
<1>7. JoinedBytes' = JoinedBytes \cup (start(t) .. end(t))
  BY <1>4, <1>6 DEF JoinedBytes
<1>8. JoinedBytes \cap (start(t) .. end(t)) = {}
  <2>1. ASSUME NEW u \in Threads, Joined(u)
        PROVE  (start(u) .. end(u)) \cap (start(t) .. end(t)) = {}
    <3>1. u < t
      BY <1>3, <2>1 DEF Joined
    <3>2. end(u) < start(t)
      BY <1>1, <3>1, SectionsDisjoint
    <3>3. end(u) \in Int /\ start(t) \in Int
      BY <1>1, SectionBounds
    <3> QED
      BY <3>2, <3>3
  <2> QED
    BY <2>1 DEF JoinedBytes
<1>9. Seen(t) = start(t) .. end(t)
  <2>1. index[t] = end(t) + 1 /\ end(t) \in Int
    BY <1>1, <1>3, SectionBounds DEF Running, FinishedSections
  <2> QED
    BY <2>1 DEF Seen
<1>10. ASSUME NEW c \in Chars
       PROVE  summation'[c] = Occurrences(c, JoinedBytes)' /\ summation'[c] \in Nat
  <2>1. private[t][c] = Occurrences(c, start(t) .. end(t))
    BY <1>3, <1>9 DEF PrivateInv, OwnSections
  <2>2. summation[c] = Occurrences(c, JoinedBytes)
    BY DEF PrivateInv, Totals
  <2>3. /\ Occurrences(c, JoinedBytes \cup (start(t) .. end(t))) = summation[c] + private[t][c]
        /\ summation[c] \in Nat /\ private[t][c] \in Nat
    <3>1. IsFiniteSet(JoinedBytes) /\ IsFiniteSet(start(t) .. end(t))
      BY <1>1, SectionsFinite
    <3>2. /\ Occurrences(c, JoinedBytes \cup (start(t) .. end(t))) =
               Occurrences(c, JoinedBytes) + Occurrences(c, start(t) .. end(t))
          /\ Occurrences(c, JoinedBytes) \in Nat
          /\ Occurrences(c, start(t) .. end(t)) \in Nat
      BY <1>8, <3>1, OccurrencesParts
    <3> QED
      BY <2>1, <2>2, <3>2
  <2>4. Occurrences(c, JoinedBytes)' = Occurrences(c, JoinedBytes \cup (start(t) .. end(t)))
    BY <1>3, <1>7 DEF Occurrences
  <2> QED
    BY <1>2, <2>3, <2>4
<1>11. OwnSections'
  BY <1>2, <1>3, <1>4 DEF PrivateInv, OwnSections, Seen, Occurrences
<1>12. summation' \in [Chars -> Nat]
  BY <1>2, <1>10
<1> QED
  BY <1>2, <1>5, <1>10, <1>11, <1>12 DEF PrivateInv, Totals

(* ASCIICount: whatever the file, the number of threads, their interleaving    *)
(* and the garbage the counters start with, main's totals are exact for the    *)
(* threads it has joined, in the end for the whole file (66-80).               *)
THEOREM PrivateCountersExact == Private!Spec => []Private!CensusSound
<1>1. Private!Init => PrivateInv
  <2> SUFFICES ASSUME Private!Init PROVE PrivateInv
    OBVIOUS
  <2>1. CountingInit
    BY PrivateThreads DEF Private!Init
  <2>2. Running({"count"})
    BY <2>1, CountIsInside, RunningStarts
  <2>3. /\ private = [t \in Threads |-> [c \in Chars |-> Garbage]]
        /\ summation = [c \in Chars |-> 0]
    BY PrivateThreads DEF Private!Init
  <2>4. OwnSections
    BY <2>1 DEF CountingInit, OwnSections
  <2>5. JoinedBytes = {}
    BY <2>1 DEF CountingInit, JoinedBytes, Joined
  <2>6. Totals
    BY <2>3, <2>5, FS_EmptySet, OccurrencesParts DEF Totals
  <2> QED
    BY <2>2, <2>3, <2>4, <2>6 DEF PrivateInv
<1>2. PrivateInv /\ [Private!Next]_(Private!vars) => PrivateInv'
  <2> SUFFICES ASSUME PrivateInv, [Private!Next]_(Private!vars) PROVE PrivateInv'
    OBVIOUS
  <2>1. Running({"count"}) /\ mainThread \in Threads /\ pc \in [Threads -> {"unborn", "start", "count", "done"}]
    BY DEF PrivateInv, Running, CountingTypeOK
  <2>2. CASE Private!Prepare
    <3>1. /\ UsageError \/ RefuseFile \/ ReadFile \/ CreateThread
          /\ UNCHANGED <<private, summation>>
      BY <2>2, PrivateSteps DEF Private!Prepare
    <3>2. Running({"count"})'
      BY <2>1, <3>1, CountIsInside, MainRuns DEF MainStep
    <3>3. /\ UNCHANGED <<size, buffer, index>>
          /\ \A t \in Threads : pc'[t] = pc[t] \/ pc'[t] = "start"
      BY <2>1, <3>1 DEF UsageError, RefuseFile, ReadFile, CreateThread
    <3>4. \A t \in Threads : ~Joined(t) /\ ~Joined(t)'
      <4>1. CASE UsageError \/ RefuseFile \/ ReadFile
        BY <4>1 DEF UsageError, RefuseFile, ReadFile, Joined
      <4>2. CASE CreateThread
        <5>1. /\ mainPc = "create"
              /\ mainPc' = "create" \/ (mainPc' = "join" /\ mainThread' = 0)
          BY <4>2 DEF CreateThread, MainAdvance
        <5>2. \A t \in Threads : ~(t < 0)
          BY ThreadNumbers
        <5> QED
          BY <5>1, <5>2 DEF Joined
      <4> QED
        BY <3>1, <4>1, <4>2
    <3>5. \A t \in Threads : Joined(t)' = Joined(t)
      BY <3>4 DEF Joined
    <3> QED
      BY <3>1, <3>2, <3>3, <3>5, NothingSeen
  <2>3. ASSUME NEW t \in Threads, Private!JoinAndAdd(t) PROVE PrivateInv'
    BY <2>3, PrivateJoin
  <2>4. ASSUME NEW t \in Threads, Private!runner(t) PROVE PrivateInv'
    BY <2>4, PrivateStart, PrivateCount DEF Private!runner
  <2>5. CASE UNCHANGED <<countingVars, private, summation>>
    <3>1. Running({"count"})'
      BY <2>1, <2>5, NothingRuns
    <3>2. /\ UNCHANGED <<size, buffer, private, summation, index, pc>>
          /\ \A t \in Threads : Joined(t)' = Joined(t)
      BY <2>5 DEF countingVars, Joined
    <3> QED
      BY <3>1, <3>2, NothingSeen
  <2>6. Private!Exited => UNCHANGED countingVars
    BY PrivateSteps DEF Exited
  <2>7. Private!Next \/ UNCHANGED <<countingVars, private, summation>>
    BY DEF Private!vars, Private!countingVars, countingVars
  <2>8. CASE Private!Next
    <3>1. \/ Private!Prepare
          \/ \E t \in Threads : Private!JoinAndAdd(t)
          \/ \E t \in Threads : Private!runner(t)
          \/ Private!Exited /\ UNCHANGED <<private, summation>>
      BY <2>8, PrivateThreads DEF Private!Next, Private!Main
    <3> QED
      BY <2>2, <2>3, <2>4, <2>5, <2>6, <3>1
  <2> QED
    BY <2>5, <2>7, <2>8
<1> QED
  BY <1>1, <1>2, TotalsAreExact, PTL DEF Private!Spec

-------------------------------------------------------------------------------
(* Shared counters without a mutex.  A thread may write back an old value, but *)
(* the one it read was not above the occurrences in the bytes gone through     *)
(* then, and the byte it adds is not yet one of them.                          *)
ReadWrite == {"read", "write"}

GoneThrough(t) == IF pc[t] \in {"unborn", "start"} THEN {} ELSE Seen(t)

SeenBytes == UNION {GoneThrough(t) : t \in Threads}

RacyInv ==
    /\ Running(ReadWrite)
    /\ count \in [Chars -> Nat]
    /\ register \in [Threads -> Nat]
    /\ \A c \in Chars : count[c] <= Occurrences(c, SeenBytes)
    /\ \A t \in Threads : pc[t] = "write" =>
          register[t] <= Occurrences(buffer[index[t]], SeenBytes)

LEMMA ReadWriteIsInside == ReadWrite \cap Outside = {}
BY DEF ReadWrite, Outside

(* What the type of the threads says of one of them.                           *)
LEMMA RacyTypes ==
    ASSUME Running(ReadWrite)
    PROVE  /\ size \in Int /\ size >= -1
           /\ pc \in [Threads -> {"unborn", "start", "read", "write", "done"}]
           /\ index \in [Threads -> Int]
           /\ buffer \in [0 .. size -> Chars]
           /\ mainThread \in Threads
           /\ mainPc = "create" => pc[mainThread] = "unborn"
           /\ \A t \in Threads : pc[t] \in ReadWrite =>
                 /\ index[t] \in start(t) .. end(t)
                 /\ index[t] \in 0 .. size
                 /\ buffer[index[t]] \in Chars
<1>1. /\ size \in Int /\ size >= -1
      /\ pc \in [Threads -> {"unborn", "start", "read", "write", "done"}]
      /\ index \in [Threads -> Int]
      /\ buffer \in [0 .. size -> Chars]
      /\ mainThread \in Threads
  BY DEF Running, CountingTypeOK, ReadWrite
<1>2. mainPc = "create" => pc[mainThread] = "unborn"
  BY <1>1, ThreadNumbers DEF Running, StartedAndJoinedInOrder
<1>3. ASSUME NEW t \in Threads, pc[t] \in ReadWrite
      PROVE  /\ index[t] \in start(t) .. end(t)
             /\ index[t] \in 0 .. size
             /\ buffer[index[t]] \in Chars
  <2>1. index[t] \in start(t) .. end(t)
    BY <1>3 DEF Running
  <2>2. index[t] \in 0 .. size
    BY <1>1, <2>1, SectionInsideFile
  <2> QED
    BY <1>1, <2>1, <2>2
<1> QED
  BY <1>1, <1>2, <1>3

(* The bytes gone through are in the sections, finitely many.                  *)
LEMMA SeenInFile ==
    ASSUME Running(ReadWrite)
    PROVE  /\ \A t \in Threads : GoneThrough(t) \subseteq start(t) .. end(t)
           /\ SeenBytes \subseteq 0 .. size
           /\ IsFiniteSet(SeenBytes) /\ IsFiniteSet(0 .. size)
<1>1. size \in Int /\ size >= -1
  BY RacyTypes
<1>2. ASSUME NEW t \in Threads PROVE GoneThrough(t) \subseteq start(t) .. end(t)
  <2>1. start(t) \in Int /\ end(t) \in Int /\ index[t] \in Int
    BY <1>1, RacyTypes, SectionBounds
  <2>2. pc[t] \in {"unborn", "start", "read", "write", "done"}
    BY RacyTypes
  <2>3. pc[t] \in ReadWrite => index[t] \in start(t) .. end(t)
    BY RacyTypes
  <2>4. pc[t] = "done" => index[t] = end(t) + 1
    BY DEF Running, FinishedSections
  <2>5. pc[t] \in {"read", "write", "done"} => index[t] - 1 <= end(t)
    BY <2>1, <2>3, <2>4 DEF ReadWrite
  <2> QED
    BY <2>1, <2>2, <2>5 DEF GoneThrough, Seen
<1>3. SeenBytes \subseteq 0 .. size
  BY <1>1, <1>2, SectionInsideFile DEF SeenBytes
<1>4. IsFiniteSet(0 .. size)
  BY <1>1, FS_Interval
<1> QED
  BY <1>2, <1>3, <1>4, FS_Subset

(* What it is for.                                                             *)
LEMMA RacyNeverOvercounts ==
    ASSUME RacyInv PROVE Racy!NeverOvercounts
<1> SUFFICES ASSUME NEW c \in Chars PROVE count[c] <= Occurrences(c, 0 .. size)
  BY RacyThreads DEF Racy!NeverOvercounts
<1>1. count[c] <= Occurrences(c, SeenBytes) /\ count[c] \in Nat
  BY DEF RacyInv
<1>2. /\ Occurrences(c, SeenBytes) <= Occurrences(c, 0 .. size)
      /\ Occurrences(c, SeenBytes) \in Nat /\ Occurrences(c, 0 .. size) \in Nat
  BY SeenInFile, OccurrencesParts DEF RacyInv
<1> QED
  BY <1>1, <1>2

(* A step that goes through no byte and writes no counter.                     *)
LEMMA NothingRaced ==
    ASSUME RacyInv, UNCHANGED <<size, buffer, count>>, Running(ReadWrite)',
           register' \in [Threads -> Nat],
           \A t \in Threads : GoneThrough(t)' = GoneThrough(t),
           \A t \in Threads : pc'[t] = "write" =>
               register'[t] <= Occurrences(buffer[index'[t]], SeenBytes)
    PROVE  RacyInv'
<1>1. SeenBytes' = SeenBytes
  BY DEF SeenBytes
<1> QED
  BY <1>1 DEF RacyInv, Occurrences

(* The write of line 92.                                                       *)
LEMMA RacyWrite ==
    ASSUME RacyInv, NEW t \in Threads, Racy!WriteCount(t)
    PROVE  RacyInv'
<1> DEFINE k == index[t]
<1>1. Running(ReadWrite) /\ register \in [Threads -> Nat] /\ count \in [Chars -> Nat]
  BY DEF RacyInv
<1>2. /\ pc[t] = "write" /\ LoopFrom(t, k + 1, "read") /\ UNCHANGED register
      /\ count' = [count EXCEPT ![buffer[k]] = register[t] + 1]
  BY RacySteps DEF Racy!WriteCount
<1>3. /\ UNCHANGED <<size, buffer>>
      /\ index' = [index EXCEPT ![t] = k + 1]
      /\ pc' = [pc EXCEPT ![t] = IF k + 1 <= end(t) THEN "read" ELSE "done"]
  BY <1>2 DEF LoopFrom
<1>4. \A u : start(u)' = start(u) /\ end(u)' = end(u)
  BY <1>3 DEF start, end, quotient
<1>5. /\ start(t) \in Int /\ end(t) \in Int
      /\ k \in start(t) .. end(t) /\ k \in 0 .. size /\ buffer[k] \in Chars
  BY <1>1, <1>2, RacyTypes, SectionBounds DEF ReadWrite
<1>6. Running(ReadWrite)'
  <2>1. k + 1 \in Int /\ start(t) <= k + 1 /\ k + 1 <= end(t) + 1
    BY <1>5
  <2> QED
    BY <1>1, <1>2, <2>1, ReadWriteIsInside, LoopRuns DEF ReadWrite
<1>7. k \notin SeenBytes
  <2>1. k \notin GoneThrough(t)
    BY <1>5 DEF GoneThrough, Seen
  <2>2. ASSUME NEW u \in Threads, u # t PROVE k \notin GoneThrough(u)
    <3>1. GoneThrough(u) \subseteq start(u) .. end(u)
      BY <1>1, SeenInFile
    <3>2. end(t) < start(u) \/ end(u) < start(t)
      <4>1. t < u \/ u < t
        BY <2>2, ThreadNumbers
      <4> QED
        BY <1>1, <4>1, RacyTypes, SectionsDisjoint
    <3>3. start(u) \in Int /\ end(u) \in Int
      BY <1>1, RacyTypes, SectionBounds
    <3> QED
      BY <1>5, <3>1, <3>2, <3>3
  <2> QED
    BY <2>1, <2>2 DEF SeenBytes
<1>8. SeenBytes' = SeenBytes \cup {k}
  <2>1. GoneThrough(t)' = GoneThrough(t) \cup {k}
    <3>1. pc'[t] \notin {"unborn", "start"} /\ index'[t] = k + 1
      BY <1>1, <1>3, RacyTypes
    <3>2. GoneThrough(t) = start(t) .. k - 1
      BY <1>2 DEF GoneThrough, Seen
    <3>3. (k + 1) - 1 = k
      BY <1>5
    <3>4. GoneThrough(t)' = start(t) .. k
      BY <1>4, <3>1, <3>3 DEF GoneThrough, Seen
    <3> QED
      BY <1>5, <3>2, <3>4
  <2>2. \A u \in Threads : u # t => GoneThrough(u)' = GoneThrough(u)
    BY <1>1, <1>3, <1>4, RacyTypes DEF GoneThrough, Seen
  <2> QED
    BY <2>1, <2>2 DEF SeenBytes
<1>9. IsFiniteSet(SeenBytes)
  BY <1>1, SeenInFile
<1>10. register[t] <= Occurrences(buffer[k], SeenBytes) /\ register[t] \in Nat
  BY <1>1, <1>2 DEF RacyInv
<1> HIDE DEF k
<1>11. ASSUME NEW c \in Chars
       PROVE  /\ Occurrences(c, SeenBytes)' =
                    IF buffer[k] = c THEN Occurrences(c, SeenBytes) + 1
                    ELSE Occurrences(c, SeenBytes)
              /\ Occurrences(c, SeenBytes) \in Nat
  <2>1. Occurrences(c, SeenBytes)' = Occurrences(c, SeenBytes \cup {k})
    BY <1>3, <1>8 DEF Occurrences
  <2>2. Occurrences(c, SeenBytes) \in Nat
    BY <1>9, OccurrencesParts
  <2> QED
    BY <1>7, <1>9, <2>1, <2>2, OneMoreByte
<1>12. ASSUME NEW c \in Chars PROVE count'[c] <= Occurrences(c, SeenBytes)'
  <2>1. CASE buffer[k] = c
    <3>1. count'[c] = register[t] + 1
      BY <1>1, <1>2, <1>5, <2>1
    <3> QED
      BY <1>10, <1>11, <2>1, <3>1
  <2>2. CASE buffer[k] # c
    <3>1. count'[c] = count[c] /\ count[c] <= Occurrences(c, SeenBytes)
      BY <1>1, <1>2, <2>2 DEF RacyInv
    <3> QED
      BY <1>11, <2>2, <3>1
  <2> QED
    BY <2>1, <2>2
<1>13. ASSUME NEW u \in Threads, pc'[u] = "write"
       PROVE  register'[u] <= Occurrences(buffer[index[u]], SeenBytes)' /\ index'[u] = index[u]
  <2>1. u # t
    BY <1>1, <1>3, <1>13, RacyTypes
  <2>2. pc[u] = "write" /\ index'[u] = index[u]
    BY <1>1, <1>3, <1>13, <2>1, RacyTypes
  <2>3. PICK c \in Chars : c = buffer[index[u]]
    BY <1>1, <2>2, RacyTypes DEF ReadWrite
  <2>4. register[u] <= Occurrences(c, SeenBytes) /\ register[u] \in Nat
    BY <1>1, <2>2, <2>3 DEF RacyInv
  <2>5. register[u] <= Occurrences(c, SeenBytes)'
    BY <1>11, <2>4
  <2>6. Occurrences(buffer[index[u]], SeenBytes)' = Occurrences(c, SeenBytes)'
    BY <1>3, <2>2, <2>3 DEF Occurrences
  <2> QED
    BY <1>2, <2>2, <2>5, <2>6
<1>14. \A u \in Threads : pc'[u] = "write" =>
          register'[u] <= Occurrences(buffer[index[u]], SeenBytes)'
  BY <1>13
<1>15. count' \in [Chars -> Nat]
  <2>1. register[t] + 1 \in Nat /\ count \in [Chars -> Nat]
    BY <1>1, <1>10
  <2>2. count' = [count EXCEPT ![buffer[k]] = register[t] + 1]
    BY <1>2
  <2> QED
    BY ONLY <2>1, <2>2
<1> QED
  BY <1>1, <1>2, <1>6, <1>12, <1>14, <1>15 DEF RacyInv

(* ASCIICount2: increments may be lost, but in no interleaving does a counter  *)
(* exceed the occurrences of its character in the file (90-95).                *)
THEOREM RacyCountersBounded == Racy!Spec => []Racy!NeverOvercounts
<1>1. Racy!Init => RacyInv
  <2> SUFFICES ASSUME Racy!Init PROVE RacyInv
    OBVIOUS
  <2>1. /\ CountingInit
        /\ count = [c \in Chars |-> 0]
        /\ register = [t \in Threads |-> 0]
    BY RacyThreads DEF Racy!Init
  <2>2. Running(ReadWrite)
    BY <2>1, ReadWriteIsInside, RunningStarts
  <2>3. \A c \in Chars : count[c] <= Occurrences(c, SeenBytes)
    <3> SUFFICES ASSUME NEW c \in Chars PROVE count[c] <= Occurrences(c, SeenBytes)
      OBVIOUS
    <3>1. Occurrences(c, SeenBytes) \in Nat
      BY <2>2, SeenInFile, OccurrencesParts
    <3> QED
      BY <2>1, <3>1
  <2>4. \A t \in Threads : pc[t] # "write"
    BY <2>1 DEF CountingInit
  <2> QED
    BY <2>1, <2>2, <2>3, <2>4 DEF RacyInv
<1>2. RacyInv /\ [Racy!Next]_(Racy!vars) => RacyInv'
  <2> SUFFICES ASSUME RacyInv, [Racy!Next]_(Racy!vars) PROVE RacyInv'
    OBVIOUS
  <2>1. Running(ReadWrite) /\ register \in [Threads -> Nat] /\ count \in [Chars -> Nat]
    BY DEF RacyInv
  <2>2. \A t \in Threads : pc[t] = "write" =>
            register[t] <= Occurrences(buffer[index[t]], SeenBytes)
    BY DEF RacyInv
  <2>3. CASE Racy!Main
    <3>1. /\ MainStep
          /\ UNCHANGED <<count, register>>
      BY <2>3, RacySteps, RacyThreads DEF Racy!Main, MainStep
    <3>2. Running(ReadWrite)'
      BY <2>1, <3>1, ReadWriteIsInside, MainRuns
    <3>3. /\ UNCHANGED <<size, buffer, index>>
          /\ pc' = pc \/ (mainPc = "create" /\ pc' = [pc EXCEPT ![mainThread] = "start"])
      BY <3>1 DEF MainStep, UsageError, RefuseFile, ReadFile, CreateThread, Join
    <3>4. \A u : start(u)' = start(u)
      BY <3>3 DEF start, quotient
    <3>5. \A t \in Threads : GoneThrough(t)' = GoneThrough(t)
      BY <2>1, <3>3, <3>4, RacyTypes DEF GoneThrough, Seen
    <3>6. \A t \in Threads : pc'[t] = "write" => pc[t] = "write"
      BY <2>1, <3>3, RacyTypes
    <3> QED
      BY <2>1, <2>2, <3>1, <3>2, <3>3, <3>5, <3>6, NothingRaced
  <2>4. ASSUME NEW t \in Threads, Racy!RunnerStart(t) PROVE RacyInv'
    <3>1. pc[t] = "start" /\ LoopFrom(t, start(t), "read") /\ UNCHANGED <<count, register>>
      BY <2>4, RacySteps, RacyThreads DEF Racy!RunnerStart
    <3>2. start(t) \in Int /\ start(t) <= end(t) + 1
      BY <2>1, RacyTypes, SectionBounds
    <3>3. Running(ReadWrite)'
      BY <2>1, <3>1, <3>2, ReadWriteIsInside, LoopRuns DEF ReadWrite
    <3>4. /\ UNCHANGED <<size, buffer>>
          /\ index' = [index EXCEPT ![t] = start(t)]
          /\ pc' = [pc EXCEPT ![t] = IF start(t) <= end(t) THEN "read" ELSE "done"]
      BY <3>1 DEF LoopFrom
    <3>5. \A u : start(u)' = start(u)
      BY <3>4 DEF start, quotient
    <3>6. start(t) .. start(t) - 1 = {}
      BY <3>2
    <3>7. \A u \in Threads : GoneThrough(u)' = GoneThrough(u)
      BY <2>1, <3>1, <3>4, <3>5, <3>6, RacyTypes DEF GoneThrough, Seen
    <3>8. \A u \in Threads : pc'[u] = "write" => pc[u] = "write" /\ index'[u] = index[u]
      BY <2>1, <3>1, <3>4, RacyTypes
    <3> QED
      BY <2>1, <2>2, <3>1, <3>3, <3>4, <3>7, <3>8, NothingRaced
  <2>5. ASSUME NEW t \in Threads, Racy!ReadCount(t) PROVE RacyInv'
    <3>1. /\ pc[t] = "read" /\ GoTo(t, "write") /\ UNCHANGED count
          /\ register' = [register EXCEPT ![t] = count[buffer[index[t]]]]
      BY <2>5, RacySteps DEF Racy!ReadCount
    <3>2. Running(ReadWrite)'
      BY <2>1, <3>1, ReadWriteIsInside, BodyRuns DEF ReadWrite
    <3>3. /\ UNCHANGED <<size, buffer, index>>
          /\ pc' = [pc EXCEPT ![t] = "write"]
      BY <3>1 DEF GoTo
    <3>4. \A u : start(u)' = start(u)
      BY <3>3 DEF start, quotient
    <3>5. \A u \in Threads : GoneThrough(u)' = GoneThrough(u)
      BY <2>1, <3>1, <3>3, <3>4, RacyTypes DEF GoneThrough, Seen
    <3>6. buffer[index[t]] \in Chars
      BY <2>1, <3>1, RacyTypes DEF ReadWrite
    <3>7. /\ register' \in [Threads -> Nat]
          /\ register'[t] = count[buffer[index[t]]]
      BY <2>1, <3>1, <3>6
    <3>8. count[buffer[index[t]]] <= Occurrences(buffer[index[t]], SeenBytes)
      BY <3>6 DEF RacyInv
    <3>9. \A u \in Threads : pc'[u] = "write" =>
              register'[u] <= Occurrences(buffer[index'[u]], SeenBytes)
      <4>1. ASSUME NEW u \in Threads, u # t, pc'[u] = "write"
            PROVE  register'[u] = register[u] /\ pc[u] = "write"
        BY <2>1, <3>1, <3>3, <4>1, RacyTypes
      <4> QED
        BY <2>2, <3>3, <3>7, <3>8, <4>1
    <3> QED
      BY <2>1, <3>1, <3>2, <3>3, <3>5, <3>7, <3>9, NothingRaced
  <2>6. ASSUME NEW t \in Threads, Racy!WriteCount(t) PROVE RacyInv'
    BY <2>6, RacyWrite
  <2>7. CASE UNCHANGED <<countingVars, count, register>>
    <3>1. Running(ReadWrite)'
      BY <2>1, <2>7, NothingRuns
    <3>2. UNCHANGED <<size, buffer, pc, index, count, register>>
      BY <2>7 DEF countingVars
    <3>3. \A u \in Threads : GoneThrough(u)' = GoneThrough(u)
      BY <3>2 DEF GoneThrough, Seen, start, quotient
    <3> QED
      BY <2>1, <2>2, <3>1, <3>2, <3>3, NothingRaced
  <2>8. Racy!Next \/ UNCHANGED <<countingVars, count, register>>
    BY DEF Racy!vars, Racy!countingVars, countingVars
  <2>9. CASE Racy!Next
    <3>1. \/ Racy!Main
          \/ \E t \in Threads : Racy!RunnerStart(t)
          \/ \E t \in Threads : Racy!ReadCount(t)
          \/ \E t \in Threads : Racy!WriteCount(t)
          \/ UNCHANGED <<countingVars, count, register>>
      BY <2>9, RacyThreads, RacySteps DEF Racy!Next, Racy!runner, Exited
    <3> QED
      BY <2>3, <2>4, <2>5, <2>6, <2>7, <3>1
  <2> QED
    BY <2>7, <2>8, <2>9
<1> QED
  BY <1>1, <1>2, RacyNeverOvercounts, PTL DEF Racy!Spec

(* Together: private counters add up exactly to the census, and shared ones    *)
(* without a mutex never count a character that is not in the file.            *)
THEOREM CensusIsSound ==
    /\ Private!Spec => []Private!CensusSound
    /\ Racy!Spec => []Racy!NeverOvercounts
BY PrivateCountersExact, RacyCountersBounded

===============================================================================
