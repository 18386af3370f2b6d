--------------------------- MODULE ProConCodeProofs ---------------------------
(* Theorems about ProConCode, for every size of the ring and every number of   *)
(* producers, consumers and items.                                             *)
EXTENDS ProConCode, FiniteSetTheorems, SequenceTheorems, TLAPS

(* The numbering of the threads, from the arguments main has checked.          *)
LEMMA ThreadNumbers ==
    /\ Threads = Producers \cup Consumers
    /\ Producers \cap Consumers = {}
    /\ NoThread \notin Threads
    /\ 0 \in Threads
    /\ Threads \subseteq Nat
    /\ IsFiniteSet(Threads)
    /\ total_items \in Nat
    /\ num_consumed \in Nat
<1>1. IsFiniteSet(Threads)
  BY ArgumentsAssumption, FS_Interval DEF Threads
<1>2. total_items \in Nat
  BY ArgumentsAssumption DEF total_items
<1>3. num_consumed \in Nat
  BY <1>2, ArgumentsAssumption DEF num_consumed
<1> QED
  BY <1>1, <1>2, <1>3, ArgumentsAssumption
     DEF Threads, Producers, Consumers, NoThread

-------------------------------------------------------------------------------
(* Every step of the specification is one of these, by one thread or by main.  *)
LEMMA StepCases ==
    ASSUME [Next]_vars
    PROVE  \/ CreateThread
           \/ JoinThread
           \/ \E t \in Threads : Lock(t) \/ Unlock(t)
           \/ \E t \in Producers : \/ WaitEmpty(t) \/ WriteItem(t)
                                   \/ AdvanceIn(t) \/ PostFull(t)
           \/ \E t \in Consumers : \/ WaitFull(t) \/ ReadItem(t) \/ PrintItem(t)
                                   \/ AdvanceOut(t) \/ PostEmpty(t)
           \/ UNCHANGED vars
BY ThreadNumbers DEF Next, Producer, Consumer, Exited

(* Type correctness: the indices in and out stay inside the ring, the          *)
(* semaphores never become negative (lines 123, 154), and main only creates    *)
(* and joins threads that exist.                                               *)
THEOREM TypeCorrect == Spec => []TypeOK
<1> USE ThreadNumbers, ArgumentsAssumption
<1>1. Init => TypeOK
  BY DEF Init, TypeOK, initialEmpty
<1>2. TypeOK /\ [Next]_vars => TypeOK'
  <2> SUFFICES ASSUME TypeOK, [Next]_vars PROVE TypeOK'
    OBVIOUS
  <2>1. CASE CreateThread
    BY <2>1 DEF TypeOK, CreateThread, MainAdvance, GoTo, LoopTest, ring
  <2>2. CASE JoinThread
    BY <2>2 DEF TypeOK, JoinThread, MainAdvance, ring
  <2>3. ASSUME NEW t \in Threads, Lock(t) \/ Unlock(t) PROVE TypeOK'
    BY <2>3 DEF TypeOK, Lock, Unlock, GoTo, ring, main
  <2>4. ASSUME NEW t \in Producers, WaitEmpty(t) PROVE TypeOK'
    BY <2>4 DEF TypeOK, WaitEmpty, GoTo, ring, main
  <2>5. ASSUME NEW t \in Producers, WriteItem(t) PROVE TypeOK'
    <3>1. t \in Nat /\ NUM_PRODUCED \in Nat /\ counter[t] \in Nat
      BY <2>5 DEF TypeOK
    <3>2. t * NUM_PRODUCED + counter[t] \in Nat
      BY ONLY <3>1
    <3> QED
      BY <2>5, <3>2 DEF TypeOK, WriteItem, GoTo, main
  <2>6. ASSUME NEW t \in Producers, AdvanceIn(t) PROVE TypeOK'
    BY <2>6 DEF TypeOK, AdvanceIn, GoTo, main
  <2>7. ASSUME NEW t \in Producers, PostFull(t) PROVE TypeOK'
    BY <2>7 DEF TypeOK, PostFull, EndIteration, LoopTest, GoTo, ring, main
  <2>8. ASSUME NEW t \in Consumers, WaitFull(t) PROVE TypeOK'
    BY <2>8 DEF TypeOK, WaitFull, GoTo, ring, main
  <2>9. ASSUME NEW t \in Consumers, ReadItem(t) PROVE TypeOK'
    BY <2>9 DEF TypeOK, ReadItem, GoTo, ring, main
  <2>10. ASSUME NEW t \in Consumers, PrintItem(t) PROVE TypeOK'
    <3>1. <<t, next_consumed[t]>> \in Consumers \X Nat
      BY <2>10 DEF TypeOK
    <3>2. printed' \in Seq(Consumers \X Nat)
      BY <2>10, <3>1, AppendProperties DEF TypeOK, PrintItem
    <3> QED
      BY <2>10, <3>2 DEF TypeOK, PrintItem, GoTo, ring, main
  <2>11. ASSUME NEW t \in Consumers, AdvanceOut(t) PROVE TypeOK'
    <3>1. (out + 1) % BUFFER_SIZE \in 0 .. BUFFER_SIZE - 1
      BY DEF TypeOK
    <3> QED
      BY <2>11, <3>1 DEF TypeOK, AdvanceOut, GoTo, main
  <2>12. ASSUME NEW t \in Consumers, PostEmpty(t) PROVE TypeOK'
    BY <2>12 DEF TypeOK, PostEmpty, EndIteration, LoopTest, GoTo, ring, main
  <2>13. CASE UNCHANGED vars
    BY <2>13 DEF TypeOK, vars
  <2> QED
    BY StepCases, <2>1, <2>2, <2>3, <2>4, <2>5, <2>6, <2>7, <2>8, <2>9, <2>10,
       <2>11, <2>12, <2>13
<1> QED
  BY <1>1, <1>2, PTL DEF Spec

(* A step of a thread that has started changes that thread's place only, and    *)
(* nothing of main.                                                            *)
LEMMA ThreadStep ==
    ASSUME TypeOK, NEW t \in Threads,
           \/ Lock(t) \/ Unlock(t)
           \/ t \in Producers /\ (WaitEmpty(t) \/ WriteItem(t) \/ AdvanceIn(t) \/ PostFull(t))
           \/ t \in Consumers /\ (WaitFull(t) \/ ReadItem(t) \/ PrintItem(t)
                                    \/ AdvanceOut(t) \/ PostEmpty(t))
    PROVE  /\ pc[t] # "unborn"
           /\ \E label : pc' = [pc EXCEPT ![t] = label]
           /\ UNCHANGED main
<1>1. CASE Lock(t) \/ Unlock(t)
  BY <1>1 DEF Lock, Unlock, GoTo
<1>2. CASE WaitEmpty(t) \/ WriteItem(t) \/ AdvanceIn(t)
  BY <1>2 DEF WaitEmpty, WriteItem, AdvanceIn, GoTo
<1>3. CASE WaitFull(t) \/ ReadItem(t) \/ PrintItem(t) \/ AdvanceOut(t)
  BY <1>3 DEF WaitFull, ReadItem, PrintItem, AdvanceOut, GoTo
<1>4. CASE PostFull(t) \/ PostEmpty(t)
  BY <1>4 DEF PostFull, PostEmpty, EndIteration, GoTo
<1> QED
  BY <1>1, <1>2, <1>3, <1>4

(* main starts every thread once: none runs before main has reached it.        *)
THEOREM ThreadsCreatedInOrder == Spec => []CreatedInOrder
<1> USE ThreadNumbers
<1>1. Init => CreatedInOrder
  BY DEF Init, CreatedInOrder
<1>2. TypeOK /\ CreatedInOrder /\ [Next]_vars => CreatedInOrder'
  <2> SUFFICES ASSUME TypeOK, CreatedInOrder, [Next]_vars
               PROVE  CreatedInOrder'
    OBVIOUS
  <2>1. CASE CreateThread
    BY <2>1 DEF CreatedInOrder, CreateThread, MainAdvance, GoTo, TypeOK
  <2>2. CASE JoinThread
    BY <2>2 DEF CreatedInOrder, JoinThread, MainAdvance
  <2>3. ASSUME NEW t \in Threads, pc[t] # "unborn",
               \E label : pc' = [pc EXCEPT ![t] = label], UNCHANGED main
        PROVE  CreatedInOrder'
    BY <2>3 DEF CreatedInOrder, TypeOK, main
  <2>4. CASE UNCHANGED vars
    BY <2>4 DEF CreatedInOrder, vars
  <2> QED
    BY StepCases, ThreadStep, <2>1, <2>2, <2>3, <2>4
<1> QED
  BY <1>1, <1>2, TypeCorrect, PTL DEF Spec

(* At most one thread is inside the critical sections of lines 127-129 and     *)
(* 158-160, for any number of producers and consumers.                         *)
THEOREM CriticalSectionsExclusive == Spec => []MutualExclusion
<1> USE ThreadNumbers
<1>1. Init => MutualExclusion
  BY DEF Init, MutualExclusion, InCriticalSection
<1>2. TypeOK /\ CreatedInOrder /\ MutualExclusion /\ [Next]_vars => MutualExclusion'
  <2> SUFFICES ASSUME TypeOK, CreatedInOrder, MutualExclusion, [Next]_vars
               PROVE  MutualExclusion'
    OBVIOUS
  <2> USE DEF MutualExclusion, InCriticalSection, GoTo
  <2>1. CASE CreateThread
    <3>1. /\ mutex' = mutex
          /\ mainThread \in Threads
          /\ pc[mainThread] = "unborn"
      BY <2>1 DEF CreateThread, TypeOK, CreatedInOrder
    <3> QED
      BY <2>1, <3>1 DEF CreateThread, TypeOK, LoopTest
  <2>2. CASE JoinThread
    BY <2>2 DEF JoinThread
  <2>3. ASSUME NEW t \in Threads, Lock(t) \/ Unlock(t) PROVE MutualExclusion'
    BY <2>3 DEF TypeOK, Lock, Unlock
  <2>4. ASSUME NEW t \in Producers,
               WaitEmpty(t) \/ WriteItem(t) \/ AdvanceIn(t) \/ PostFull(t)
        PROVE  MutualExclusion'
    BY <2>4 DEF TypeOK, WaitEmpty, WriteItem, AdvanceIn, PostFull, EndIteration,
                LoopTest
  <2>5. ASSUME NEW t \in Consumers,
               WaitFull(t) \/ ReadItem(t) \/ PrintItem(t) \/ AdvanceOut(t)
                 \/ PostEmpty(t)
        PROVE  MutualExclusion'
    <3>1. CASE WaitFull(t) \/ ReadItem(t)
      BY <3>1 DEF TypeOK, WaitFull, ReadItem
    <3>2. CASE PrintItem(t) \/ AdvanceOut(t)
      BY <3>2 DEF TypeOK, PrintItem, AdvanceOut
    <3>3. CASE PostEmpty(t)
      BY <3>3 DEF TypeOK, PostEmpty, EndIteration, LoopTest
    <3> QED
      BY <2>5, <3>1, <3>2, <3>3
  <2>6. CASE UNCHANGED vars
    BY <2>6 DEF vars
  <2> QED
    BY StepCases, <2>1, <2>2, <2>3, <2>4, <2>5, <2>6
<1> QED
  BY <1>1, <1>2, TypeCorrect, ThreadsCreatedInOrder, PTL DEF Spec

-------------------------------------------------------------------------------
(* How a thread's move changes the number of threads that hold a slot.         *)
LEMMA HoldersChange ==
    ASSUME TypeOK, NEW t \in Threads, NEW label,
           pc' = [pc EXCEPT ![t] = label]
    PROVE  LET H == Cardinality(At(Threads, BetweenWaitAndPost))
           IN  /\ H \in Nat
               /\ pc[t] \in BetweenWaitAndPost <=> label \in BetweenWaitAndPost => H' = H
               /\ pc[t] \notin BetweenWaitAndPost /\ label \in BetweenWaitAndPost => H' = H + 1
               /\ pc[t] \in BetweenWaitAndPost /\ label \notin BetweenWaitAndPost => H' = H - 1
<1> DEFINE S == At(Threads, BetweenWaitAndPost)
<1>1. IsFiniteSet(S) /\ Cardinality(S) \in Nat
  BY ThreadNumbers, FS_Subset, FS_CardinalityType DEF At
<1>2. pc[t] \in BetweenWaitAndPost <=> t \in S
  BY DEF At
<1>3. CASE pc[t] \in BetweenWaitAndPost <=> label \in BetweenWaitAndPost
  <2>1. S' = S
    BY <1>3 DEF At, TypeOK, BetweenWaitAndPost
  <2> QED
    BY <1>1, <1>3, <2>1
<1>4. CASE pc[t] \notin BetweenWaitAndPost /\ label \in BetweenWaitAndPost
  <2>1. S' = S \cup {t} /\ t \notin S
    BY <1>4 DEF At, TypeOK, BetweenWaitAndPost
  <2>2. Cardinality(S') = Cardinality(S) + 1
    BY <1>1, <2>1, FS_AddElement
  <2> QED
    BY <1>1, <1>4, <2>2
<1>5. CASE pc[t] \in BetweenWaitAndPost /\ label \notin BetweenWaitAndPost
  <2>1. S' = S \ {t} /\ t \in S
    BY <1>5 DEF At, TypeOK, BetweenWaitAndPost
  <2>2. Cardinality(S') = Cardinality(S) - 1
    BY <1>1, <2>1, FS_RemoveElement
  <2> QED
    BY <1>1, <1>5, <2>2
<1> QED
  BY <1>1, <1>3, <1>4, <1>5

(* No slot of the ring is leaked or handed out twice by the two semaphores, in *)
(* any interleaving of any number of threads.                                  *)
THEOREM SemaphoresConserveSlots == Spec => []SlotsConserved
<1> USE ThreadNumbers, ArgumentsAssumption
<1> DEFINE H == Cardinality(At(Threads, BetweenWaitAndPost))
<1>1. Init => SlotsConserved
  <2> SUFFICES ASSUME Init PROVE SlotsConserved
    OBVIOUS
  <2>1. At(Threads, BetweenWaitAndPost) = {}
    BY DEF Init, At, BetweenWaitAndPost
  <2>2. Cardinality(At(Threads, BetweenWaitAndPost)) = 0
    BY <2>1, FS_EmptySet
  <2>3. empty = BUFFER_SIZE /\ full = 0 /\ BUFFER_SIZE \in Nat
    BY DEF Init, initialEmpty
  <2> QED
    BY <2>1, <2>2, <2>3 DEF SlotsConserved
<1>2. TypeOK /\ CreatedInOrder /\ SlotsConserved /\ [Next]_vars => SlotsConserved'
  <2> SUFFICES ASSUME TypeOK, CreatedInOrder, SlotsConserved, [Next]_vars
               PROVE  SlotsConserved'
    OBVIOUS
  <2> USE DEF GoTo, BetweenWaitAndPost
  <2>1. empty \in Nat /\ full \in Nat /\ BUFFER_SIZE \in Nat /\ empty + full + H = BUFFER_SIZE
    BY DEF TypeOK, SlotsConserved
  <2>2. SUFFICES empty' + full' + H' = BUFFER_SIZE
    BY DEF SlotsConserved
  <2> HIDE DEF H
  <2>3. CASE CreateThread
    <3>1. mainThread \in Threads /\ pc[mainThread] = "unborn"
      BY <2>3 DEF CreateThread, TypeOK, CreatedInOrder
    <3>2. LoopTest(mainThread, 0) \notin BetweenWaitAndPost
      BY DEF LoopTest
    <3>3. pc' = [pc EXCEPT ![mainThread] = LoopTest(mainThread, 0)]
      BY <2>3 DEF CreateThread
    <3>4. H' = H
      BY <3>1, <3>2, <3>3, HoldersChange DEF H
    <3> QED
      BY <2>1, <2>3, <3>4 DEF CreateThread
  <2>4. CASE JoinThread
    <3>1. H' = H
      BY <2>4 DEF JoinThread, H, At
    <3> QED
      BY <2>1, <2>4, <3>1 DEF JoinThread
  <2>5. ASSUME NEW t \in Threads, Lock(t) \/ Unlock(t)
        PROVE  empty' + full' + H' = BUFFER_SIZE
    <3>1. H' = H
      BY <2>5, HoldersChange DEF Lock, Unlock, H
    <3> QED
      BY <2>1, <2>5, <3>1 DEF Lock, Unlock
  <2>6. ASSUME NEW t \in Producers, WriteItem(t) \/ AdvanceIn(t)
        PROVE  empty' + full' + H' = BUFFER_SIZE
    <3>1. H' = H
      BY <2>6, HoldersChange DEF WriteItem, AdvanceIn, H
    <3> QED
      BY <2>1, <2>6, <3>1 DEF WriteItem, AdvanceIn
  <2>7. ASSUME NEW t \in Consumers, ReadItem(t) \/ PrintItem(t) \/ AdvanceOut(t)
        PROVE  empty' + full' + H' = BUFFER_SIZE
    <3>1. H' = H
      BY <2>7, HoldersChange DEF ReadItem, PrintItem, AdvanceOut, H
    <3> QED
      BY <2>1, <2>7, <3>1 DEF ReadItem, PrintItem, AdvanceOut
  <2>8. ASSUME NEW t \in Threads, WaitEmpty(t) \/ WaitFull(t)
        PROVE  empty' + full' + H' = BUFFER_SIZE
    <3>1. H' = H + 1 /\ H \in Nat
      BY <2>8, HoldersChange DEF WaitEmpty, WaitFull, H
    <3> QED
      BY <2>1, <2>8, <3>1 DEF WaitEmpty, WaitFull
  <2>9. ASSUME NEW t \in Threads, PostFull(t) \/ PostEmpty(t)
        PROVE  empty' + full' + H' = BUFFER_SIZE
    <3>1. LoopTest(t, counter[t] + 1) \notin BetweenWaitAndPost
      BY DEF LoopTest
    <3>2. /\ pc[t] = "post"
          /\ pc' = [pc EXCEPT ![t] = LoopTest(t, counter[t] + 1)]
      BY <2>9 DEF PostFull, PostEmpty, EndIteration
    <3>3. H' = H - 1 /\ H \in Nat
      BY <3>1, <3>2, HoldersChange DEF H
    <3> QED
      BY <2>1, <2>9, <3>3 DEF PostFull, PostEmpty
  <2>10. CASE UNCHANGED vars
    <3>1. H' = H
      BY <2>10 DEF vars, H, At
    <3> QED
      BY <2>1, <2>10, <3>1 DEF vars
  <2> QED
    BY StepCases, <2>3, <2>4, <2>5, <2>6, <2>7, <2>8, <2>9, <2>10
<1> QED
  BY <1>1, <1>2, TypeCorrect, ThreadsCreatedInOrder, PTL DEF Spec

-------------------------------------------------------------------------------
(* The ring is a bounded channel.  What the threads' places, the two indices   *)
(* and the slots have to do with each other, between the steps of Channel.     *)

Waiting == {"lock", "enter"}
Leaving == {"advance", "unlock", "post"}

(* The slot that the next item goes into.                                      *)
NextSlot == IF At(Producers, {"advance"}) # {} THEN in + 1 ELSE in

(* The occupied slots run from FirstSlot up to NextSlot, once around at most.  *)
WindowInv == FirstSlot + Occupied \in {NextSlot, NextSlot + BUFFER_SIZE}

(* What a consumer is about to print is still in the slot it read it from.     *)
CopyInv == \A c \in Consumers : pc[c] = "print" => next_consumed[c] = buffer[out]

(* A thread inside its loop has an iteration left to do.                       *)
LoopInv ==
    \A t \in Threads :
        /\ pc[t] = "unborn" => counter[t] = 0
        /\ pc[t] \in {"wait"} \cup BetweenWaitAndPost => counter[t] < Iterations(t)

(* A consumer has printed one item for each iteration it has done.             *)
LinesOf(output, c) == {k \in DOMAIN output : output[k][1] = c}
PrintedInv ==
    \A c \in Consumers :
        Cardinality(LinesOf(printed, c)) = counter[c] + IF pc[c] \in Leaving THEN 1 ELSE 0

ChannelInv == WindowInv /\ CopyInv /\ LoopInv /\ PrintedInv

(* The slot that an index at most once around the ring stands for.             *)
WrapsOnce(x) == x % BUFFER_SIZE = IF x < BUFFER_SIZE THEN x ELSE x - BUFFER_SIZE

(* An index less than twice the size wraps at most once.                    *)
LEMMA OnceAround ==
    ASSUME NEW x \in 0 .. 2 * BUFFER_SIZE - 1
    PROVE  WrapsOnce(x)
BY ArgumentsAssumption DEF WrapsOnce

(* How a thread's move changes the number of threads of a group at some places. *)
Placed(places, G, L) == {u \in G : places[u] \in L}

Counted(u, place, G, L) == IF u \in G /\ place \in L THEN 1 ELSE 0

CountMoves(f, g, t, label, G, L) ==
    /\ Cardinality(Placed(f, G, L)) \in Nat
    /\ Cardinality(Placed(g, G, L))
         = Cardinality(Placed(f, G, L)) + Counted(t, label, G, L) - Counted(t, f[t], G, L)

(* One thread moves on: how the number of threads at some places changes.   *)
LEMMA PlaceChange ==
    ASSUME NEW f, NEW g, NEW t \in Threads, NEW label, NEW G \in SUBSET Threads, NEW L,
           DOMAIN f = Threads, g = [f EXCEPT ![t] = label]
    PROVE  CountMoves(f, g, t, label, G, L)
<1> USE DEF CountMoves
<1> DEFINE S == Placed(f, G, L)
           R == Placed(g, G, L)
<1>1. IsFiniteSet(S) /\ Cardinality(S) \in Nat
  BY ThreadNumbers, FS_Subset, FS_CardinalityType DEF Placed
<1>2. \A u \in Threads : g[u] = IF u = t THEN label ELSE f[u]
  OBVIOUS
<1>3. CASE t \notin G \/ (f[t] \in L <=> label \in L)
  <2>1. R = S
    BY <1>2, <1>3 DEF Placed
  <2> QED
    BY <1>1, <1>3, <2>1 DEF Counted
<1>4. CASE t \in G /\ f[t] \notin L /\ label \in L
  <2>1. R = S \cup {t} /\ t \notin S
    BY <1>2, <1>4 DEF Placed
  <2>2. Cardinality(R) = Cardinality(S) + 1
    BY <1>1, <2>1, FS_AddElement
  <2> QED
    BY <1>1, <1>4, <2>2 DEF Counted
<1>5. CASE t \in G /\ f[t] \in L /\ label \notin L
  <2>1. R = S \ {t} /\ t \in S
    BY <1>2, <1>5 DEF Placed
  <2>2. Cardinality(R) = Cardinality(S) - 1
    BY <1>1, <2>1, FS_RemoveElement
  <2> QED
    BY <1>1, <1>5, <2>2 DEF Counted
<1> QED
  BY <1>3, <1>4, <1>5, <1>1

(* The two counts that Occupied is computed from, after a thread's move.       *)
LEMMA CountsChange ==
    ASSUME TypeOK, NEW t \in Threads, NEW label, pc' = [pc EXCEPT ![t] = label]
    PROVE  LET a == Cardinality(At(Producers, Waiting))
               c == Cardinality(At(Consumers, Leaving))
           IN  /\ a \in Nat /\ c \in Nat
               /\ a' = a + Counted(t, label, Producers, Waiting)
                         - Counted(t, pc[t], Producers, Waiting)
               /\ c' = c + Counted(t, label, Consumers, Leaving)
                         - Counted(t, pc[t], Consumers, Leaving)
<1>1. /\ Producers \in SUBSET Threads /\ Consumers \in SUBSET Threads
      /\ DOMAIN pc = Threads
  BY ThreadNumbers DEF TypeOK
<1>2. /\ At(Producers, Waiting) = Placed(pc, Producers, Waiting)
      /\ At(Producers, Waiting)' = Placed(pc', Producers, Waiting)
      /\ At(Consumers, Leaving) = Placed(pc, Consumers, Leaving)
      /\ At(Consumers, Leaving)' = Placed(pc', Consumers, Leaving)
  BY DEF At, Placed
<1>3. CountMoves(pc, pc', t, label, Producers, Waiting)
  BY <1>1, PlaceChange
<1>4. CountMoves(pc, pc', t, label, Consumers, Leaving)
  BY <1>1, PlaceChange
<1>5. /\ Cardinality(At(Producers, Waiting)) = Cardinality(Placed(pc, Producers, Waiting))
      /\ Cardinality(At(Producers, Waiting))' = Cardinality(Placed(pc', Producers, Waiting))
      /\ Cardinality(At(Consumers, Leaving)) = Cardinality(Placed(pc, Consumers, Leaving))
      /\ Cardinality(At(Consumers, Leaving))' = Cardinality(Placed(pc', Consumers, Leaving))
  BY <1>2
<1> QED
  BY <1>3, <1>5, <1>4 DEF CountMoves

(* The ring never holds fewer items than none or more than its slots; a thread *)
(* that has waited for an item or a slot and not used it yet leaves room.      *)
LEMMA OccupiedBounds ==
    ASSUME TypeOK, SlotsConserved
    PROVE  /\ Occupied \in 0 .. BUFFER_SIZE
           /\ \A t \in Consumers : pc[t] \in {"lock", "enter", "print"} => Occupied >= 1
           /\ \A t \in Producers : pc[t] \in Waiting => Occupied < BUFFER_SIZE
           /\ \A t \in Consumers : pc[t] \in Leaving => Occupied < BUFFER_SIZE
<1> DEFINE A == At(Producers, Waiting)
           C == At(Consumers, Leaving)
           H == At(Threads, BetweenWaitAndPost)
<1>1. /\ IsFiniteSet(H) /\ IsFiniteSet(A) /\ IsFiniteSet(C)
      /\ A \cup C \subseteq H /\ A \cap C = {}
  <2>1. A \cup C \subseteq H /\ A \cap C = {} /\ H \subseteq Threads
    BY ThreadNumbers DEF At, Waiting, Leaving, BetweenWaitAndPost
  <2> QED
    BY <2>1, ThreadNumbers, FS_Subset
<1>2. /\ Cardinality(A) \in Nat /\ Cardinality(C) \in Nat /\ Cardinality(H) \in Nat
      /\ Cardinality(A \cup C) = Cardinality(A) + Cardinality(C)
      /\ Cardinality(A \cup C) <= Cardinality(H)
  <2>1. Cardinality(A \cap C) = 0
    BY <1>1, FS_EmptySet
  <2>2. /\ Cardinality(A) \in Nat /\ Cardinality(C) \in Nat /\ Cardinality(H) \in Nat
        /\ Cardinality(A \cup C) <= Cardinality(H)
    BY <1>1, FS_CardinalityType, FS_Subset
  <2>3. Cardinality(A \cup C) = Cardinality(A) + Cardinality(C) - Cardinality(A \cap C)
    BY <1>1, FS_Union
  <2> HIDE DEF A, C, H
  <2> QED
    BY <2>1, <2>2, <2>3
<1>3. /\ empty \in Nat /\ full \in Nat /\ BUFFER_SIZE \in Nat
      /\ empty + full + Cardinality(H) = BUFFER_SIZE
      /\ Occupied = BUFFER_SIZE - (empty + Cardinality(A) + Cardinality(C))
  BY ArgumentsAssumption DEF TypeOK, SlotsConserved, Occupied, Waiting, Leaving
<1>4. Occupied \in 0 .. BUFFER_SIZE
  BY <1>2, <1>3
<1>5. ASSUME NEW t \in Consumers, pc[t] \in {"lock", "enter", "print"}
      PROVE  Occupied >= 1
  <2>1. t \in H /\ t \notin A \cup C
    BY <1>5, ThreadNumbers DEF At, Waiting, Leaving, BetweenWaitAndPost
  <2>2. Cardinality(A \cup C) < Cardinality(H)
    BY <1>1, <1>2, <2>1, FS_Subset
  <2> QED
    BY <1>2, <1>3, <2>2
<1>6. ASSUME NEW t, t \in A PROVE Occupied < BUFFER_SIZE
  <2>1. Cardinality(A) # 0
    BY <1>1, <1>6, FS_EmptySet
  <2> QED
    BY <1>2, <1>3, <2>1
<1>7. ASSUME NEW t, t \in C PROVE Occupied < BUFFER_SIZE
  <2>1. Cardinality(C) # 0
    BY <1>1, <1>7, FS_EmptySet
  <2> QED
    BY <1>2, <1>3, <2>1
<1> QED
  BY <1>4, <1>5, <1>6, <1>7 DEF At

-------------------------------------------------------------------------------
(* How each step moves the window of occupied slots.                           *)

WindowStays == Occupied' = Occupied /\ FirstSlot' = FirstSlot /\ NextSlot' = NextSlot

(* The window stays where it is when a thread moves without using the ring.    *)
LEMMA SteadyMove ==
    ASSUME TypeOK, NEW t \in Threads, NEW label, pc' = [pc EXCEPT ![t] = label],
           pc[t] # "advance", label # "advance", in' = in, out' = out,
           \/ /\ empty' = empty
              /\ t \in Producers => (pc[t] \in Waiting <=> label \in Waiting)
              /\ t \in Consumers => (pc[t] \in Leaving <=> label \in Leaving)
           \/ /\ empty' = empty - 1
              /\ t \in Producers /\ pc[t] \notin Waiting /\ label \in Waiting
           \/ /\ empty' = empty + 1
              /\ t \in Consumers /\ pc[t] \in Leaving /\ label \notin Leaving
    PROVE  WindowStays
<1> DEFINE a == Cardinality(At(Producers, Waiting))
           c == Cardinality(At(Consumers, Leaving))
<1>1. Producers \in SUBSET Threads /\ Consumers \in SUBSET Threads
      /\ Producers \cap Consumers = {}
  BY ThreadNumbers
<1>2. /\ At(Producers, {"advance"})' = At(Producers, {"advance"})
      /\ At(Consumers, {"advance"})' = At(Consumers, {"advance"})
  BY <1>1 DEF At, TypeOK
<1>3. a \in Nat /\ c \in Nat
      /\ a' = a + Counted(t, label, Producers, Waiting)
                - Counted(t, pc[t], Producers, Waiting)
      /\ c' = c + Counted(t, label, Consumers, Leaving)
                - Counted(t, pc[t], Consumers, Leaving)
  BY CountsChange
<1> HIDE DEF a, c
<1>4. empty \in Nat
  BY DEF TypeOK
<1>5. empty' + a' + c' = empty + a + c
  <2>1. CASE /\ empty' = empty
             /\ t \in Producers => (pc[t] \in Waiting <=> label \in Waiting)
             /\ t \in Consumers => (pc[t] \in Leaving <=> label \in Leaving)
    BY <1>1, <1>3, <1>4, <2>1 DEF Counted
  <2>2. CASE /\ empty' = empty - 1
             /\ t \in Producers /\ pc[t] \notin Waiting /\ label \in Waiting
    BY <1>1, <1>3, <1>4, <2>2 DEF Counted
  <2>3. CASE /\ empty' = empty + 1
             /\ t \in Consumers /\ pc[t] \in Leaving /\ label \notin Leaving
    BY <1>1, <1>3, <1>4, <2>3 DEF Counted
  <2> QED
    BY <2>1, <2>2, <2>3
<1>6. Occupied = BUFFER_SIZE - (empty + a + c) /\ Occupied' = BUFFER_SIZE - (empty' + a' + c')
  BY DEF Occupied, Waiting, Leaving, a, c
<1>7. Occupied' = Occupied
  BY <1>5, <1>6
<1> QED
  BY <1>2, <1>7 DEF WindowStays, FirstSlot, NextSlot

(* Every step but the four that use the ring leaves the window where it is.    *)
LEMMA SteadySteps ==
    ASSUME TypeOK, CreatedInOrder, NEW t \in Threads,
           \/ CreateThread \/ JoinThread \/ Lock(t) \/ Unlock(t)
           \/ t \in Producers /\ (WaitEmpty(t) \/ PostFull(t))
           \/ t \in Consumers /\ (WaitFull(t) \/ ReadItem(t) \/ PostEmpty(t))
           \/ UNCHANGED vars
    PROVE  WindowStays
<1> USE ThreadNumbers DEF Waiting, Leaving
<1>1. CASE CreateThread
  <2>1. /\ mainThread \in Threads /\ pc[mainThread] = "unborn"
        /\ pc' = [pc EXCEPT ![mainThread] = LoopTest(mainThread, 0)]
        /\ UNCHANGED <<in, out, empty>>
    BY <1>1 DEF CreateThread, TypeOK, CreatedInOrder, GoTo, ring
  <2>2. LoopTest(mainThread, 0) \in {"wait", "done"}
    BY DEF LoopTest
  <2> QED
    BY <2>1, <2>2, SteadyMove
<1>2. CASE JoinThread \/ UNCHANGED vars
  BY <1>2 DEF JoinThread, vars, ring, WindowStays, Occupied, FirstSlot, NextSlot, At
<1>3. CASE Lock(t)
  BY <1>3, SteadyMove DEF Lock, GoTo, ring
<1>4. CASE Unlock(t)
  BY <1>4, SteadyMove DEF Unlock, GoTo, ring
<1>5. CASE t \in Producers /\ WaitEmpty(t)
  BY <1>5, SteadyMove DEF WaitEmpty, GoTo, ring
<1>6. CASE t \in Consumers /\ (WaitFull(t) \/ ReadItem(t))
  BY <1>6, SteadyMove DEF WaitFull, ReadItem, GoTo, ring
<1>7. CASE \/ t \in Producers /\ PostFull(t)
           \/ t \in Consumers /\ PostEmpty(t)
  <2>1. LoopTest(t, counter[t] + 1) \in {"wait", "done"}
    BY DEF LoopTest
  <2>2. CASE t \in Producers /\ PostFull(t)
    BY <2>1, <2>2, SteadyMove DEF PostFull, EndIteration, GoTo, ring
  <2>3. CASE t \in Consumers /\ PostEmpty(t)
    BY <2>1, <2>3, SteadyMove DEF PostEmpty, EndIteration, GoTo, ring
  <2> QED
    BY <1>7, <2>2, <2>3
<1> QED
  BY <1>1, <1>2, <1>3, <1>4, <1>5, <1>6, <1>7

(* A write lengthens the window by the slot in: the producer is alone in the   *)
(* critical section, so no other has written without advancing.                *)
LEMMA WriteMoves ==
    ASSUME TypeOK, MutualExclusion, NEW t \in Producers, WriteItem(t)
    PROVE  /\ Occupied \in Int /\ Occupied' = Occupied + 1
           /\ FirstSlot' = FirstSlot /\ FirstSlot = out
           /\ NextSlot = in /\ NextSlot' = in + 1
<1> USE ThreadNumbers DEF Waiting, Leaving
<1> DEFINE a == Cardinality(At(Producers, Waiting))
           c == Cardinality(At(Consumers, Leaving))
<1>1. pc[t] = "enter" /\ pc' = [pc EXCEPT ![t] = "advance"] /\ UNCHANGED <<in, out, empty>>
  BY DEF WriteItem, GoTo
<1>2. /\ a \in Nat /\ c \in Nat
      /\ a' = a + Counted(t, "advance", Producers, Waiting)
                - Counted(t, pc[t], Producers, Waiting)
      /\ c' = c + Counted(t, "advance", Consumers, Leaving)
                - Counted(t, pc[t], Consumers, Leaving)
  BY <1>1, ThreadNumbers, CountsChange
<1> HIDE DEF a, c
<1>3. a' = a - 1 /\ c' = c /\ a \in Nat /\ c \in Nat /\ empty \in Nat /\ BUFFER_SIZE \in Nat
  BY <1>1, <1>2, ArgumentsAssumption DEF TypeOK, Counted
<1>4. Occupied = BUFFER_SIZE - (empty + a + c) /\ Occupied' = BUFFER_SIZE - (empty' + a' + c')
  BY DEF Occupied, a, c
<1>5. /\ At(Producers, {"advance"}) = {}
      /\ At(Producers, {"advance"})' = {t}
      /\ At(Consumers, {"advance"})' = {}
      /\ At(Consumers, {"advance"}) = {}
  BY <1>1 DEF At, TypeOK, MutualExclusion, InCriticalSection
<1>6. Occupied \in Int /\ Occupied' = Occupied + 1
  BY <1>1, <1>3, <1>4
<1> QED
  BY <1>1, <1>5, <1>6 DEF FirstSlot, NextSlot

(* Advancing in catches up with the window.                                    *)
LEMMA AdvanceInMoves ==
    ASSUME TypeOK, MutualExclusion, NEW t \in Producers, AdvanceIn(t)
    PROVE  /\ Occupied' = Occupied /\ FirstSlot' = FirstSlot /\ FirstSlot = out
           /\ NextSlot = in + 1 /\ NextSlot' = (in + 1) % BUFFER_SIZE
<1> USE ThreadNumbers DEF Waiting, Leaving
<1>1. /\ pc[t] = "advance" /\ pc' = [pc EXCEPT ![t] = "unlock"]
      /\ UNCHANGED <<out, empty>> /\ in' = (in + 1) % BUFFER_SIZE
  BY DEF AdvanceIn, GoTo
<1> DEFINE a == Cardinality(At(Producers, Waiting))
           c == Cardinality(At(Consumers, Leaving))
<1>2. /\ a \in Nat /\ c \in Nat
      /\ a' = a + Counted(t, "unlock", Producers, Waiting)
                - Counted(t, pc[t], Producers, Waiting)
      /\ c' = c + Counted(t, "unlock", Consumers, Leaving)
                - Counted(t, pc[t], Consumers, Leaving)
  BY <1>1, ThreadNumbers, CountsChange
<1>3. Occupied = BUFFER_SIZE - (empty + a + c) /\ Occupied' = BUFFER_SIZE - (empty' + a' + c')
  BY DEF Occupied
<1> HIDE DEF a, c
<1>4. Occupied' = Occupied
  BY <1>1, <1>3, <1>2, ThreadNumbers DEF Counted
<1>5. /\ t \in At(Producers, {"advance"})
      /\ At(Producers, {"advance"})' = {}
      /\ At(Consumers, {"advance"})' = {}
      /\ At(Consumers, {"advance"}) = {}
  BY <1>1 DEF At, TypeOK, MutualExclusion, InCriticalSection
<1> QED
  BY <1>1, <1>4, <1>5 DEF FirstSlot, NextSlot

(* A printed item leaves the front of the window.                              *)
LEMMA PrintMoves ==
    ASSUME TypeOK, MutualExclusion, NEW t \in Consumers, PrintItem(t)
    PROVE  /\ Occupied \in Int /\ Occupied' = Occupied - 1
           /\ FirstSlot = out /\ FirstSlot' = out + 1
           /\ NextSlot' = NextSlot
<1> USE ThreadNumbers DEF Waiting, Leaving
<1> DEFINE a == Cardinality(At(Producers, Waiting))
           c == Cardinality(At(Consumers, Leaving))
<1>1. pc[t] = "print" /\ pc' = [pc EXCEPT ![t] = "advance"] /\ UNCHANGED <<in, out, empty>>
  BY DEF PrintItem, GoTo, ring
<1>2. /\ a \in Nat /\ c \in Nat
      /\ a' = a + Counted(t, "advance", Producers, Waiting)
                - Counted(t, pc[t], Producers, Waiting)
      /\ c' = c + Counted(t, "advance", Consumers, Leaving)
                - Counted(t, pc[t], Consumers, Leaving)
  BY <1>1, ThreadNumbers, CountsChange
<1> HIDE DEF a, c
<1>3. a' = a /\ c' = c + 1 /\ a \in Nat /\ c \in Nat /\ empty \in Nat /\ BUFFER_SIZE \in Nat
  BY <1>1, <1>2, ArgumentsAssumption DEF TypeOK, Counted
<1>4. Occupied = BUFFER_SIZE - (empty + a + c) /\ Occupied' = BUFFER_SIZE - (empty' + a' + c')
  BY DEF Occupied, a, c
<1>5. /\ At(Consumers, {"advance"}) = {}
      /\ At(Consumers, {"advance"})' = {t}
      /\ At(Producers, {"advance"})' = At(Producers, {"advance"})
  BY <1>1 DEF At, TypeOK, MutualExclusion, InCriticalSection
<1>6. Occupied \in Int /\ Occupied' = Occupied - 1
  BY <1>1, <1>3, <1>4
<1> QED
  BY <1>1, <1>5, <1>6 DEF FirstSlot, NextSlot

(* Advancing out catches up with the front of the window.                      *)
LEMMA AdvanceOutMoves ==
    ASSUME TypeOK, MutualExclusion, NEW t \in Consumers, AdvanceOut(t)
    PROVE  /\ Occupied' = Occupied /\ NextSlot' = NextSlot /\ NextSlot = in
           /\ FirstSlot = out + 1 /\ FirstSlot' = (out + 1) % BUFFER_SIZE
<1> USE ThreadNumbers DEF Waiting, Leaving
<1>1. /\ pc[t] = "advance" /\ pc' = [pc EXCEPT ![t] = "unlock"]
      /\ UNCHANGED <<in, empty>> /\ out' = (out + 1) % BUFFER_SIZE
  BY DEF AdvanceOut, GoTo
<1> DEFINE a == Cardinality(At(Producers, Waiting))
           c == Cardinality(At(Consumers, Leaving))
<1>2. /\ a \in Nat /\ c \in Nat
      /\ a' = a + Counted(t, "unlock", Producers, Waiting)
                - Counted(t, pc[t], Producers, Waiting)
      /\ c' = c + Counted(t, "unlock", Consumers, Leaving)
                - Counted(t, pc[t], Consumers, Leaving)
  BY <1>1, ThreadNumbers, CountsChange
<1>3. Occupied = BUFFER_SIZE - (empty + a + c) /\ Occupied' = BUFFER_SIZE - (empty' + a' + c')
  BY DEF Occupied
<1> HIDE DEF a, c
<1>4. Occupied' = Occupied
  BY <1>1, <1>3, <1>2, ThreadNumbers DEF Counted
<1>5. /\ t \in At(Consumers, {"advance"})
      /\ At(Consumers, {"advance"})' = {}
      /\ At(Producers, {"advance"}) = {}
      /\ At(Producers, {"advance"})' = {}
  BY <1>1 DEF At, TypeOK, MutualExclusion, InCriticalSection
<1> QED
  BY <1>1, <1>4, <1>5 DEF FirstSlot, NextSlot

-------------------------------------------------------------------------------
(* The sequence of items in n slots of a ring from the slot f on, and what     *)
(* writing behind it and reading in front of it make of it.                    *)
RingSeq(b, f, n) == [k \in 1 .. n |-> b[(f + k - 1) % BUFFER_SIZE]]

(* The items read from a window of the ring.                                *)
LEMMA RingSeqType ==
    ASSUME NEW b \in [0 .. BUFFER_SIZE - 1 -> Nat],
           NEW f \in 0 .. BUFFER_SIZE, NEW n \in 0 .. BUFFER_SIZE
    PROVE  /\ RingSeq(b, f, n) \in Seq(Nat)
           /\ Len(RingSeq(b, f, n)) = n
           /\ \A k \in 1 .. n : RingSeq(b, f, n)[k] = b[(f + k - 1) % BUFFER_SIZE]
<1>1. BUFFER_SIZE \in Nat \ {0} /\ n \in Nat
  BY ArgumentsAssumption
<1>2. \A k \in 1 .. n : (f + k - 1) % BUFFER_SIZE \in 0 .. BUFFER_SIZE - 1
  BY <1>1
<1>3. RingSeq(b, f, n) \in [1 .. n -> Nat]
  BY <1>1, <1>2 DEF RingSeq
<1>4. RingSeq(b, f, n) \in Seq(Nat)
  BY <1>1, <1>3, SeqDef
<1>5. Len(RingSeq(b, f, n)) = n
  BY <1>1, <1>3, <1>4, LenProperties
<1> QED
  BY <1>4, <1>5 DEF RingSeq

(* The slot behind the window is outside it while a slot is free.              *)
LEMMA SlotBehind ==
    ASSUME NEW f \in 0 .. BUFFER_SIZE, NEW n \in 0 .. BUFFER_SIZE - 1,
           NEW i \in 0 .. BUFFER_SIZE - 1, f + n \in {i, i + BUFFER_SIZE}
    PROVE  /\ (f + n) % BUFFER_SIZE = i
           /\ \A k \in 1 .. n : /\ (f + k - 1) % BUFFER_SIZE \in 0 .. BUFFER_SIZE - 1
                                /\ (f + k - 1) % BUFFER_SIZE # i
<1>1. BUFFER_SIZE \in Nat \ {0}
  BY ArgumentsAssumption
<1>2. (f + n) % BUFFER_SIZE = i
  <2>1. f + n \in 0 .. 2 * BUFFER_SIZE - 1
    BY <1>1
  <2>2. WrapsOnce(f + n)
    BY <2>1, OnceAround
  <2> QED
    BY <1>1, <2>2 DEF WrapsOnce
<1>3. ASSUME NEW k \in 1 .. n
      PROVE  /\ (f + k - 1) % BUFFER_SIZE \in 0 .. BUFFER_SIZE - 1
             /\ (f + k - 1) % BUFFER_SIZE # i
  <2>1. f + k - 1 \in 0 .. 2 * BUFFER_SIZE - 1
    BY <1>1
  <2>2. WrapsOnce(f + k - 1)
    BY <2>1, OnceAround
  <2> QED
    BY <1>1, <2>1, <2>2 DEF WrapsOnce
<1> QED
  BY <1>2, <1>3

(* An item written behind the window is appended.                           *)
LEMMA RingAppend ==
    ASSUME NEW b \in [0 .. BUFFER_SIZE - 1 -> Nat], NEW e \in Nat,
           NEW f \in 0 .. BUFFER_SIZE, NEW n \in 0 .. BUFFER_SIZE - 1,
           NEW i \in 0 .. BUFFER_SIZE - 1, f + n \in {i, i + BUFFER_SIZE}
    PROVE  RingSeq([b EXCEPT ![i] = e], f, n + 1) = Append(RingSeq(b, f, n), e)
<1> DEFINE d == [b EXCEPT ![i] = e]
           s == RingSeq(b, f, n)
           u == RingSeq(d, f, n + 1)
<1>1. d \in [0 .. BUFFER_SIZE - 1 -> Nat] /\ d[i] = e
      /\ \A j \in 0 .. BUFFER_SIZE - 1 : j # i => d[j] = b[j]
  OBVIOUS
<1> HIDE DEF d
<1>2. /\ BUFFER_SIZE \in Nat \ {0} /\ n \in Nat
      /\ n \in 0 .. BUFFER_SIZE /\ n + 1 \in 0 .. BUFFER_SIZE
  BY ArgumentsAssumption
<1>3. /\ s \in Seq(Nat) /\ Len(s) = n
      /\ \A k \in 1 .. n : s[k] = b[(f + k - 1) % BUFFER_SIZE]
  BY <1>2, RingSeqType
<1>4. /\ u \in Seq(Nat) /\ Len(u) = n + 1
      /\ \A k \in 1 .. n + 1 : u[k] = d[(f + k - 1) % BUFFER_SIZE]
  BY <1>1, <1>2, RingSeqType
<1>5. /\ (f + n) % BUFFER_SIZE = i
      /\ \A k \in 1 .. n : /\ (f + k - 1) % BUFFER_SIZE \in 0 .. BUFFER_SIZE - 1
                           /\ (f + k - 1) % BUFFER_SIZE # i
  BY SlotBehind
<1> HIDE DEF s, u
<1>6. /\ Append(s, e) \in Seq(Nat) /\ Len(Append(s, e)) = n + 1
      /\ \A k \in 1 .. n : Append(s, e)[k] = s[k]
      /\ Append(s, e)[n + 1] = e
  BY <1>3, AppendProperties
<1>7. u[n + 1] = e
  <2>1. n + 1 \in 1 .. n + 1 /\ f + (n + 1) - 1 = f + n
    BY <1>2
  <2> QED
    BY <1>1, <1>4, <1>5, <2>1
<1>8. \A k \in 1 .. n : u[k] = s[k]
  <2> TAKE k \in 1 .. n
  <2>1. k \in 1 .. n + 1
    BY <1>2
  <2> QED
    BY <1>1, <1>3, <1>4, <1>5, <2>1
<1>9. \A k \in 1 .. Len(u) : u[k] = Append(s, e)[k]
  <2> TAKE k \in 1 .. Len(u)
  <2>1. k \in 1 .. n \/ k = n + 1
    BY <1>2, <1>4
  <2> QED
    BY <1>6, <1>7, <1>8, <2>1
<1>10. u = Append(s, e)
  BY <1>4, <1>6, <1>9, SeqEqual
<1> QED
  BY <1>10 DEF s, u, d

(* The first item of the window, and the window without it.                 *)
LEMMA RingHead ==
    ASSUME NEW b \in [0 .. BUFFER_SIZE - 1 -> Nat],
           NEW f \in 0 .. BUFFER_SIZE - 1, NEW n \in 1 .. BUFFER_SIZE
    PROVE  /\ RingSeq(b, f, n) # <<>>
           /\ Head(RingSeq(b, f, n)) = b[f]
           /\ Tail(RingSeq(b, f, n)) = RingSeq(b, f + 1, n - 1)
<1> DEFINE s == RingSeq(b, f, n)
           u == RingSeq(b, f + 1, n - 1)
<1>1. /\ BUFFER_SIZE \in Nat \ {0} /\ n \in Nat
      /\ f \in 0 .. BUFFER_SIZE /\ f + 1 \in 0 .. BUFFER_SIZE
      /\ n \in 0 .. BUFFER_SIZE /\ n - 1 \in 0 .. BUFFER_SIZE
  BY ArgumentsAssumption
<1>2. /\ s \in Seq(Nat) /\ Len(s) = n
      /\ \A k \in 1 .. n : s[k] = b[(f + k - 1) % BUFFER_SIZE]
  BY <1>1, RingSeqType
<1>3. /\ u \in Seq(Nat) /\ Len(u) = n - 1
      /\ \A k \in 1 .. n - 1 : u[k] = b[((f + 1) + k - 1) % BUFFER_SIZE]
  BY <1>1, RingSeqType
<1> HIDE DEF s, u
<1>4. s # <<>>
  BY <1>2, EmptySeq
<1>5. Head(s) = b[f]
  <2>1. f % BUFFER_SIZE = f
    BY <1>1, OnceAround DEF WrapsOnce
  <2>2. 1 \in 1 .. n /\ f + 1 - 1 = f
    BY <1>1
  <2>3. s[1] = b[f]
    BY <1>2, <2>1, <2>2
  <2> QED
    BY <1>2, <1>4, <2>3
<1>6. /\ Tail(s) \in Seq(Nat) /\ Len(Tail(s)) = n - 1
      /\ \A k \in 1 .. n - 1 : Tail(s)[k] = s[k + 1]
  BY <1>2, <1>4, HeadTailProperties
<1>7. \A k \in 1 .. Len(Tail(s)) : Tail(s)[k] = u[k]
  <2> TAKE k \in 1 .. Len(Tail(s))
  <2>1. k \in 1 .. n - 1 /\ k + 1 \in 1 .. n /\ f + (k + 1) - 1 = (f + 1) + k - 1
    BY <1>1, <1>6
  <2>2. Tail(s)[k] = b[(f + (k + 1) - 1) % BUFFER_SIZE]
    BY <1>2, <1>6, <2>1
  <2>3. u[k] = b[((f + 1) + k - 1) % BUFFER_SIZE]
    BY <1>3, <2>1
  <2> QED
    BY <2>1, <2>2, <2>3
<1>8. Tail(s) = u
  BY <1>3, <1>6, <1>7, SeqEqual
<1> QED
  BY <1>4, <1>5, <1>8 DEF s, u

(* Slot number BUFFER_SIZE is slot 0.                                          *)
LEMMA RingWrap ==
    ASSUME NEW b \in [0 .. BUFFER_SIZE - 1 -> Nat],
           NEW o \in 0 .. BUFFER_SIZE - 1, NEW n \in 0 .. BUFFER_SIZE
    PROVE  RingSeq(b, (o + 1) % BUFFER_SIZE, n) = RingSeq(b, o + 1, n)
<1>1. BUFFER_SIZE \in Nat \ {0}
  BY ArgumentsAssumption
<1>2. ASSUME NEW k \in 1 .. n
      PROVE  (((o + 1) % BUFFER_SIZE) + k - 1) % BUFFER_SIZE = ((o + 1) + k - 1) % BUFFER_SIZE
  <2>1. CASE o + 1 < BUFFER_SIZE
    <3>1. o + 1 \in 0 .. 2 * BUFFER_SIZE - 1
      BY <1>1, <2>1
    <3>2. WrapsOnce(o + 1)
      BY <3>1, OnceAround
    <3> QED
      BY <2>1, <3>2 DEF WrapsOnce
  <2>2. CASE o + 1 = BUFFER_SIZE
    <3>1. o + 1 \in 0 .. 2 * BUFFER_SIZE - 1 /\ (o + 1) + k - 1 \in 0 .. 2 * BUFFER_SIZE - 1
          /\ k - 1 \in 0 .. 2 * BUFFER_SIZE - 1 /\ k - 1 < BUFFER_SIZE
          /\ ~((o + 1) + k - 1 < BUFFER_SIZE) /\ (o + 1) + k - 1 - BUFFER_SIZE = k - 1
      BY <1>1, <2>2
    <3>2. (o + 1) % BUFFER_SIZE = 0
      BY <1>1, <2>2
    <3>3. WrapsOnce((o + 1) + k - 1) /\ WrapsOnce(k - 1)
      BY <3>1, OnceAround
    <3>4. ((o + 1) + k - 1) % BUFFER_SIZE = k - 1
      <4> DEFINE x == (o + 1) + k - 1
      <4>1. x \in Int /\ BUFFER_SIZE \in Int /\ ~(x < BUFFER_SIZE) /\ x - BUFFER_SIZE = k - 1
        BY <1>1, <3>1
      <4>2. WrapsOnce(x)
        BY <3>3
      <4> HIDE DEF x
      <4>3. x % BUFFER_SIZE = k - 1
        BY <4>1, <4>2 DEF WrapsOnce
      <4> QED
        BY <4>3 DEF x
    <3>5. (k - 1) % BUFFER_SIZE = k - 1
      BY <3>1, <3>3 DEF WrapsOnce
    <3>6. 0 + k - 1 = k - 1
      BY <3>1
    <3> QED
      BY <3>2, <3>4, <3>5, <3>6
  <2> QED
    BY <1>1, <2>1, <2>2
<1> QED
  BY <1>2 DEF RingSeq

-------------------------------------------------------------------------------
(* The invariant of the channel is kept.                                       *)

(* Every step keeps the window between the indices.                         *)
LEMMA WindowKept ==
    ASSUME TypeOK, CreatedInOrder, MutualExclusion, SlotsConserved, WindowInv, [Next]_vars
    PROVE  WindowInv'
<1> USE DEF WindowInv
<1>1. /\ BUFFER_SIZE \in Nat \ {0} /\ Occupied \in 0 .. BUFFER_SIZE
      /\ in \in 0 .. BUFFER_SIZE - 1 /\ out \in 0 .. BUFFER_SIZE - 1
  BY ArgumentsAssumption, OccupiedBounds DEF TypeOK
<1>2. \A i \in 0 .. BUFFER_SIZE - 1 :
          (i + 1) % BUFFER_SIZE = IF i + 1 = BUFFER_SIZE THEN 0 ELSE i + 1
  BY <1>1
<1>3. CASE WindowStays
  BY <1>3 DEF WindowStays
<1>4. ASSUME NEW t \in Producers, WriteItem(t) PROVE WindowInv'
  BY <1>1, <1>4, WriteMoves
<1>5. ASSUME NEW t \in Producers, AdvanceIn(t) PROVE WindowInv'
  <2>1. /\ Occupied' = Occupied /\ FirstSlot' = FirstSlot /\ FirstSlot = out
        /\ NextSlot = in + 1 /\ NextSlot' = (in + 1) % BUFFER_SIZE
    BY <1>5, AdvanceInMoves
  <2> QED
    BY <1>1, <1>2, <2>1
<1>6. ASSUME NEW t \in Consumers, PrintItem(t) PROVE WindowInv'
  BY <1>1, <1>6, PrintMoves
<1>7. ASSUME NEW t \in Consumers, AdvanceOut(t) PROVE WindowInv'
  <2>1. /\ Occupied' = Occupied /\ NextSlot' = NextSlot /\ NextSlot = in
        /\ FirstSlot = out + 1 /\ FirstSlot' = (out + 1) % BUFFER_SIZE
    BY <1>7, AdvanceOutMoves
  <2> QED
    BY <1>1, <1>2, <2>1
<1>8. \/ WindowStays
      \/ \E t \in Producers : WriteItem(t) \/ AdvanceIn(t)
      \/ \E t \in Consumers : PrintItem(t) \/ AdvanceOut(t)
  BY StepCases, SteadySteps, ThreadNumbers
<1> QED
  BY <1>3, <1>4, <1>5, <1>6, <1>7, <1>8

(* Every step keeps what a consumer has copied at the head.                 *)
LEMMA CopyKept ==
    ASSUME TypeOK, CreatedInOrder, MutualExclusion, CopyInv, [Next]_vars
    PROVE  CopyInv'
<1> USE ThreadNumbers DEF CopyInv, MutualExclusion, InCriticalSection, GoTo
<1>1. CASE CreateThread
  <2>1. LoopTest(mainThread, 0) # "print"
    BY DEF LoopTest
  <2> QED
    BY <1>1, <2>1 DEF CreateThread, TypeOK, ring
<1>2. CASE JoinThread \/ UNCHANGED vars
  BY <1>2 DEF JoinThread, vars, ring
<1>3. ASSUME NEW t \in Threads, Lock(t) \/ Unlock(t) PROVE CopyInv'
  BY <1>3 DEF TypeOK, Lock, Unlock, ring
<1>4. ASSUME NEW t \in Producers, WaitEmpty(t) \/ WriteItem(t) \/ AdvanceIn(t)
      PROVE  CopyInv'
  BY <1>4 DEF TypeOK, WaitEmpty, WriteItem, AdvanceIn, ring
<1>5. ASSUME NEW t \in Threads, PostFull(t) \/ PostEmpty(t) PROVE CopyInv'
  <2>1. LoopTest(t, counter[t] + 1) # "print"
    BY DEF LoopTest
  <2> QED
    BY <1>5, <2>1 DEF TypeOK, PostFull, PostEmpty, EndIteration, ring
<1>6. ASSUME NEW t \in Consumers, WaitFull(t) \/ PrintItem(t) \/ AdvanceOut(t)
      PROVE  CopyInv'
  BY <1>6 DEF TypeOK, WaitFull, PrintItem, AdvanceOut, ring
<1>7. ASSUME NEW t \in Consumers, ReadItem(t) PROVE CopyInv'
  BY <1>7 DEF TypeOK, ReadItem, ring
<1> QED
  BY StepCases, <1>1, <1>2, <1>3, <1>4, <1>5, <1>6, <1>7

(* Every step keeps the loop counters.                                      *)
LEMMA LoopKept ==
    ASSUME TypeOK, CreatedInOrder, LoopInv, [Next]_vars
    PROVE  LoopInv'
<1> USE DEF LoopInv, BetweenWaitAndPost, GoTo
<1>1. \A t \in Threads : Iterations(t) \in Nat /\ counter[t] \in Nat
  BY ThreadNumbers, ArgumentsAssumption DEF Iterations, TypeOK
<1>2. CASE CreateThread
  <2>1. /\ mainThread \in Threads /\ counter[mainThread] = 0 /\ counter' = counter
        /\ pc' = [pc EXCEPT ![mainThread] = LoopTest(mainThread, 0)]
    <3>1. mainThread \in Threads /\ pc[mainThread] = "unborn"
      BY <1>2, ThreadNumbers DEF CreateThread, TypeOK, CreatedInOrder
    <3> QED
      BY <1>2, <3>1 DEF CreateThread
  <2>2. \/ LoopTest(mainThread, 0) = "wait" /\ 0 < Iterations(mainThread)
        \/ LoopTest(mainThread, 0) = "done"
    BY DEF LoopTest
  <2> QED
    BY <1>1, <2>1, <2>2 DEF TypeOK
<1>3. CASE JoinThread \/ UNCHANGED vars
  BY <1>3 DEF JoinThread, vars
<1>4. ASSUME NEW t \in Threads, \E label \in BetweenWaitAndPost : GoTo(t, label),
             pc[t] \in {"wait"} \cup BetweenWaitAndPost, counter' = counter
      PROVE  LoopInv'
  BY <1>4 DEF TypeOK
<1>5. ASSUME NEW t \in Threads, EndIteration(t) PROVE LoopInv'
  <2>1. \/ LoopTest(t, counter[t] + 1) = "wait" /\ counter[t] + 1 < Iterations(t)
        \/ LoopTest(t, counter[t] + 1) = "done"
    BY DEF LoopTest
  <2> QED
    BY <1>1, <1>5, <2>1 DEF TypeOK, EndIteration
<1>6. ASSUME NEW t \in Threads,
             \/ Lock(t) \/ Unlock(t) \/ WaitEmpty(t) \/ WriteItem(t) \/ AdvanceIn(t)
             \/ WaitFull(t) \/ ReadItem(t) \/ PrintItem(t) \/ AdvanceOut(t)
      PROVE  LoopInv'
  <2>1. CASE Lock(t) \/ Unlock(t) \/ WaitEmpty(t) \/ WaitFull(t)
    BY <1>4, <2>1 DEF Lock, Unlock, WaitEmpty, WaitFull
  <2>2. CASE WriteItem(t) \/ AdvanceIn(t)
    BY <1>4, <2>2 DEF WriteItem, AdvanceIn
  <2>3. CASE ReadItem(t) \/ PrintItem(t) \/ AdvanceOut(t)
    BY <1>4, <2>3 DEF ReadItem, PrintItem, AdvanceOut
  <2> QED
    BY <1>6, <2>1, <2>2, <2>3
<1>7. ASSUME NEW t \in Threads, PostFull(t) \/ PostEmpty(t) PROVE LoopInv'
  BY <1>5, <1>7 DEF PostFull, PostEmpty
<1> QED
  BY StepCases, ThreadNumbers, <1>2, <1>3, <1>6, <1>7

(* A printed line adds one to its consumer's lines and to no other's.          *)
LEMMA LinesAppend ==
    ASSUME NEW s \in Seq(Consumers \X Nat), NEW c \in Consumers, NEW i \in Nat,
           NEW d \in Consumers
    PROVE  /\ Cardinality(LinesOf(s, d)) \in Nat
           /\ Cardinality(LinesOf(Append(s, <<c, i>>), d))
                = Cardinality(LinesOf(s, d)) + IF c = d THEN 1 ELSE 0
<1> DEFINE u == Append(s, <<c, i>>)
           n == Len(s)
<1>1. n \in Nat /\ DOMAIN s = 1 .. n
  BY LenProperties
<1>2. /\ u \in Seq(Consumers \X Nat) /\ Len(u) = n + 1
      /\ \A k \in 1 .. n : u[k] = s[k]
      /\ u[n + 1] = <<c, i>>
  <2>1. <<c, i>> \in Consumers \X Nat
    OBVIOUS
  <2> QED
    BY <2>1, AppendProperties
<1> HIDE DEF u
<1>3. DOMAIN u = 1 .. n + 1
  BY <1>2, LenProperties
<1>4. IsFiniteSet(LinesOf(s, d)) /\ Cardinality(LinesOf(s, d)) \in Nat /\ n + 1 \notin LinesOf(s, d)
  <2>1. LinesOf(s, d) \subseteq 1 .. n /\ IsFiniteSet(1 .. n)
    BY <1>1, FS_Interval DEF LinesOf
  <2>2. IsFiniteSet(LinesOf(s, d))
    BY <2>1, FS_Subset
  <2> HIDE DEF n
  <2> QED
    BY <1>1, <2>1, <2>2, FS_CardinalityType
<1>5. CASE c = d
  <2>1. LinesOf(u, d) = LinesOf(s, d) \cup {n + 1}
    <3> HIDE DEF n
    <3> QED
      BY <1>1, <1>2, <1>3, <1>5 DEF LinesOf
  <2>2. Cardinality(LinesOf(u, d)) = Cardinality(LinesOf(s, d)) + 1
    BY <1>4, <2>1, FS_AddElement
  <2> QED
    BY <1>4, <1>5, <2>2 DEF u
<1>6. CASE c # d
  <2>1. LinesOf(u, d) = LinesOf(s, d)
    <3> HIDE DEF n
    <3> QED
      BY <1>1, <1>2, <1>3, <1>6 DEF LinesOf
  <2> QED
    BY <1>4, <1>6, <2>1 DEF u
<1> QED
  BY <1>5, <1>6

(* Every step keeps what was printed in step with the loops.                *)
LEMMA PrintedKept ==
    ASSUME TypeOK, CreatedInOrder, PrintedInv, [Next]_vars
    PROVE  PrintedInv'
<1> USE DEF PrintedInv, Leaving
<1>1. CASE CreateThread
  <2>1. /\ mainThread \in Threads /\ pc[mainThread] = "unborn"
        /\ pc' = [pc EXCEPT ![mainThread] = LoopTest(mainThread, 0)]
        /\ LoopTest(mainThread, 0) \in {"wait", "done"}
        /\ UNCHANGED <<counter, printed>>
    <3>1. mainThread \in Threads /\ pc[mainThread] = "unborn"
      BY <1>1, ThreadNumbers DEF CreateThread, TypeOK, CreatedInOrder
    <3>2. LoopTest(mainThread, 0) \in {"wait", "done"}
      BY DEF LoopTest
    <3> QED
      BY <1>1, <3>1, <3>2 DEF CreateThread, GoTo
  <2> QED
    BY <2>1, ThreadNumbers DEF TypeOK
<1>2. CASE JoinThread \/ UNCHANGED vars
  BY <1>2 DEF JoinThread, vars
<1>3. ASSUME NEW t \in Threads, NEW label, GoTo(t, label), UNCHANGED <<counter, printed>>,
             pc[t] \in Leaving <=> label \in Leaving
      PROVE  PrintedInv'
  BY <1>3, ThreadNumbers DEF TypeOK, GoTo
<1>4. ASSUME NEW t \in Producers, WaitEmpty(t) \/ WriteItem(t) \/ AdvanceIn(t) \/ PostFull(t)
      PROVE  PrintedInv'
  <2>1. /\ t \in Threads /\ t \notin Consumers /\ printed' = printed
        /\ \A c \in Consumers : pc'[c] = pc[c] /\ counter'[c] = counter[c]
    BY <1>4, ThreadNumbers
       DEF TypeOK, WaitEmpty, WriteItem, AdvanceIn, PostFull, EndIteration, GoTo
  <2> QED
    BY <2>1
<1>5. ASSUME NEW t \in Consumers, WaitFull(t) \/ ReadItem(t) \/ AdvanceOut(t)
      PROVE  PrintedInv'
  BY <1>3, <1>5, ThreadNumbers DEF WaitFull, ReadItem, AdvanceOut
<1>6. ASSUME NEW t \in Threads, Lock(t) \/ Unlock(t) PROVE PrintedInv'
  BY <1>3, <1>6 DEF Lock, Unlock
<1>7. ASSUME NEW t \in Consumers, PrintItem(t) PROVE PrintedInv'
  <2>1. /\ t \in Threads /\ pc[t] = "print" /\ pc' = [pc EXCEPT ![t] = "advance"]
        /\ counter' = counter /\ printed' = Append(printed, <<t, next_consumed[t]>>)
        /\ next_consumed[t] \in Nat /\ printed \in Seq(Consumers \X Nat)
    BY <1>7, ThreadNumbers DEF PrintItem, GoTo, TypeOK
  <2> SUFFICES ASSUME NEW c \in Consumers
               PROVE  Cardinality(LinesOf(printed', c))
                        = counter'[c] + IF pc'[c] \in Leaving THEN 1 ELSE 0
    OBVIOUS
  <2>2. /\ Cardinality(LinesOf(printed, c)) \in Nat
        /\ Cardinality(LinesOf(printed', c))
             = Cardinality(LinesOf(printed, c)) + IF t = c THEN 1 ELSE 0
    BY <2>1, LinesAppend
  <2>3. pc'[c] = IF t = c THEN "advance" ELSE pc[c]
    BY <2>1, ThreadNumbers DEF TypeOK
  <2>4. /\ Cardinality(LinesOf(printed, c)) = counter[c] + IF pc[c] \in Leaving THEN 1 ELSE 0
        /\ counter[c] \in Nat
    BY ThreadNumbers DEF TypeOK
  <2>5. CASE t = c
    BY <2>1, <2>2, <2>3, <2>4, <2>5
  <2>6. CASE t # c
    BY <2>1, <2>2, <2>3, <2>4, <2>6
  <2> QED
    BY <2>5, <2>6
<1>8. ASSUME NEW t \in Consumers, PostEmpty(t) PROVE PrintedInv'
  <2>1. /\ t \in Threads /\ pc[t] = "post" /\ printed' = printed
        /\ pc' = [pc EXCEPT ![t] = LoopTest(t, counter[t] + 1)]
        /\ counter' = [counter EXCEPT ![t] = @ + 1]
    BY <1>8, ThreadNumbers DEF PostEmpty, EndIteration, GoTo
  <2>2. LoopTest(t, counter[t] + 1) \in {"wait", "done"}
    BY DEF LoopTest
  <2> QED
    BY <2>1, <2>2, ThreadNumbers DEF TypeOK
<1> QED
  BY StepCases, <1>1, <1>2, <1>4, <1>5, <1>6, <1>7, <1>8

(* The relations of ChannelInv hold in every reachable state.                  *)
THEOREM ChannelInvariant == Spec => []ChannelInv
<1> USE ThreadNumbers, ArgumentsAssumption
<1>1. Init => ChannelInv
  <2> SUFFICES ASSUME Init PROVE ChannelInv
    OBVIOUS
  <2>1. WindowInv
    <3>1. /\ At(Producers, {"lock", "enter"}) = {} /\ At(Producers, {"advance"}) = {}
          /\ At(Consumers, {"advance", "unlock", "post"}) = {}
          /\ At(Consumers, {"advance"}) = {}
      BY DEF Init, At
    <3>2. /\ Cardinality(At(Producers, {"lock", "enter"})) = 0
          /\ Cardinality(At(Consumers, {"advance", "unlock", "post"})) = 0
      BY <3>1, FS_EmptySet
    <3>3. Occupied = 0
      BY <3>2 DEF Init, Occupied, initialEmpty
    <3> QED
      BY <3>1, <3>3 DEF Init, WindowInv, FirstSlot, NextSlot
  <2>2. CopyInv /\ LoopInv
    BY DEF Init, CopyInv, LoopInv, BetweenWaitAndPost
  <2>3. PrintedInv
    <3>1. \A c \in Consumers : LinesOf(printed, c) = {}
      BY DEF Init, LinesOf
    <3>2. \A c \in Consumers : Cardinality(LinesOf(printed, c)) = 0
      BY <3>1, FS_EmptySet
    <3> QED
      BY <3>2 DEF Init, PrintedInv, Leaving
  <2> QED
    BY <2>1, <2>2, <2>3 DEF ChannelInv
<1>2. /\ TypeOK /\ CreatedInOrder /\ MutualExclusion /\ SlotsConserved
      /\ ChannelInv /\ [Next]_vars
      => ChannelInv'
  BY WindowKept, CopyKept, LoopKept, PrintedKept DEF ChannelInv
<1> QED
  BY <1>1, <1>2, TypeCorrect, ThreadsCreatedInOrder, CriticalSectionsExclusive,
     SemaphoresConserveSlots, PTL DEF Spec

(* The items in the ring and the numbers of items sent, as Channel sees them.  *)
Queue == RingSeq(buffer, FirstSlot, Occupied)
Sent  == [p \in Producers |-> counter[p] + IF pc[p] \in Leaving THEN 1 ELSE 0]

(* Writing a slot is sending an item.                                       *)
LEMMA WriteIsPut ==
    ASSUME TypeOK, MutualExclusion, SlotsConserved, ChannelInv,
           NEW t \in Producers, WriteItem(t)
    PROVE  Channel!Put(t)
<1>1. /\ t \in Threads /\ t \in Nat /\ counter[t] \in Nat /\ NUM_PRODUCED \in Nat
      /\ pc[t] = "enter" /\ pc' = [pc EXCEPT ![t] = "advance"]
      /\ buffer' = [buffer EXCEPT ![in] = t * NUM_PRODUCED + counter[t]]
      /\ UNCHANGED <<counter, printed>>
  BY ThreadNumbers, ArgumentsAssumption DEF WriteItem, GoTo, TypeOK
<1>2. Sent[t] = counter[t] /\ Sent[t] < NUM_PRODUCED
  <2>1. counter[t] < Iterations(t)
    BY <1>1 DEF ChannelInv, LoopInv, BetweenWaitAndPost
  <2> QED
    BY <1>1, <2>1 DEF Sent, Leaving, Iterations
<1>3. Sent' = [Sent EXCEPT ![t] = @ + 1]
  <2>1. \A p \in Producers : pc'[p] = IF p = t THEN "advance" ELSE pc[p]
    BY <1>1, ThreadNumbers DEF TypeOK
  <2>2. \A p \in Producers : counter[p] + (IF pc'[p] \in Leaving THEN 1 ELSE 0)
             = IF p = t THEN Sent[p] + 1 ELSE Sent[p]
    BY <1>1, <1>2, <2>1, ThreadNumbers DEF TypeOK, Sent, Leaving
  <2>3. Sent' = [p \in Producers |-> counter[p] + IF pc'[p] \in Leaving THEN 1 ELSE 0]
    BY <1>1 DEF Sent
  <2>4. DOMAIN Sent = Producers
    BY DEF Sent
  <2> HIDE DEF Sent
  <2>5. Sent' = [p \in Producers |-> IF p = t THEN Sent[p] + 1 ELSE Sent[p]]
    BY <2>2, <2>3
  <2>6. Sent = [p \in Producers |-> Sent[p]]
    BY DEF Sent
  <2> QED
    BY <2>4, <2>5, <2>6
<1>4. /\ Occupied \in 0 .. BUFFER_SIZE - 1 /\ Occupied' = Occupied + 1
      /\ FirstSlot \in 0 .. BUFFER_SIZE /\ FirstSlot' = FirstSlot
      /\ in \in 0 .. BUFFER_SIZE - 1 /\ FirstSlot + Occupied \in {in, in + BUFFER_SIZE}
  <2>1. Occupied \in 0 .. BUFFER_SIZE /\ Occupied < BUFFER_SIZE
    BY <1>1, OccupiedBounds DEF Waiting
  <2>2. /\ Occupied' = Occupied + 1 /\ FirstSlot' = FirstSlot /\ FirstSlot = out
        /\ NextSlot = in
    BY WriteMoves
  <2> QED
    BY <2>1, <2>2, ArgumentsAssumption DEF TypeOK, ChannelInv, WindowInv
<1>5. t * NUM_PRODUCED + counter[t] \in Nat
  BY ONLY <1>1
<1>6. Queue' = Append(Queue, t * NUM_PRODUCED + counter[t])
  <2>1. buffer \in [0 .. BUFFER_SIZE - 1 -> Nat]
    BY DEF TypeOK
  <2>2. RingSeq([buffer EXCEPT ![in] = t * NUM_PRODUCED + counter[t]], FirstSlot, Occupied + 1)
          = Append(RingSeq(buffer, FirstSlot, Occupied), t * NUM_PRODUCED + counter[t])
    BY <1>4, <1>5, <2>1, RingAppend
  <2>3. Queue' = RingSeq(buffer', FirstSlot', Occupied')
    BY DEF Queue, RingSeq
  <2> QED
    BY <1>1, <1>4, <2>2, <2>3 DEF Queue
<1>7. Len(Queue) = Occupied
  <2>1. buffer \in [0 .. BUFFER_SIZE - 1 -> Nat] /\ Occupied \in 0 .. BUFFER_SIZE
    BY <1>4, ArgumentsAssumption DEF TypeOK
  <2> QED
    BY <1>4, <2>1, RingSeqType DEF Queue
<1>8. Len(Queue) < BUFFER_SIZE
  BY <1>4, <1>7, ArgumentsAssumption
<1> QED
  BY <1>1, <1>2, <1>3, <1>6, <1>8 DEF Channel!Put, Queue, RingSeq, Sent, Leaving

(* Printing an item is receiving it.                                        *)
LEMMA PrintIsTake ==
    ASSUME TypeOK, MutualExclusion, SlotsConserved, ChannelInv,
           NEW t \in Consumers, PrintItem(t)
    PROVE  Channel!Take(t)
<1>1. /\ t \in Threads /\ t \notin Producers /\ counter[t] \in Nat
      /\ pc[t] = "print" /\ pc' = [pc EXCEPT ![t] = "advance"]
      /\ printed' = Append(printed, <<t, next_consumed[t]>>)
      /\ UNCHANGED <<buffer, counter>>
  BY ThreadNumbers DEF PrintItem, GoTo, TypeOK, ring
<1>2. Cardinality(LinesOf(printed, t)) < num_consumed
  <2>1. counter[t] < Iterations(t)
    BY <1>1 DEF ChannelInv, LoopInv, BetweenWaitAndPost
  <2>2. Cardinality(LinesOf(printed, t)) = counter[t]
    BY <1>1 DEF ChannelInv, PrintedInv, Leaving
  <2> QED
    BY <1>1, <2>1, <2>2 DEF Iterations
<1>3. Sent' = Sent
  BY <1>1, ThreadNumbers DEF Sent, TypeOK
<1>4. /\ Occupied \in 1 .. BUFFER_SIZE /\ Occupied' = Occupied - 1
      /\ out \in 0 .. BUFFER_SIZE - 1 /\ FirstSlot = out /\ FirstSlot' = out + 1
  <2>1. Occupied \in 0 .. BUFFER_SIZE /\ Occupied >= 1
    BY <1>1, OccupiedBounds
  <2>2. Occupied' = Occupied - 1 /\ FirstSlot = out /\ FirstSlot' = out + 1
    BY PrintMoves
  <2> QED
    BY <2>1, <2>2, ArgumentsAssumption DEF TypeOK
<1>5. /\ RingSeq(buffer, out, Occupied) # <<>>
      /\ Head(RingSeq(buffer, out, Occupied)) = buffer[out]
      /\ Tail(RingSeq(buffer, out, Occupied)) = RingSeq(buffer, out + 1, Occupied - 1)
  BY <1>4, RingHead DEF TypeOK
<1>6. next_consumed[t] = buffer[out]
  BY <1>1 DEF ChannelInv, CopyInv
<1>7. Queue' = RingSeq(buffer', FirstSlot', Occupied')
  BY DEF Queue, RingSeq
<1>8. Queue # <<>> /\ Head(Queue) = next_consumed[t] /\ Queue' = Tail(Queue)
  BY <1>1, <1>4, <1>5, <1>6, <1>7 DEF Queue
<1>9. Channel!TakenBy(t) < num_consumed
  \* Channel has its own instance of the standard definition of Cardinality.
  <2>1. Channel!TakenBy(t) = Cardinality(LinesOf(printed, t))
    BY DEF Channel!TakenBy, Channel!Cardinality, Cardinality, LinesOf
  <2> QED
    BY <1>2, <2>1
<1>10. printed' = Append(printed, <<t, Head(Queue)>>)
  BY <1>1, <1>8
<1> QED
  BY <1>3, <1>8, <1>9, <1>10 DEF Channel!Take, Queue, RingSeq, Sent, Leaving

(* The steps that neither write nor print are invisible to the channel.        *)
LEMMA OthersInvisible ==
    ASSUME TypeOK, CreatedInOrder, MutualExclusion, SlotsConserved, ChannelInv,
           [Next]_vars,
           ~ \E t \in Producers : WriteItem(t), ~ \E t \in Consumers : PrintItem(t)
    PROVE  UNCHANGED Channel!vars
<1> USE ThreadNumbers
<1>1. buffer' = buffer /\ printed' = printed
  BY StepCases
     DEF CreateThread, JoinThread, Lock, Unlock, WaitEmpty, AdvanceIn, PostFull,
         WaitFull, ReadItem, AdvanceOut, PostEmpty, vars, ring
<1>2. Queue' = RingSeq(buffer', FirstSlot', Occupied')
  BY DEF Queue, RingSeq
<1>3. Queue' = Queue
  <2>1. CASE WindowStays
    BY <1>1, <1>2, <2>1 DEF WindowStays, Queue
  <2>2. ASSUME NEW t \in Producers, AdvanceIn(t) PROVE Queue' = Queue
    <3>1. Occupied' = Occupied /\ FirstSlot' = FirstSlot
      BY <2>2, AdvanceInMoves
    <3> QED
      BY <1>1, <1>2, <3>1 DEF Queue
  <2>3. ASSUME NEW t \in Consumers, AdvanceOut(t) PROVE Queue' = Queue
    <3>1. /\ Occupied' = Occupied
          /\ FirstSlot = out + 1 /\ FirstSlot' = (out + 1) % BUFFER_SIZE
      BY <2>3, AdvanceOutMoves
    <3>2. RingSeq(buffer, (out + 1) % BUFFER_SIZE, Occupied)
            = RingSeq(buffer, out + 1, Occupied)
      BY OccupiedBounds, RingWrap DEF TypeOK
    <3> QED
      BY <1>1, <1>2, <3>1, <3>2 DEF Queue
  <2>4. \/ WindowStays
        \/ \E t \in Producers : AdvanceIn(t)
        \/ \E t \in Consumers : AdvanceOut(t)
    BY StepCases, SteadySteps
  <2> QED
    BY <2>1, <2>2, <2>3, <2>4
<1>4. Sent' = Sent
  <2> SUFFICES ASSUME NEW p \in Producers
               PROVE  counter'[p] + (IF pc'[p] \in Leaving THEN 1 ELSE 0)
                        = counter[p] + IF pc[p] \in Leaving THEN 1 ELSE 0
    BY DEF Sent
  <2> USE DEF Leaving
  <2>0. p \in Threads /\ counter[p] \in Nat
    BY DEF TypeOK
  <2>1. CASE CreateThread
    <3>1. mainThread \in Threads /\ pc[mainThread] = "unborn"
      BY <2>1 DEF CreateThread, TypeOK, CreatedInOrder
    <3>2. LoopTest(mainThread, 0) \in {"wait", "done"}
      BY DEF LoopTest
    <3> QED
      BY <2>0, <2>1, <3>1, <3>2 DEF CreateThread, GoTo, TypeOK
  <2>2. CASE JoinThread \/ UNCHANGED vars
    BY <2>2 DEF JoinThread, vars
  <2>3. ASSUME NEW t \in Threads, Lock(t) \/ Unlock(t) \/ WaitEmpty(t) \/ AdvanceIn(t)
        PROVE  /\ counter'[p] = counter[p]
               /\ pc'[p] \in Leaving <=> pc[p] \in Leaving
    BY <2>0, <2>3 DEF Lock, Unlock, WaitEmpty, AdvanceIn, GoTo, TypeOK
  <2>4. ASSUME NEW t \in Producers, PostFull(t)
        PROVE  counter'[p] + (IF pc'[p] \in Leaving THEN 1 ELSE 0)
                 = counter[p] + IF pc[p] \in Leaving THEN 1 ELSE 0
    <3>1. LoopTest(t, counter[t] + 1) \in {"wait", "done"}
      BY DEF LoopTest
    <3> QED
      BY <2>0, <2>4, <3>1 DEF PostFull, EndIteration, GoTo, TypeOK
  <2>5. ASSUME NEW t \in Consumers,
               WaitFull(t) \/ ReadItem(t) \/ AdvanceOut(t) \/ PostEmpty(t)
        PROVE  pc'[p] = pc[p] /\ counter'[p] = counter[p]
    BY <2>0, <2>5
       DEF WaitFull, ReadItem, AdvanceOut, PostEmpty, EndIteration, GoTo, TypeOK
  <2> QED
    BY StepCases, <2>0, <2>1, <2>2, <2>3, <2>4, <2>5
<1> QED
  BY <1>1, <1>3, <1>4 DEF Channel!vars, Queue, RingSeq, Sent, Leaving

(* Every run of the threads is a run of the bounded first-in first-out         *)
(* channel, for every size of the ring and every number of threads and items.  *)
THEOREM RingImplementsChannel == Spec => ImplementsChannel
<1>1. Init => Channel!Init
  <2> SUFFICES ASSUME Init PROVE Channel!Init
    OBVIOUS
  <2>1. /\ At(Producers, {"lock", "enter"}) = {}
        /\ At(Consumers, {"advance", "unlock", "post"}) = {}
    BY ThreadNumbers DEF Init, At
  <2>2. /\ Cardinality(At(Producers, {"lock", "enter"})) = 0
        /\ Cardinality(At(Consumers, {"advance", "unlock", "post"})) = 0
    BY <2>1, FS_EmptySet
  <2>3. Occupied = 0
    BY <2>2, ArgumentsAssumption DEF Init, Occupied, initialEmpty
  <2>4. [k \in 1 .. Occupied |-> buffer[(FirstSlot + k - 1) % BUFFER_SIZE]] = <<>>
    BY <2>3
  <2>5. [p \in Producers |->
            counter[p] + IF pc[p] \in {"advance", "unlock", "post"} THEN 1 ELSE 0]
          = [p \in Producers |-> 0]
    BY ThreadNumbers DEF Init
  <2> QED
    BY <2>4, <2>5 DEF Init, Channel!Init
<1>2. /\ TypeOK /\ CreatedInOrder /\ MutualExclusion /\ SlotsConserved
      /\ ChannelInv /\ [Next]_vars
      => [Channel!Next]_Channel!vars
  <2> SUFFICES ASSUME TypeOK, CreatedInOrder, MutualExclusion, SlotsConserved,
                      ChannelInv, [Next]_vars
               PROVE  Channel!Next \/ UNCHANGED Channel!vars
    OBVIOUS
  <2>1. CASE \E t \in Producers : WriteItem(t)
    BY <2>1, WriteIsPut DEF Channel!Next
  <2>2. CASE \E t \in Consumers : PrintItem(t)
    BY <2>2, PrintIsTake DEF Channel!Next
  <2> QED
    BY <2>1, <2>2, OthersInvisible
<1> QED
  BY <1>1, <1>2, TypeCorrect, ThreadsCreatedInOrder, CriticalSectionsExclusive,
     SemaphoresConserveSlots, ChannelInvariant, PTL
     DEF Spec, ImplementsChannel, Channel!Spec

-------------------------------------------------------------------------------
(* When main returns, every item that was written and not printed is still in  *)
(* the ring.  To count them without a sum, each thread is paired with the      *)
(* numbers below that of the items it has handled.                             *)
Handled == [t \in Threads |-> counter[t] + IF pc[t] \in Leaving THEN 1 ELSE 0]

Pairs(G, handled) == {x \in G \X Nat : x[2] < handled[x[1]]}

CountsInv ==
    /\ IsFiniteSet(Pairs(Producers, Handled)) /\ IsFiniteSet(Pairs(Consumers, Handled))
    /\ Cardinality(Pairs(Producers, Handled)) = Occupied + Cardinality(Pairs(Consumers, Handled))

(* A thread that has ended has done all its iterations, and main goes past a   *)
(* thread only when it has ended.                                              *)
DoneInv ==
    /\ \A t \in Threads : pc[t] = "done" => counter[t] = Iterations(t)
    /\ mainPc = "join" => \A t \in Threads : t < mainThread => pc[t] = "done"
    /\ mainPc = "returned" => \A t \in Threads : pc[t] = "done"

(* One more item handled by t is one more pair, if t is of the group.          *)
LEMMA PairAdded ==
    ASSUME NEW G \in SUBSET Threads, NEW h \in [Threads -> Nat], NEW t \in Threads,
           IsFiniteSet(Pairs(G, h))
    PROVE  /\ IsFiniteSet(Pairs(G, [h EXCEPT ![t] = @ + 1]))
           /\ Cardinality(Pairs(G, [h EXCEPT ![t] = @ + 1]))
                = Cardinality(Pairs(G, h)) + IF t \in G THEN 1 ELSE 0
<1> DEFINE i == [h EXCEPT ![t] = @ + 1]
<1>1. i \in [Threads -> Nat] /\ i[t] = h[t] + 1 /\ h[t] \in Nat
      /\ \A u \in Threads : u # t => i[u] = h[u]
  OBVIOUS
<1> HIDE DEF i
<1>2. CASE t \in G
  <2>1. Pairs(G, i) = Pairs(G, h) \cup {<<t, h[t]>>}
    <3>1. ASSUME NEW u \in G, NEW k \in Nat
          PROVE  k < i[u] <=> k < h[u] \/ <<u, k>> = <<t, h[t]>>
      <4>1. u \in Threads /\ h[u] \in Nat
        OBVIOUS
      <4>2. CASE u = t
        BY <1>1, <4>1, <4>2
      <4>3. CASE u # t
        BY <1>1, <4>1, <4>3
      <4> QED BY <4>2, <4>3
    <3> QED BY <1>1, <1>2, <3>1 DEF Pairs
  <2>2. <<t, h[t]>> \notin Pairs(G, h)
    BY <1>1 DEF Pairs
  <2> DEFINE P == Pairs(G, h)
             x == <<t, h[t]>>
  <2>3. IsFiniteSet(P) /\ x \notin P /\ Cardinality(P) \in Nat
    BY <2>2, FS_CardinalityType
  <2> HIDE DEF P, x
  <2>4. IsFiniteSet(P \cup {x}) /\ Cardinality(P \cup {x}) = Cardinality(P) + 1
    BY <2>3, FS_AddElement
  <2> QED BY <1>2, <2>1, <2>4 DEF i, P, x
<1>3. CASE t \notin G
  <2>1. Pairs(G, i) = Pairs(G, h)
    BY <1>1, <1>3 DEF Pairs
  <2> QED BY <1>3, <2>1, FS_CardinalityType DEF i
<1> QED BY <1>2, <1>3

(* Only writing and printing handle an item.                                   *)
LEMMA HandledStays ==
    ASSUME TypeOK, CreatedInOrder, [Next]_vars,
           ~ \E t \in Producers : WriteItem(t), ~ \E t \in Consumers : PrintItem(t)
    PROVE  Handled' = Handled
<1> USE ThreadNumbers
<1> SUFFICES ASSUME NEW u \in Threads
             PROVE  counter'[u] + (IF pc'[u] \in Leaving THEN 1 ELSE 0)
                      = counter[u] + IF pc[u] \in Leaving THEN 1 ELSE 0
  BY DEF Handled
<1> USE DEF Leaving
<1>0. counter[u] \in Nat
  BY DEF TypeOK
<1>1. CASE CreateThread
  <2>1. mainThread \in Threads /\ pc[mainThread] = "unborn"
    BY <1>1 DEF CreateThread, TypeOK, CreatedInOrder
  <2>2. LoopTest(mainThread, 0) \in {"wait", "done"}
    BY DEF LoopTest
  <2> QED
    BY <1>0, <1>1, <2>1, <2>2 DEF CreateThread, GoTo, TypeOK
<1>2. CASE JoinThread \/ UNCHANGED vars
  BY <1>2 DEF JoinThread, vars
<1>3. ASSUME NEW t \in Threads, Lock(t) \/ Unlock(t)
      PROVE  counter'[u] = counter[u] /\ (pc'[u] \in Leaving <=> pc[u] \in Leaving)
  BY <1>0, <1>3 DEF Lock, Unlock, GoTo, TypeOK
<1>4. ASSUME NEW t \in Producers, WaitEmpty(t) \/ AdvanceIn(t)
      PROVE  counter'[u] = counter[u] /\ (pc'[u] \in Leaving <=> pc[u] \in Leaving)
  BY <1>0, <1>4 DEF WaitEmpty, AdvanceIn, GoTo, TypeOK
<1>5. ASSUME NEW t \in Consumers, WaitFull(t) \/ ReadItem(t) \/ AdvanceOut(t)
      PROVE  counter'[u] = counter[u] /\ (pc'[u] \in Leaving <=> pc[u] \in Leaving)
  BY <1>0, <1>5 DEF WaitFull, ReadItem, AdvanceOut, GoTo, TypeOK
<1>6. ASSUME NEW t \in Threads, pc[t] = "post", EndIteration(t)
      PROVE  counter'[u] + (IF pc'[u] \in Leaving THEN 1 ELSE 0)
               = counter[u] + IF pc[u] \in Leaving THEN 1 ELSE 0
  <2>1. LoopTest(t, counter[t] + 1) \in {"wait", "done"}
    BY DEF LoopTest
  <2> QED
    BY <1>0, <1>6, <2>1 DEF EndIteration, GoTo, TypeOK
<1>7. ASSUME NEW t \in Producers, PostFull(t)
      PROVE  pc[t] = "post" /\ EndIteration(t) /\ t \in Threads
  BY <1>7 DEF PostFull
<1>8. ASSUME NEW t \in Consumers, PostEmpty(t)
      PROVE  pc[t] = "post" /\ EndIteration(t) /\ t \in Threads
  BY <1>8 DEF PostEmpty
<1> QED
  BY StepCases, <1>0, <1>1, <1>2, <1>3, <1>4, <1>5, <1>6, <1>7, <1>8

(* A thread that writes or prints has handled one item more.                   *)
LEMMA HandledGrows ==
    ASSUME TypeOK, NEW t \in Threads, pc[t] \in {"enter", "print"},
           pc' = [pc EXCEPT ![t] = "advance"], counter' = counter
    PROVE  /\ Handled \in [Threads -> Nat]
           /\ Handled' = [Handled EXCEPT ![t] = @ + 1]
<1>1. \A u \in Threads : counter[u] \in Nat /\ pc'[u] = IF u = t THEN "advance" ELSE pc[u]
  BY DEF TypeOK
<1>2. Handled \in [Threads -> Nat]
  BY <1>1 DEF Handled
<1>3. \A u \in Threads : counter[u] + (IF pc'[u] \in Leaving THEN 1 ELSE 0)
         = IF u = t THEN Handled[u] + 1 ELSE Handled[u]
  BY <1>1 DEF Handled, Leaving
<1>4. Handled' = [u \in Threads |-> counter[u] + IF pc'[u] \in Leaving THEN 1 ELSE 0]
  BY DEF Handled
<1> HIDE DEF Handled
<1> QED BY <1>2, <1>3, <1>4

LEMMA CountsKept ==
    ASSUME TypeOK, CreatedInOrder, MutualExclusion, SlotsConserved, CountsInv, [Next]_vars
    PROVE  CountsInv'
<1>1. /\ Producers \in SUBSET Threads /\ Consumers \in SUBSET Threads
      /\ Producers \cap Consumers = {}
  BY ThreadNumbers
<1>2. /\ Cardinality(Pairs(Producers, Handled)) \in Nat
      /\ Cardinality(Pairs(Consumers, Handled)) \in Nat
  BY FS_CardinalityType DEF CountsInv
<1>3. \A G : Pairs(G, Handled)' = Pairs(G, Handled')
  BY DEF Pairs
<1>4. ASSUME NEW t \in Producers, WriteItem(t) PROVE CountsInv'
  <2>1. /\ t \in Threads /\ t \notin Consumers /\ pc[t] = "enter"
        /\ pc' = [pc EXCEPT ![t] = "advance"] /\ counter' = counter
    BY <1>1, <1>4 DEF WriteItem, GoTo
  <2>2. Handled \in [Threads -> Nat] /\ Handled' = [Handled EXCEPT ![t] = @ + 1]
    BY <2>1, HandledGrows
  <2>3. Occupied \in Int /\ Occupied' = Occupied + 1
    BY <1>4, WriteMoves
  <2>4. /\ IsFiniteSet(Pairs(Producers, Handled')) /\ IsFiniteSet(Pairs(Consumers, Handled'))
        /\ Cardinality(Pairs(Producers, Handled')) = Cardinality(Pairs(Producers, Handled)) + 1
        /\ Cardinality(Pairs(Consumers, Handled')) = Cardinality(Pairs(Consumers, Handled)) + 0
    BY <1>1, <2>1, <2>2, PairAdded DEF CountsInv
  <2> QED BY <1>2, <1>3, <2>3, <2>4 DEF CountsInv
<1>5. ASSUME NEW t \in Consumers, PrintItem(t) PROVE CountsInv'
  <2>1. /\ t \in Threads /\ t \notin Producers /\ pc[t] = "print"
        /\ pc' = [pc EXCEPT ![t] = "advance"] /\ counter' = counter
    BY <1>1, <1>5 DEF PrintItem, GoTo
  <2>2. Handled \in [Threads -> Nat] /\ Handled' = [Handled EXCEPT ![t] = @ + 1]
    BY <2>1, HandledGrows
  <2>3. Occupied \in Int /\ Occupied' = Occupied - 1
    BY <1>5, PrintMoves
  <2>4. /\ IsFiniteSet(Pairs(Producers, Handled')) /\ IsFiniteSet(Pairs(Consumers, Handled'))
        /\ Cardinality(Pairs(Producers, Handled')) = Cardinality(Pairs(Producers, Handled)) + 0
        /\ Cardinality(Pairs(Consumers, Handled')) = Cardinality(Pairs(Consumers, Handled)) + 1
    BY <1>1, <2>1, <2>2, PairAdded DEF CountsInv
  <2> QED BY <1>2, <1>3, <2>3, <2>4 DEF CountsInv
<1>6. CASE ~ (\E t \in Producers : WriteItem(t)) /\ ~ (\E t \in Consumers : PrintItem(t))
  <2>1. Handled' = Handled
    BY <1>6, HandledStays
  <2>2. Occupied' = Occupied
    <3>1. ASSUME WindowStays PROVE Occupied' = Occupied
      BY <3>1 DEF WindowStays
    <3>2. ASSUME NEW t \in Producers, AdvanceIn(t) PROVE Occupied' = Occupied
      BY <3>2, AdvanceInMoves
    <3>3. ASSUME NEW t \in Consumers, AdvanceOut(t) PROVE Occupied' = Occupied
      BY <3>3, AdvanceOutMoves
    <3>4. \/ WindowStays
          \/ \E t \in Producers : AdvanceIn(t)
          \/ \E t \in Consumers : AdvanceOut(t)
      BY <1>6, StepCases, SteadySteps, ThreadNumbers
    <3> QED BY <3>1, <3>2, <3>3, <3>4
  <2> QED BY <1>3, <2>1, <2>2 DEF CountsInv
<1> QED BY <1>4, <1>5, <1>6

LEMMA DoneKept ==
    ASSUME TypeOK, CreatedInOrder, LoopInv, DoneInv, [Next]_vars
    PROVE  DoneInv'
<1> USE ThreadNumbers
<1>1. \A t \in Threads : Iterations(t) \in Nat /\ counter[t] \in Nat /\ t \in Nat
  BY ArgumentsAssumption DEF Iterations, TypeOK
<1>2. CASE CreateThread
  <2>1. /\ mainPc = "create" /\ mainThread \in Threads
        /\ counter[mainThread] = 0 /\ counter' = counter
        /\ pc[mainThread] = "unborn"
        /\ pc' = [pc EXCEPT ![mainThread] = LoopTest(mainThread, 0)]
        /\ \/ mainPc' = "create"
           \/ mainPc' = "join" /\ mainThread' = 0
    BY <1>2 DEF CreateThread, MainAdvance, GoTo, TypeOK, CreatedInOrder, LoopInv
  <2>2. LoopTest(mainThread, 0) = "done" => 0 = Iterations(mainThread)
    BY <1>1, <2>1 DEF LoopTest
  <2>3. \A t \in Threads : pc'[t] = "done" => counter'[t] = Iterations(t)
    BY <2>1, <2>2 DEF DoneInv, TypeOK
  <2> QED BY <1>1, <2>1, <2>3 DEF DoneInv, Iterations
<1>3. CASE JoinThread
  <2>1. /\ mainPc = "join" /\ pc[mainThread] = "done" /\ pc' = pc /\ counter' = counter
        /\ \/ mainThread' = mainThread + 1 /\ mainPc' = "join"
           \/ mainThread + 1 \notin Threads /\ mainPc' = "returned"
    BY <1>3 DEF JoinThread, MainAdvance
  <2>2. mainThread \in Threads /\ \A t \in Threads : t < mainThread + 1 => pc[t] = "done"
    BY <1>1, <2>1 DEF TypeOK, DoneInv
  <2>3. mainThread + 1 \notin Threads => \A t \in Threads : t < mainThread + 1
    BY <2>2, ArgumentsAssumption DEF Threads
  <2> QED BY <2>1, <2>2, <2>3 DEF DoneInv, Iterations
<1>4. ASSUME NEW t \in Threads, NEW label, pc' = [pc EXCEPT ![t] = label],
             pc[t] # "done", UNCHANGED main,
             \/ label # "done" /\ counter' = counter
             \/ /\ counter' = [counter EXCEPT ![t] = @ + 1]
                /\ label = "done" => counter[t] + 1 = Iterations(t)
      PROVE  DoneInv'
  <2>1. \A u \in Threads : u # t => pc'[u] = pc[u] /\ counter'[u] = counter[u]
    BY <1>4 DEF TypeOK
  <2>2. pc'[t] = label /\ (label = "done" => counter'[t] = Iterations(t))
    BY <1>4 DEF TypeOK
  <2>3. \A u \in Threads : pc'[u] = "done" => counter'[u] = Iterations(u)
    BY <2>1, <2>2 DEF DoneInv
  <2> QED BY <1>4, <2>1, <2>3 DEF DoneInv, main, Iterations
<1>5. ASSUME NEW t \in Threads, Lock(t) \/ Unlock(t) PROVE DoneInv'
  BY <1>4, <1>5 DEF Lock, Unlock, GoTo
<1>6. ASSUME NEW t \in Producers, WaitEmpty(t) \/ WriteItem(t) \/ AdvanceIn(t) PROVE DoneInv'
  BY <1>4, <1>6 DEF WaitEmpty, WriteItem, AdvanceIn, GoTo
<1>7. ASSUME NEW t \in Consumers, WaitFull(t) \/ ReadItem(t) \/ PrintItem(t) \/ AdvanceOut(t)
      PROVE  DoneInv'
  BY <1>4, <1>7 DEF WaitFull, ReadItem, PrintItem, AdvanceOut, GoTo
<1>8. ASSUME NEW t \in Threads, pc[t] = "post", EndIteration(t), UNCHANGED main PROVE DoneInv'
  <2>1. counter[t] < Iterations(t)
    BY <1>8 DEF LoopInv, BetweenWaitAndPost
  <2>2. LoopTest(t, counter[t] + 1) = "done" => counter[t] + 1 = Iterations(t)
    BY <1>1, <2>1 DEF LoopTest
  <2> QED BY <1>4, <1>8, <2>2 DEF EndIteration, GoTo
<1>9. ASSUME NEW t \in Producers, PostFull(t) PROVE DoneInv'
  BY <1>8, <1>9 DEF PostFull
<1>10. ASSUME NEW t \in Consumers, PostEmpty(t) PROVE DoneInv'
  BY <1>8, <1>10 DEF PostEmpty
<1>11. CASE UNCHANGED vars
  BY <1>11 DEF vars, DoneInv, Iterations
<1> QED
  BY StepCases, <1>2, <1>3, <1>5, <1>6, <1>7, <1>9, <1>10, <1>11

(* What a group has handled when each of its threads has handled n items.      *)
LEMMA AllHandled ==
    ASSUME NEW first \in Nat, NEW size \in Nat, NEW n \in Nat,
           first .. first + size - 1 \subseteq Threads,
           \A t \in first .. first + size - 1 : Handled[t] = n
    PROVE  Cardinality(Pairs(first .. first + size - 1, Handled)) = size * n
<1> DEFINE G == first .. first + size - 1
<1>1. Pairs(G, Handled) = G \X (0 .. n - 1)
  BY DEF Pairs
<1>2. IsFiniteSet(G) /\ Cardinality(G) = size
  BY FS_Interval
<1>3. IsFiniteSet(0 .. n - 1) /\ Cardinality(0 .. n - 1) = n
  <2>1. 0 \in Int /\ n - 1 \in Int
    OBVIOUS
  <2> QED BY <2>1, FS_Interval
<1> HIDE DEF G
<1>4. Cardinality(G \X (0 .. n - 1)) = size * n
  BY <1>2, <1>3, FS_Product
<1> QED BY <1>1, <1>4 DEF G

(* When the remainder that no consumer is asked to take (line 88) does not fit *)
(* in the ring, main never returns: for then every thread would have ended,    *)
(* and the items that were written and not printed would all be in the ring.   *)
THEOREM NeverReturns ==
    ASSUME total_items % CONSUMER_NUM > BUFFER_SIZE
    PROVE  Spec => [](mainPc # "returned")
<1> USE ThreadNumbers, ArgumentsAssumption
<1>1. Init => CountsInv /\ DoneInv
  <2> SUFFICES ASSUME Init PROVE CountsInv /\ DoneInv
    OBVIOUS
  <2>1. \A t \in Threads : Handled[t] = 0
    BY DEF Init, Handled, Leaving
  <2>2. Pairs(Producers, Handled) = {} /\ Pairs(Consumers, Handled) = {}
    BY <2>1 DEF Pairs
  <2>3. /\ At(Producers, {"lock", "enter"}) = {}
        /\ At(Consumers, {"advance", "unlock", "post"}) = {}
    BY DEF Init, At
  <2>4. Occupied = 0
    <3>1. /\ Cardinality(At(Producers, {"lock", "enter"})) = 0
          /\ Cardinality(At(Consumers, {"advance", "unlock", "post"})) = 0
      BY <2>3, FS_EmptySet
    <3> QED BY <3>1 DEF Init, Occupied, initialEmpty
  <2>5. CountsInv
    BY <2>2, <2>4, FS_EmptySet DEF CountsInv
  <2> QED BY <2>5 DEF Init, DoneInv
<1>2. TypeOK /\ CreatedInOrder /\ MutualExclusion /\ SlotsConserved /\ ChannelInv
      /\ CountsInv /\ DoneInv /\ [Next]_vars
      => CountsInv' /\ DoneInv'
  BY CountsKept, DoneKept DEF ChannelInv
<1>3. TypeOK /\ SlotsConserved /\ CountsInv /\ DoneInv => mainPc # "returned"
  <2> SUFFICES ASSUME TypeOK, SlotsConserved, CountsInv, DoneInv, mainPc = "returned"
               PROVE  FALSE
    OBVIOUS
  <2>1. \A t \in Threads : Handled[t] = Iterations(t)
    <3>1. \A t \in Threads : pc[t] = "done" /\ counter[t] = Iterations(t) /\ counter[t] \in Nat
      BY DEF DoneInv, TypeOK
    <3> QED BY <3>1 DEF Handled, Leaving
  <2>2. Cardinality(Pairs(Producers, Handled)) = total_items
    <3>1. Producers = 0 .. 0 + PRODUCER_NUM - 1
      BY DEF Producers
    <3>2. \A t \in Producers : Handled[t] = NUM_PRODUCED
      BY <2>1 DEF Iterations
    <3>3. Cardinality(Pairs(0 .. 0 + PRODUCER_NUM - 1, Handled)) = PRODUCER_NUM * NUM_PRODUCED
      BY <3>1, <3>2, AllHandled
    <3> QED BY <3>1, <3>3 DEF total_items
  <2>3. Cardinality(Pairs(Consumers, Handled)) = CONSUMER_NUM * num_consumed
    <3>1. \A t \in Consumers : Handled[t] = num_consumed
      BY <2>1 DEF Iterations
    <3>2. Cardinality(Pairs(PRODUCER_NUM .. PRODUCER_NUM + CONSUMER_NUM - 1, Handled))
            = CONSUMER_NUM * num_consumed
      BY <3>1, AllHandled DEF Consumers
    <3> QED BY <3>2 DEF Consumers
  <2>4. PICK x \in Nat, y \in Nat \ {0}, o \in 0 .. BUFFER_SIZE :
          /\ x = total_items /\ y = CONSUMER_NUM /\ o = Occupied
          /\ x = o + y * (x \div y)
          /\ x % y > BUFFER_SIZE
    <3>1. Occupied \in 0 .. BUFFER_SIZE
      BY OccupiedBounds
    <3> QED BY <2>2, <2>3, <3>1 DEF CountsInv, num_consumed
  <2>5. x = y * (x \div y) + (x % y) /\ x % y \in Nat /\ x \div y \in Nat
    <3>1. \A u \in Nat, v \in Nat \ {0} :
            u = v * (u \div v) + (u % v) /\ u % v \in Nat /\ u \div v \in Nat
      OBVIOUS
    <3> QED BY ONLY <3>1, x \in Nat, y \in Nat \ {0}
  <2>6. PICK q \in Nat, r \in Nat : q = x \div y /\ r = x % y
    BY <2>5
  <2>7. PICK z \in Nat : z = y * q
    BY ONLY y \in Nat \ {0}, q \in Nat
  <2> QED BY <2>4, <2>5, <2>6, <2>7
<1> QED
  BY <1>1, <1>2, <1>3, TypeCorrect, ThreadsCreatedInOrder, CriticalSectionsExclusive,
     SemaphoresConserveSlots, ChannelInvariant, PTL DEF Spec

===============================================================================
