------------------------------ MODULE ProConCode ------------------------------
(* Operating System/Assignment5/ProConCode.c: main starts producer threads and *)
(* consumer threads that share a ring of BUFFER_SIZE slots guarded by two      *)
(* counting semaphores and a mutex, and then joins them all.                   *)
(* One step per call or assignment that another thread can observe.            *)
EXTENDS Naturals, Sequences, FiniteSets

CONSTANTS BUFFER_SIZE,   \* the slots of the ring (16 in the source)
          PRODUCER_NUM,  \* argv[1]
          CONSUMER_NUM,  \* argv[2]
          NUM_PRODUCED   \* argv[3], the items each producer produces

(* main returns -1 before it starts a thread unless the three arguments are    *)
(* positive (lines 37-50).                                                     *)
ASSUME ArgumentsAssumption ==
    /\ BUFFER_SIZE \in Nat \ {0}
    /\ PRODUCER_NUM \in Nat \ {0}
    /\ CONSUMER_NUM \in Nat \ {0}
    /\ NUM_PRODUCED \in Nat \ {0}

(* Threads are numbered in the order in which main creates and joins them: the *)
(* producers first, then the consumers.                                        *)
Producers == 0 .. PRODUCER_NUM - 1
Consumers == PRODUCER_NUM .. PRODUCER_NUM + CONSUMER_NUM - 1
Threads   == 0 .. PRODUCER_NUM + CONSUMER_NUM - 1

total_items  == PRODUCER_NUM * NUM_PRODUCED
\* Mutant of num_consumed: the quota is rounded up.
num_consumed_RoundedUp == (total_items + CONSUMER_NUM - 1) \div CONSUMER_NUM

num_consumed == total_items \div CONSUMER_NUM

Iterations(t) == IF t \in Producers THEN NUM_PRODUCED ELSE num_consumed

NoThread == PRODUCER_NUM + CONSUMER_NUM    \* no thread has this number

VARIABLES
    buffer, in, out,   \* the ring, the next slot to write and the next to read
    empty, full,       \* the values of the two semaphores
    mutex,             \* the thread that holds the mutex, or NoThread
    pc,                \* where each thread is
    counter,           \* each thread's loop counter
    next_consumed,     \* each consumer's local copy of the item it has read
    mainPc, mainThread,\* what main is doing, and the thread it does it to
    printed            \* standard output: the pairs <<consumer, item>>

vars == <<buffer, in, out, empty, full, mutex, pc, counter, next_consumed,
          mainPc, mainThread, printed>>
ring == <<buffer, in, out>>
main == <<mainPc, mainThread>>

\* Mutant of initialEmpty: one slot too many.
initialEmpty_OneTooMany == BUFFER_SIZE + 1

(* The value given to the semaphore empty (line 57).                           *)
initialEmpty == BUFFER_SIZE

Init ==
    /\ buffer = [s \in 0 .. BUFFER_SIZE - 1 |-> 0]
    /\ in = 0
    /\ out = 0
    /\ empty = initialEmpty
    /\ full = 0
    /\ mutex = NoThread
    /\ pc = [t \in Threads |-> "unborn"]
    /\ counter = [t \in Threads |-> 0]
    /\ next_consumed = [t \in Consumers |-> 0]
    /\ mainPc = "create"
    /\ mainThread = 0
    /\ printed = <<>>

(* The loop test of a thread that has done k iterations.                       *)
LoopTest(t, k) == IF k < Iterations(t) THEN "wait" ELSE "done"

GoTo(t, label) == pc' = [pc EXCEPT ![t] = label]

-------------------------------------------------------------------------------
(* main *)

MainAdvance(phase) ==
    IF mainThread + 1 \in Threads
    THEN mainThread' = mainThread + 1 /\ UNCHANGED mainPc
    ELSE mainThread' = 0 /\ mainPc' = phase

CreateThread ==
    /\ mainPc = "create"
    /\ GoTo(mainThread, LoopTest(mainThread, 0))
    /\ MainAdvance("join")
    /\ UNCHANGED <<ring, empty, full, mutex, counter, next_consumed, printed>>

JoinThread ==
    /\ mainPc = "join"
    /\ pc[mainThread] = "done"
    /\ MainAdvance("returned")
    /\ UNCHANGED <<ring, empty, full, mutex, pc, counter, next_consumed, printed>>

-------------------------------------------------------------------------------
(* The parts of a loop iteration that producers and consumers share.           *)

\* Mutant of Lock: the mutex is taken without waiting for it.
Lock_NoWait(t) ==
    /\ pc[t] = "lock"
    /\ mutex' = t
    /\ GoTo(t, "enter")
    /\ UNCHANGED <<ring, empty, full, counter, next_consumed, main, printed>>

Lock(t) ==
    /\ pc[t] = "lock"
    /\ mutex = NoThread
    /\ mutex' = t
    /\ GoTo(t, "enter")
    /\ UNCHANGED <<ring, empty, full, counter, next_consumed, main, printed>>

Unlock(t) ==
    /\ pc[t] = "unlock"
    /\ mutex' = NoThread
    /\ GoTo(t, "post")
    /\ UNCHANGED <<ring, empty, full, counter, next_consumed, main, printed>>

EndIteration(t) ==
    /\ counter' = [counter EXCEPT ![t] = @ + 1]
    /\ GoTo(t, LoopTest(t, counter[t] + 1))

-------------------------------------------------------------------------------
(* producer() *)

WaitEmpty(t) ==
    /\ pc[t] = "wait"
    /\ empty > 0
    /\ empty' = empty - 1
    /\ GoTo(t, "lock")
    /\ UNCHANGED <<ring, full, mutex, counter, next_consumed, main, printed>>

WriteItem(t) ==
    /\ pc[t] = "enter"
    /\ buffer' = [buffer EXCEPT ![in] = t * NUM_PRODUCED + counter[t]]
    /\ GoTo(t, "advance")
    /\ UNCHANGED <<in, out, empty, full, mutex, counter, next_consumed, main, printed>>

AdvanceIn(t) ==
    /\ pc[t] = "advance"
    /\ in' = (in + 1) % BUFFER_SIZE
    /\ GoTo(t, "unlock")
    /\ UNCHANGED <<buffer, out, empty, full, mutex, counter, next_consumed, main, printed>>

PostFull(t) ==
    /\ pc[t] = "post"
    /\ full' = full + 1
    /\ EndIteration(t)
    /\ UNCHANGED <<ring, empty, mutex, next_consumed, main, printed>>

Producer(t) ==
    WaitEmpty(t) \/ Lock(t) \/ WriteItem(t) \/ AdvanceIn(t) \/ Unlock(t) \/ PostFull(t)

-------------------------------------------------------------------------------
(* consumer() *)

WaitFull(t) ==
    /\ pc[t] = "wait"
    /\ full > 0
    /\ full' = full - 1
    /\ GoTo(t, "lock")
    /\ UNCHANGED <<ring, empty, mutex, counter, next_consumed, main, printed>>

ReadItem(t) ==
    /\ pc[t] = "enter"
    /\ next_consumed' = [next_consumed EXCEPT ![t] = buffer[out]]
    /\ GoTo(t, "print")
    /\ UNCHANGED <<ring, empty, full, mutex, counter, main, printed>>

PrintItem(t) ==
    /\ pc[t] = "print"
    /\ printed' = Append(printed, <<t, next_consumed[t]>>)
    /\ GoTo(t, "advance")
    /\ UNCHANGED <<ring, empty, full, mutex, counter, next_consumed, main>>

AdvanceOut(t) ==
    /\ pc[t] = "advance"
    /\ out' = (out + 1) % BUFFER_SIZE
    /\ GoTo(t, "unlock")
    /\ UNCHANGED <<buffer, in, empty, full, mutex, counter, next_consumed, main, printed>>

\* Mutant of PostEmpty: the slot is not given back.
PostEmpty_Forgotten(t) ==
    /\ pc[t] = "post"
    /\ EndIteration(t)
    /\ UNCHANGED <<ring, empty, full, mutex, next_consumed, main, printed>>

PostEmpty(t) ==
    /\ pc[t] = "post"
    /\ empty' = empty + 1
    /\ EndIteration(t)
    /\ UNCHANGED <<ring, full, mutex, next_consumed, main, printed>>

Consumer(t) ==
    WaitFull(t) \/ Lock(t) \/ ReadItem(t) \/ PrintItem(t) \/ AdvanceOut(t)
                \/ Unlock(t) \/ PostEmpty(t)

-------------------------------------------------------------------------------
(* The process has exited: main returned 0.                                    *)
Exited == mainPc = "returned" /\ UNCHANGED vars

Next ==
    \/ CreateThread
    \/ JoinThread
    \/ \E t \in Producers : Producer(t)
    \/ \E t \in Consumers : Consumer(t)
    \/ Exited

(* The scheduler never stops running a thread that can run.                    *)
Fairness ==
    /\ WF_vars(CreateThread)
    /\ WF_vars(JoinThread)
    /\ \A t \in Producers : WF_vars(Producer(t))
    /\ \A t \in Consumers : WF_vars(Consumer(t))

Spec == Init /\ [][Next]_vars

FairSpec == Spec /\ Fairness

-------------------------------------------------------------------------------
(* Properties *)

At(S, labels) == {t \in S : pc[t] \in labels}

(* Every variable has its type; a semaphore never exceeds the ring.            *)
TypeOK ==
    /\ buffer \in [0 .. BUFFER_SIZE - 1 -> Nat]
    /\ in \in 0 .. BUFFER_SIZE - 1
    /\ out \in 0 .. BUFFER_SIZE - 1
    /\ empty \in Nat
    /\ full \in Nat
    /\ mutex \in Threads \cup {NoThread}
    /\ pc \in [Threads -> {"unborn", "wait", "lock", "enter", "print", "advance",
                           "unlock", "post", "done"}]
    /\ \A t \in Producers : pc[t] # "print"
    /\ counter \in [Threads -> Nat]
    /\ next_consumed \in [Consumers -> Nat]
    /\ mainPc \in {"create", "join", "returned"}
    /\ mainThread \in Threads
    /\ printed \in Seq(Consumers \X Nat)

(* While main is still creating threads, the ones it has not reached have not  *)
(* started: pthread_create (lines 79, 94) runs once for each thread.           *)
CreatedInOrder ==
    mainPc = "create" => \A t \in Threads : t >= mainThread => pc[t] = "unborn"

InCriticalSection(t) == pc[t] \in {"enter", "print", "advance", "unlock"}

(* A thread is between pthread_mutex_lock and pthread_mutex_unlock only while  *)
(* it is the one that holds the mutex, so the slots and the indices in and out *)
(* are never used by two threads at once.                                      *)
MutualExclusion == \A t \in Threads : InCriticalSection(t) <=> mutex = t

BetweenWaitAndPost == {"lock", "enter", "print", "advance", "unlock", "post"}

(* The two semaphores account for every slot: one is free, or filled, or       *)
(* reserved by a thread that is between its sem_wait and its sem_post.         *)
SlotsConserved ==
    empty + full + Cardinality(At(Threads, BetweenWaitAndPost)) = BUFFER_SIZE

(* The items in the ring, counted from the semaphores and the threads' places. *)
Occupied ==
    BUFFER_SIZE - (empty + Cardinality(At(Producers, {"lock", "enter"}))
                         + Cardinality(At(Consumers, {"advance", "unlock", "post"})))

(* The first slot whose item has not been printed.                             *)
FirstSlot == IF At(Consumers, {"advance"}) # {} THEN out + 1 ELSE out

(* The ring with its semaphores and mutex is a bounded first-in first-out      *)
(* channel: no slot is overwritten before it is read, no item is lost, printed *)
(* twice or printed out of order, whatever the interleaving of lines 109-168.  *)
Channel == INSTANCE BoundedBuffer WITH
    Capacity  <- BUFFER_SIZE,
    ItemsEach <- NUM_PRODUCED,
    Quota     <- num_consumed,
    queue     <- [k \in 1 .. Occupied |-> buffer[(FirstSlot + k - 1) % BUFFER_SIZE]],
    sent      <- [p \in Producers |->
                    counter[p] + IF pc[p] \in {"advance", "unlock", "post"} THEN 1 ELSE 0]

ImplementsChannel == Channel!Spec

(* main returns exactly when the remainder that no consumer is asked to take   *)
(* (line 88) fits in the ring; otherwise it never does: the ring fills up, and *)
(* from then on a producer is blocked in line 123 and main in line 99.         *)
ProducerBlocked ==
    empty = 0 /\ \E p \in Producers : pc[p] = "wait" /\ mainPc = "join" /\ mainThread <= p

ReturnsIffRemainderFits ==
    IF total_items % CONSUMER_NUM <= BUFFER_SIZE
    THEN <>(mainPc = "returned")
    ELSE [](mainPc # "returned") /\ <>[]ProducerBlocked

===============================================================================
