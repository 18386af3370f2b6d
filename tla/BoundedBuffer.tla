----------------------------- MODULE BoundedBuffer -----------------------------
(* What the shared buffer of Assignment5/ProConCode.c promises its threads,    *)
(* without semaphores, mutex, slots or indices: a first-in first-out channel   *)
(* of bounded capacity.  Each producer puts its items in order, each once;     *)
(* each consumer takes its quota of items, and what it takes is printed.       *)
EXTENDS Naturals, Sequences, FiniteSets

CONSTANTS Producers,  \* the indices of the producers
          Consumers,  \* the identities of the consumers
          Capacity,   \* how many items the channel holds
          ItemsEach,  \* how many items each producer puts
          Quota       \* how many items each consumer takes

VARIABLES queue,      \* the items put and not yet taken
          sent,       \* sent[p]: how many items producer p has put
          printed     \* the pairs <<consumer, item>> taken so far, in order

vars == <<queue, sent, printed>>

Init ==
    /\ queue = <<>>
    /\ sent = [p \in Producers |-> 0]
    /\ printed = <<>>

TakenBy(c) == Cardinality({k \in DOMAIN printed : printed[k][1] = c})

Put(p) ==
    /\ sent[p] < ItemsEach
    /\ Len(queue) < Capacity
    /\ queue' = Append(queue, p * ItemsEach + sent[p])
    /\ sent' = [sent EXCEPT ![p] = @ + 1]
    /\ UNCHANGED printed

Take(c) ==
    /\ TakenBy(c) < Quota
    /\ queue # <<>>
    /\ printed' = Append(printed, <<c, Head(queue)>>)
    /\ queue' = Tail(queue)
    /\ UNCHANGED sent

Next ==
    \/ \E p \in Producers : Put(p)
    \/ \E c \in Consumers : Take(c)

Spec == Init /\ [][Next]_vars

================================================================================
