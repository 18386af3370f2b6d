------------------------------- MODULE LRUCache -------------------------------
(* What the cache simulators of Computer Organization/Project 2 promise: a     *)
(* write-back, write-allocate cache that evicts the least recently used block  *)
(* of a set.  A set is the sequence of its blocks, the latest used first.      *)
EXTENDS Naturals, Sequences

CONSTANTS Indexes,   \* the indices of the sets
          Tags,      \* the tags of the blocks
          ASSOC      \* how many blocks a set holds

Ops == {"L", "S"}

VARIABLES recency,        \* recency[i]: the blocks of set i, the latest used first
          accesses,       \* accesses[op]: the loads or stores of the trace
          misses,         \* misses[op]: the loads or stores that missed
          dirty_misses    \* dirty_misses[op]: those that evicted a modified block

vars == <<recency, accesses, misses, dirty_misses>>

Init ==
    /\ recency = [i \in Indexes |-> <<>>]
    /\ accesses = [op \in Ops |-> 0]
    /\ misses = [op \in Ops |-> 0]
    /\ dirty_misses = [op \in Ops |-> 0]

Modified(op) == op = "S"

Hit(op, i, t) ==
    \E k \in DOMAIN recency[i] :
        /\ recency[i][k].tag = t
        /\ UNCHANGED <<misses, dirty_misses>>
        /\ LET block == [tag |-> t, dirty |-> recency[i][k].dirty \/ Modified(op)]
               rest == SubSeq(recency[i], 1, k - 1) \o SubSeq(recency[i], k + 1, Len(recency[i]))
           IN  recency' = [recency EXCEPT ![i] = <<block>> \o rest]

Miss(op, i, t) ==
    /\ misses' = [misses EXCEPT ![op] = @ + 1]
    /\ \A k \in DOMAIN recency[i] : recency[i][k].tag # t
    /\ LET full == Len(recency[i]) = ASSOC
           kept == IF full THEN SubSeq(recency[i], 1, ASSOC - 1) ELSE recency[i]
           writeBack == full /\ recency[i][ASSOC].dirty
       IN  /\ recency' = [recency EXCEPT ![i] = <<[tag |-> t, dirty |-> Modified(op)]>> \o kept]
           /\ dirty_misses' = IF writeBack THEN [dirty_misses EXCEPT ![op] = @ + 1]
                                           ELSE dirty_misses

Next ==
    \E op \in Ops, i \in Indexes, t \in Tags :
        /\ accesses' = [accesses EXCEPT ![op] = @ + 1]
        /\ Hit(op, i, t) \/ Miss(op, i, t)

Spec == Init /\ [][Next]_vars

===============================================================================
