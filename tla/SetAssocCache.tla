----------------------------- MODULE SetAssocCache ----------------------------
(* Computer Organization/Project 2/sys2.java: the simulator of a set-          *)
(* associative write-back cache.  One step per line of the trace.              *)
EXTENDS Naturals, FiniteSets

CONSTANTS ASSOC,          \* set_associativity
          SETS,           \* cache_buf_size, the entries of each way
          MaxTag,         \* bound of the model: the largest tag of an address
          MaxReferences   \* bound of the model: the memory references of a trace

ASSUME CacheAssumption ==
    /\ ASSOC \in Nat \ {0}
    /\ SETS \in Nat \ {0}
    /\ MaxTag \in Nat
    /\ MaxReferences \in Nat

Ways    == 0 .. ASSOC - 1
Indexes == 0 .. SETS - 1
Ops     == {"L", "S"}      \* loads and stores; lines marked "-" change nothing

NoTag == 0                 \* the tag "0" marks an entry that holds no block

VARIABLES
    cache,         \* cache[w][i]: valid, dirty, lu (last use) and tag
    reference,     \* the number of the memory reference
    accesses,      \* reads and writes, by operation
    misses,        \* read_misses and write_misses
    dirty_misses,  \* dirty_read_misses and dirty_write_misses
    cycles,        \* read_cycle and write_cycle
    simulation     \* "running"; "printed" the statistics; "crashed" by an exception

stats == <<accesses, misses, dirty_misses, cycles>>
cacheVars == <<cache, reference, accesses, misses, dirty_misses, cycles, simulation>>

CacheInit ==
    /\ cache = [w \in Ways |-> [i \in Indexes |->
                   [valid |-> 0, dirty |-> 0, lu |-> 0, tag |-> NoTag]]]
    /\ reference = 0
    /\ accesses = [op \in Ops |-> 0]
    /\ misses = [op \in Ops |-> 0]
    /\ dirty_misses = [op \in Ops |-> 0]
    /\ cycles = [op \in Ops |-> 0]
    /\ simulation = "running"

(* toBinaryString has no leading zeros: an address whose tag is 0 has no bits  *)
(* left for it, and substring or parseLong throws (lines 126-141).  A cache of *)
(* one set has no index bits, and parseLong throws for every address (132).    *)
DecodeFails(t) == t = 0 \/ SETS = 1

(* The entries at which the search stops: a hit, or one that is empty.         *)
Usable(t, i) == {w \in Ways : cache[w][i].tag \in {t, NoTag}}

LeastRecentlyUsed(w, i) ==
    \A v \in Ways : \/ cache[w][i].lu < cache[v][i].lu
                    \/ cache[w][i].lu = cache[v][i].lu /\ w <= v

(* w is cacheID (143-172): the first usable entry, or the least recently used  *)
(* one when the set is full.                                                   *)
Selected(w, t, i) ==
    IF Usable(t, i) # {}
    THEN w \in Usable(t, i) /\ \A v \in Usable(t, i) : w <= v
    ELSE LeastRecentlyUsed(w, i)

Add(counter, op, n) == [counter EXCEPT ![op] = @ + n]

(* What every reference does after the case distinction (255-260).             *)
Counted(op) ==
    /\ reference' = reference + 1
    /\ accesses' = Add(accesses, op, 1)
    /\ UNCHANGED simulation

Fill(w, i, t, dirty) ==
    cache' = [cache EXCEPT ![w][i] = [valid |-> 1, dirty |-> dirty, lu |-> reference, tag |-> t]]

\* Mutant of Hit: the time of the last use is not updated.
Hit_NoTouch(op, w, i, t) ==
    /\ cache[w][i].tag = t
    /\ cache' = [cache EXCEPT ![w][i].dirty = IF op = "S" THEN 1 ELSE @]
    /\ cycles' = Add(cycles, op, 1)
    /\ Counted(op)
    /\ UNCHANGED <<misses, dirty_misses>>

(* Case 1 (189-202).                                                           *)
Hit(op, w, i, t) ==
    /\ cache[w][i].tag = t
    /\ Fill(w, i, t, IF op = "S" THEN 1 ELSE cache[w][i].dirty)
    /\ cycles' = Add(cycles, op, 1)
    /\ Counted(op)
    /\ UNCHANGED <<misses, dirty_misses>>

(* Case 2a (205-223): the entry is empty or not modified.                      *)
CleanMiss(op, w, i, t) ==
    /\ cache[w][i].tag # t
    /\ cache[w][i].tag = NoTag \/ cache[w][i].dirty = 0
    /\ Fill(w, i, t, IF op = "S" THEN 1 ELSE 0)
    /\ misses' = Add(misses, op, 1)
    /\ cycles' = Add(cycles, op, 81)
    /\ Counted(op)
    /\ UNCHANGED dirty_misses

\* Mutant of DirtyMiss: the time to write the block back is not counted.
DirtyMiss_NoPenalty(op, w, i, t) ==
    /\ cache[w][i].tag # t
    /\ cache[w][i].tag # NoTag /\ cache[w][i].dirty = 1
    /\ Fill(w, i, t, IF op = "S" THEN 1 ELSE 0)
    /\ misses' = Add(misses, op, 1)
    /\ dirty_misses' = Add(dirty_misses, op, 1)
    /\ cycles' = Add(cycles, op, 81)
    /\ Counted(op)

(* Case 2b (225-246): the block it holds is written back first.                *)
DirtyMiss(op, w, i, t) ==
    /\ cache[w][i].tag # t
    /\ cache[w][i].tag # NoTag /\ cache[w][i].dirty = 1
    /\ Fill(w, i, t, IF op = "S" THEN 1 ELSE 0)
    /\ misses' = Add(misses, op, 1)
    /\ dirty_misses' = Add(dirty_misses, op, 1)
    /\ cycles' = Add(cycles, op, 161)
    /\ Counted(op)

Access(op, i, t) ==
    /\ simulation = "running"
    /\ reference < MaxReferences
    /\ ~DecodeFails(t)
    /\ \E w \in Ways :
         /\ Selected(w, t, i)
         /\ Hit(op, w, i, t) \/ CleanMiss(op, w, i, t) \/ DirtyMiss(op, w, i, t)

Crash(t) ==
    /\ simulation = "running"
    /\ DecodeFails(t)
    /\ simulation' = "crashed"
    /\ UNCHANGED <<cache, reference, stats>>

EndOfTrace ==
    /\ simulation = "running"
    /\ simulation' = "printed"
    /\ UNCHANGED <<cache, reference, stats>>

CacheNext ==
    \/ \E op \in Ops, i \in Indexes, t \in 0 .. MaxTag : Access(op, i, t)
    \/ \E t \in 0 .. MaxTag : Crash(t)
    \/ EndOfTrace

CacheSpec == CacheInit /\ [][CacheNext]_cacheVars

-------------------------------------------------------------------------------
(* Properties *)

Entries == [valid : {0, 1}, dirty : {0, 1}, lu : Nat, tag : 0 .. MaxTag]

(* Every variable has its type.                                                *)
CacheTypeOK ==
    /\ cache \in [Ways -> [Indexes -> Entries]]
    /\ reference \in Nat
    /\ accesses \in [Ops -> Nat]
    /\ misses \in [Ops -> Nat]
    /\ dirty_misses \in [Ops -> Nat]
    /\ cycles \in [Ops -> Nat]
    /\ simulation \in {"running", "printed", "crashed"}

Holds(w, i) == cache[w][i].tag # NoTag

(* The tag "0" of an empty entry is never the tag of a block, although the     *)
(* code compares tags without looking at the valid bit (lines 148, 189): an    *)
(* entry has a tag exactly when it is valid, and only then can it be dirty.    *)
EmptyEntriesHaveNoTag ==
    \A w \in Ways, i \in Indexes :
        /\ Holds(w, i) <=> cache[w][i].valid = 1
        /\ cache[w][i].dirty = 1 => Holds(w, i)

(* A set is filled from way 0 upwards, so the search of lines 147-159, which   *)
(* stops at the first empty entry, never overlooks a block in a later way.     *)
FilledFromBelow ==
    \A i \in Indexes, v, w \in Ways : Holds(w, i) /\ v < w => Holds(v, i)

(* A block is in one way of its set at most, so no store is applied to one     *)
(* copy and lost with the other.                                               *)
OneCopyOfABlock ==
    \A i \in Indexes, v, w \in Ways :
        Holds(v, i) /\ cache[v][i].tag = cache[w][i].tag => v = w

(* The times of the last use order the blocks of a set: the least recently     *)
(* used one of lines 161-172 is unique.                                        *)
LastUsesDistinct ==
    \A i \in Indexes, v, w \in Ways :
        Holds(v, i) /\ Holds(w, i) =>
            /\ cache[v][i].lu < reference
            /\ cache[v][i].lu = cache[w][i].lu => v = w

(* The cycles printed at the end are one for each access, 80 more for each     *)
(* block read from memory and 80 more for each one written back first; a       *)
(* block is written back on a miss only.                                       *)
CyclesAccountForMisses ==
    \A op \in Ops :
        /\ cycles[op] = accesses[op] + 80 * misses[op] + 80 * dirty_misses[op]
        /\ dirty_misses[op] <= misses[op]
        /\ misses[op] <= accesses[op]

(* The ways of set i that hold a block, in the order of their last use.        *)
ByRecency(i) ==
    LET held == {w \in Ways : Holds(w, i)}
        nth(k) == CHOOSE w \in held :
                    Cardinality({v \in held : cache[v][i].lu > cache[w][i].lu}) = k - 1
    IN  [k \in 1 .. Cardinality(held) |->
            [tag |-> cache[nth(k)][i].tag, dirty |-> cache[nth(k)][i].dirty = 1]]

(* The cache of lu counters, sentinels and ways is a write-back cache with     *)
(* least-recently-used replacement, and counts its misses and write-backs.     *)
Recency == INSTANCE LRUCache WITH
    Tags    <- 1 .. MaxTag,
    recency <- [i \in Indexes |-> ByRecency(i)]

ImplementsLRU == Recency!Spec

(* With one way it behaves as sys1.java, the direct-mapped cache, does.        *)
Direct == INSTANCE DirectCache WITH
    state <- simulation,
    cache <- [i \in Indexes |-> [valid |-> cache[0][i].valid, dirty |-> cache[0][i].dirty,
                                 tag |-> cache[0][i].tag]]

ImplementsDirectCache == Direct!Spec

===============================================================================
