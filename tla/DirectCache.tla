------------------------------ MODULE DirectCache -----------------------------
(* Computer Organization/Project 2/sys1.java: the simulator of a direct-mapped *)
(* write-back cache.  One step per line of the trace.                          *)
EXTENDS Naturals

CONSTANTS SETS,           \* cache_buf_size, the entries of the cache
          MaxTag,         \* bound of the model: the largest tag of an address
          MaxReferences   \* bound of the model: the memory references of a trace

Indexes == 0 .. SETS - 1
Ops     == {"L", "S"}      \* loads and stores; lines marked "-" change nothing
NoTag   == 0               \* the tag "0" marks an entry that holds no block

VARIABLES
    cache,         \* cache[i]: valid, dirty and tag
    reference,     \* the number of the memory reference
    accesses,      \* reads and writes, by operation
    misses,        \* read_misses and write_misses
    dirty_misses,  \* dirty_read_misses and dirty_write_misses
    cycles,        \* read_cycle and write_cycle
    state          \* "running"; "printed" the statistics; "crashed" by an exception

stats == <<accesses, misses, dirty_misses, cycles>>
vars == <<cache, reference, accesses, misses, dirty_misses, cycles, state>>

Init ==
    /\ cache = [i \in Indexes |-> [valid |-> 0, dirty |-> 0, tag |-> NoTag]]
    /\ reference = 0
    /\ accesses = [op \in Ops |-> 0]
    /\ misses = [op \in Ops |-> 0]
    /\ dirty_misses = [op \in Ops |-> 0]
    /\ cycles = [op \in Ops |-> 0]
    /\ state = "running"

(* The address has no bits left for its tag, or the cache none for its index   *)
(* (lines 126-138): substring or parseLong throws.                             *)
DecodeFails(t) == t = 0 \/ SETS = 1

Add(counter, op, n) == [counter EXCEPT ![op] = @ + n]

Counted(op) ==
    /\ reference' = reference + 1
    /\ accesses' = Add(accesses, op, 1)
    /\ UNCHANGED state

Hit(op, i, t) ==
    /\ cache[i].tag = t
    /\ cache' = [cache EXCEPT ![i].valid = 1, ![i].dirty = IF op = "S" THEN 1 ELSE @]
    /\ cycles' = Add(cycles, op, 1)
    /\ Counted(op)
    /\ UNCHANGED <<misses, dirty_misses>>

Fill(op, i, t) ==
    cache' = [cache EXCEPT ![i] = [valid |-> 1, dirty |-> IF op = "S" THEN 1 ELSE 0, tag |-> t]]

CleanMiss(op, i, t) ==
    /\ cache[i].tag # t
    /\ cache[i].tag = NoTag \/ cache[i].dirty = 0
    /\ Fill(op, i, t)
    /\ misses' = Add(misses, op, 1)
    /\ cycles' = Add(cycles, op, 81)
    /\ Counted(op)
    /\ UNCHANGED dirty_misses

DirtyMiss(op, i, t) ==
    /\ cache[i].tag # t
    /\ cache[i].tag # NoTag /\ cache[i].dirty = 1
    /\ Fill(op, i, t)
    /\ misses' = Add(misses, op, 1)
    /\ dirty_misses' = Add(dirty_misses, op, 1)
    /\ cycles' = Add(cycles, op, 161)
    /\ Counted(op)

Access(op, i, t) ==
    /\ state = "running"
    /\ reference < MaxReferences
    /\ ~DecodeFails(t)
    /\ Hit(op, i, t) \/ CleanMiss(op, i, t) \/ DirtyMiss(op, i, t)

Crash(t) ==
    /\ state = "running"
    /\ DecodeFails(t)
    /\ state' = "crashed"
    /\ UNCHANGED <<cache, reference, stats>>

EndOfTrace ==
    /\ state = "running"
    /\ state' = "printed"
    /\ UNCHANGED <<cache, reference, stats>>

Next ==
    \/ \E op \in Ops, i \in Indexes, t \in 0 .. MaxTag : Access(op, i, t)
    \/ \E t \in 0 .. MaxTag : Crash(t)
    \/ EndOfTrace

Spec == Init /\ [][Next]_vars

===============================================================================
