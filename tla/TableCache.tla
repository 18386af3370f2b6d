----------------------------- MODULE TableCache ------------------------------
(***************************************************************************)
(* The table cache of leveldb (db/table_cache.cc) over the sharded LRU     *)
(* cache (util/cache.cc): reading threads find a table's entry or open the *)
(* file and insert one, use it and release it, while files are evicted.    *)
(* Every method of the cache runs under the mutex of its shard and is one  *)
(* step; opening the file between Lookup and Insert is not.  A key is a    *)
(* file number and its own hash.                                           *)
(***************************************************************************)
EXTENDS Integers, SequencesExt, Accumulation

CONSTANTS NULL,
          Files,        \* file numbers
          Threads,
          kNumShards, Capacity,
          MinLength,    \* of a hash table: 4
          MaxHandles    \* entries ever created

VARIABLES handle,       \* LRUHandle: every entry ever created
          shard,        \* LRUCache: the shards
          thread        \* where a thread is in TableCache::Get or NewIterator

cacheVars == <<handle, shard, thread>>

Shard(key) == key % kNumShards
PerShard == (Capacity + kNumShards - 1) \div kNumShards
Handles == DOMAIN handle

-----------------------------------------------------------------------------
(* HandleTable: buckets of chained handles. H is the array of handles. *)

Bucket(t, key) == key % t.length
Chain(t, key) == t.list[Bucket(t, key)]

FindPointer(H, t, key) ==
  LET chain == Chain(t, key)
      at == {i \in DOMAIN chain : H[chain[i]].key = key}
  IN  IF at = {} THEN Len(chain) + 1 ELSE CHOOSE i \in at : \A j \in at : i <= j

TableLookup(H, t, key) ==
  LET at == FindPointer(H, t, key)
  IN  IF at > Len(Chain(t, key)) THEN NULL ELSE Chain(t, key)[at]

(* Twice as long until the entries fit; every entry moves to the front of  *)
(* its new chain.                                                          *)
Resize(H, t) ==
  LET length == CHOOSE n \in {MinLength * 2 ^ i : i \in 0..t.elems} :
                  /\ n >= t.elems
                  /\ \A i \in 0..t.elems : MinLength * 2 ^ i >= t.elems => n <= MinLength * 2 ^ i
      all == FlattenSeq([i \in 1..t.length |-> t.list[i - 1]])
      moved(b) == SelectSeq(all, LAMBDA h : H[h].key % length = b)
  IN  [t EXCEPT !.length = length, !.list = [b \in 0..length - 1 |-> Reverse(moved(b))]]

TableInsert(H, t, h) ==
  LET key == H[h].key
      at == FindPointer(H, t, key)
      new == at > Len(Chain(t, key))
      put(chain) == IF new THEN Append(chain, h) ELSE [chain EXCEPT ![at] = h]
      longer == [t EXCEPT !.list[Bucket(t, key)] = put(@), !.elems = IF new THEN @ + 1 ELSE @]
  IN  IF longer.elems > t.length THEN Resize(H, longer) ELSE longer

TableRemove(H, t, key) ==
  IF TableLookup(H, t, key) = NULL THEN t
  ELSE [t EXCEPT !.list[Bucket(t, key)] = RemoveAt(@, FindPointer(H, t, key)),
                 !.elems = @ - 1]

EmptyShard ==
  [usage |-> 0, lru |-> <<>>, inUse |-> <<>>,
   table |-> [length |-> MinLength, elems |-> 0, list |-> [b \in 0..MinLength - 1 |-> <<>>]]]

-----------------------------------------------------------------------------
(* LRUCache, over the pair s of a shard and the array of handles. *)

Without(list, h) == SelectSeq(list, LAMBDA x : x # h)

Ref(s, h) ==
  LET e == s.H[h]
  IN  [s EXCEPT !.lru = IF e.refs = 1 /\ e.inCache THEN Without(@, h) ELSE @,
                !.inUse = IF e.refs = 1 /\ e.inCache THEN Append(@, h) ELSE @,
                !.H[h].refs = @ + 1]

\* Mutant of Unref: an entry is freed while the cache still refers to it.
Unref_TooSoon(s, h) ==
  LET e == s.H[h]
  IN  [s EXCEPT !.H[h].refs = @ - 1, !.H[h].freed = @ \/ e.refs <= 2]

Unref(s, h) ==
  LET e == s.H[h]
      idle == e.inCache /\ e.refs = 2
  IN  [s EXCEPT !.H[h].refs = @ - 1,
                !.H[h].freed = @ \/ e.refs = 1,
                !.inUse = IF idle THEN Without(@, h) ELSE @,
                !.lru = IF idle THEN Append(@, h) ELSE @]

\* Mutant of FinishErase: the usage keeps the charge.
FinishErase_KeepsCharge(s, h) ==
  IF h = NULL THEN s
  ELSE Unref([s EXCEPT !.lru = Without(@, h), !.inUse = Without(@, h),
                       !.H[h].inCache = FALSE], h)

FinishErase(s, h) ==
  IF h = NULL THEN s
  ELSE Unref([s EXCEPT !.lru = Without(@, h), !.inUse = Without(@, h),
                       !.H[h].inCache = FALSE, !.usage = @ - s.H[h].charge], h)

(* The entry of the key, or NULL, and the shard that refers to it. *)
Lookup(s, key) ==
  LET h == TableLookup(s.H, s.table, key)
  IN  [handle |-> h, shard |-> IF h = NULL THEN s ELSE Ref(s, h)]

EraseKey(s, key) ==
  FinishErase([s EXCEPT !.table = TableRemove(s.H, @, key)], TableLookup(s.H, s.table, key))

(* Evict the oldest entries nobody uses while more than limit is in use.   *)
EvictOldest(s, limit) ==
  LET evict(c, i) == IF c.usage > limit /\ c.lru # <<>>
                     THEN EraseKey(c, c.H[Head(c.lru)].key) ELSE c
  IN  Accumulate(evict, s, [i \in 1..Len(s.lru) |-> i])

InsertEntry(s, h, key, charge) ==
  LET new == [key |-> key, charge |-> charge, refs |-> 1, inCache |-> FALSE, freed |-> FALSE]
      created == [s EXCEPT !.H = Append(@, new)]
      cached == [created EXCEPT !.H[h].refs = 2, !.H[h].inCache = TRUE,
                                !.inUse = Append(@, h), !.usage = @ + charge]
      mapped == [cached EXCEPT !.table = TableInsert(cached.H, @, h)]
  IN  IF PerShard = 0 THEN created
      ELSE Once(FinishErase(mapped, TableLookup(s.H, s.table, key)),
                LAMBDA c : EvictOldest(c, PerShard))

(* A method of the shard of key, with the array of handles. *)
InShard(key) == shard[Shard(key)] @@ [H |-> handle]
Store(key, s) ==
  /\ shard' = [shard EXCEPT ![Shard(key)] = [f \in DOMAIN s \ {"H"} |-> s[f]]]
  /\ handle' = s.H

-----------------------------------------------------------------------------
(* TableCache *)

IdleThread == [pc |-> "idle", file |-> NULL, handle |-> NULL]

Init ==
  /\ handle = <<>>
  /\ shard = [s \in 0..kNumShards - 1 |-> EmptyShard]
  /\ thread = [t \in Threads |-> IdleThread]

FindTable(t, f) ==
  /\ thread[t].pc = "idle"
  /\ \E found \in {Lookup(InShard(f), f)} :
       /\ thread' = [thread EXCEPT ![t] =
            [pc |-> IF found.handle = NULL THEN "open" ELSE "use",
             file |-> f, handle |-> found.handle]]
       /\ Store(f, found.shard)

(* The file could not be opened, or is no table: nothing is cached. *)
OpenFails(t) ==
  /\ thread[t].pc = "open"
  /\ thread' = [thread EXCEPT ![t] = IdleThread]
  /\ UNCHANGED <<handle, shard>>

Insert(t) ==
  /\ thread[t].pc = "open" /\ Len(handle) < MaxHandles
  /\ LET h == Len(handle) + 1
         f == thread[t].file
     IN  /\ thread' = [thread EXCEPT ![t] = [@ EXCEPT !.pc = "use", !.handle = h]]
         /\ \E s \in {InsertEntry(InShard(f), h, f, 1)} : Store(f, s)

(* The end of Get, or the cleanup function of an iterator (UnrefEntry). *)
Release(t) ==
  /\ thread[t].pc = "use"
  /\ \E s \in {Unref(InShard(thread[t].file), thread[t].handle)} : Store(thread[t].file, s)
  /\ thread' = [thread EXCEPT ![t] = IdleThread]

(* DeleteObsoleteFiles deletes a table file. *)
Evict(f) ==
  /\ \E s \in {EraseKey(InShard(f), f)} : Store(f, s)
  /\ UNCHANGED thread

Prune(n) ==
  /\ \E s \in {EvictOldest(InShard(n), -1)} : Store(n, s)
  /\ UNCHANGED thread

Next ==
  \/ \E t \in Threads, f \in Files : FindTable(t, f)
  \/ \E t \in Threads : OpenFails(t) \/ Insert(t) \/ Release(t)
  \/ \E f \in Files : Evict(f)
  \/ \E n \in 0..kNumShards - 1 : Prune(n)

Spec == Init /\ [][Next]_cacheVars

-----------------------------------------------------------------------------
Members(list) == {list[i] : i \in DOMAIN list}

(* The lists and the hash table of a shard hold the same entries: those in *)
(* use by a thread, and those only the cache refers to, each found under   *)
(* its key; the usage is the sum of their charges (util/cache.cc:37-44).   *)
ListsMatchTable ==
  \A n \in 0..kNumShards - 1 :
    LET s == shard[n]
        cached == {h \in Handles : handle[h].inCache /\ Shard(handle[h].key) = n}
        users(h) == {t \in Threads : thread[t].handle = h}
    IN  /\ Members(s.lru) = {h \in cached : users(h) = {}}
        /\ Members(s.inUse) = {h \in cached : users(h) # {}}
        /\ \A h \in cached : TableLookup(handle, s.table, handle[h].key) = h
        /\ s.table.elems = Cardinality(cached) /\ s.usage = s.table.elems

(* Releasing an entry evicts none, so a shard can stay above its capacity  *)
(* with idle entries; but never beyond what its threads once held at the   *)
(* same time (util/cache.cc:294).                                          *)
UsageBounded ==
  \A n \in 0..kNumShards - 1 :
    shard[n].usage <= PerShard \/ shard[n].usage <= Cardinality(Threads)

(* The state of a Cache of include/leveldb/cache.h, module Cache, that     *)
(* this one implements.                                                    *)
Mapped == [f \in Files |-> TableLookup(handle, shard[Shard(f)].table, f)]
Held == [t \in Threads |-> thread[t].handle]
Deleted == {h \in Handles : handle[h].freed}

=============================================================================
