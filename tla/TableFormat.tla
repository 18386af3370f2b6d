---------------------------- MODULE TableFormat -----------------------------
(***************************************************************************)
(* A table file.  BlockBuilder and Block::Iter (table/block_builder.cc,    *)
(* table/block.cc) are the blocks; FilterBlockBuilder and BloomFilterPolicy*)
(* (table/filter_block.cc, util/bloom.cc) the filters; TableBuilder writes *)
(* both, an index and a footer (table/table_builder.cc) and Table reads    *)
(* them back (table/table.cc, table/format.cc).  A write may fail, and one *)
(* block of the finished file may be damaged.                              *)
(***************************************************************************)
EXTENDS Integers, FiniteSets, FiniteSetsExt, Sequences, Accumulation

CONSTANTS NULL,
          Keys,              \* the keys that may be added, sequences of bytes
          MaxKeys,           \* bound on the keys of a table
          kMaxByte,          \* 0xff
          RestartInterval, BlockSize, \* options
          kFilterBase,       \* 1 << kFilterBaseLg: the bytes of file to a filter
          BitsPerKey,        \* bits_per_key_
          MinBits,           \* 64, the smallest filter
          HashBits,          \* 32, the width of a hash value
          Hash(_)            \* Hash in util/hash.cc

-----------------------------------------------------------------------------
(* Blocks: keys are written without the prefix they share with the key     *)
(* before.  An offset in a block is the number of entries before it.       *)

(* BytewiseComparatorImpl. *)
CommonPrefix(a, b) ==
  Max({n \in 0..Len(a) : n <= Len(b) /\ SubSeq(a, 1, n) = SubSeq(b, 1, n)})
Less(a, b) ==
  LET n == CommonPrefix(a, b)
  IN  n < Len(b) /\ IF n = Len(a) THEN TRUE ELSE a[n + 1] < b[n + 1]

FindShortestSeparator(start, limit) ==
  LET n == CommonPrefix(start, limit)
  IN  IF n < Len(start) /\ n < Len(limit) /\ start[n + 1] + 1 < limit[n + 1]
      THEN Append(SubSeq(start, 1, n), start[n + 1] + 1)
      ELSE start

FindShortSuccessor(key) ==
  LET low == {i \in DOMAIN key : key[i] < kMaxByte}
  IN  IF low = {} THEN key
      ELSE Append(SubSeq(key, 1, Min(low) - 1), key[Min(low)] + 1)

-----------------------------------------------------------------------------
EmptyBuilder == [entries |-> <<>>, restarts |-> <<0>>, counter |-> 0, lastKey |-> <<>>]

Add(b, key, value, interval) ==
  LET restart == b.counter >= interval
      shared == IF restart THEN 0 ELSE CommonPrefix(b.lastKey, key)
  IN  [entries |-> Append(b.entries, [shared |-> shared, value |-> value,
                                      delta |-> SubSeq(key, shared + 1, Len(key))]),
       restarts |-> IF restart THEN Append(b.restarts, Len(b.entries)) ELSE b.restarts,
       counter |-> IF restart THEN 1 ELSE b.counter + 1,
       lastKey |-> key]

(* Bytes: three lengths, the rest of the key and the value of each entry   *)
(* (values are one byte long), then the restart points and their number.   *)
CurrentSizeEstimate(b) ==
  Accumulate(LAMBDA n, e : n + 4 + Len(e.delta), 0, b.entries) + 4 * (Len(b.restarts) + 1)

Finish(b) == [entries |-> b.entries, restarts |-> b.restarts]

-----------------------------------------------------------------------------
(* Block::Iter.  current is the offset of the entry it is at, or that of   *)
(* the restart array; next is NextEntryOffset().  An entry that cannot be  *)
(* decoded is NULL.                                                        *)
Limit(blk) == Len(blk.entries)
GetRestartPoint(blk, r) == blk.restarts[r + 1]
NumRestarts(blk) == Len(blk.restarts)
NewIterator(blk) ==
  [current |-> Limit(blk), restart |-> NumRestarts(blk), key |-> <<>>, value |-> NULL,
   next |-> 0, ok |-> TRUE]
IterValid(blk, it) == it.current < Limit(blk)

Invalid(blk, it) == [it EXCEPT !.current = Limit(blk), !.restart = NumRestarts(blk)]
CorruptionError(blk, it) ==
  [Invalid(blk, it) EXCEPT !.ok = FALSE, !.key = <<>>, !.value = NULL]

SeekToRestartPoint(blk, it, r) ==
  [it EXCEPT !.key = <<>>, !.restart = r, !.next = GetRestartPoint(blk, r)]

(* The entry at an offset, NULL when there is none to be decoded. *)
DecodeEntry(blk, offset) == blk.entries[offset + 1]

ParseNextKey(blk, it) ==
  IF it.next >= Limit(blk) THEN Invalid(blk, it)
  ELSE LET e == DecodeEntry(blk, it.next)
           passed == {r \in 0..NumRestarts(blk) - 1 :
                        r > it.restart /\ GetRestartPoint(blk, r) < it.next}
       IN  IF e = NULL THEN CorruptionError(blk, it)
           ELSE IF Len(it.key) < e.shared THEN CorruptionError(blk, it)
           ELSE [it EXCEPT !.current = it.next, !.next = it.next + 1,
                           !.key = SubSeq(@, 1, e.shared) \o e.delta, !.value = e.value,
                           !.restart = Max(passed \cup {@})]

(* ParseNextKey until it fails or reaches its goal: an entry that ends at   *)
(* an offset, or one with a key that is large enough.                      *)
Ends(offset) == [next |-> offset]
AtLeast(target) == [key |-> target]
Reached(it, goal) ==
  IF "key" \in DOMAIN goal THEN ~Less(it.key, goal.key) ELSE it.next >= goal.next

RECURSIVE Scan(_, _, _)
Scan(blk, it, goal) ==
  Once(ParseNextKey(blk, it),
       LAMBDA x : IF ~IterValid(blk, x) \/ Reached(x, goal) THEN x ELSE Scan(blk, x, goal))

IterNext(blk, it) == ParseNextKey(blk, it)

\* Mutant of IterPrev: the restart point of the entry itself will do.
IterPrev_SameRestart(blk, it) ==
  LET earlier == {r \in 0..it.restart : GetRestartPoint(blk, r) <= it.current}
  IN  IF earlier = {} THEN Invalid(blk, it)
      ELSE Scan(blk, SeekToRestartPoint(blk, it, Max(earlier)),
                Ends(it.current))

IterPrev(blk, it) ==
  LET earlier == {r \in 0..it.restart : GetRestartPoint(blk, r) < it.current}
  IN  IF earlier = {} THEN Invalid(blk, it)
      ELSE Scan(blk, SeekToRestartPoint(blk, it, Max(earlier)),
                Ends(it.current))

(* The binary search among the restart points, NULL if it meets an entry   *)
(* that is not one.                                                        *)
RECURSIVE LastRestartBefore(_, _, _, _)
LastRestartBefore(blk, target, left, right) ==
  IF left >= right THEN left
  ELSE LET mid == (left + right + 1) \div 2
           e == DecodeEntry(blk, GetRestartPoint(blk, mid))
       IN  IF e = NULL THEN NULL
           ELSE IF e.shared # 0 THEN NULL
           ELSE IF Less(e.delta, target) THEN LastRestartBefore(blk, target, mid, right)
           ELSE LastRestartBefore(blk, target, left, mid - 1)

IterSeek(blk, it, target) ==
  Once(LastRestartBefore(blk, target, 0, NumRestarts(blk) - 1), LAMBDA r :
    IF r = NULL THEN CorruptionError(blk, it)
    ELSE Scan(blk, SeekToRestartPoint(blk, it, r), AtLeast(target)))

IterSeekToFirst(blk, it) == ParseNextKey(blk, SeekToRestartPoint(blk, it, 0))

IterSeekToLast(blk, it) ==
  Scan(blk, SeekToRestartPoint(blk, it, NumRestarts(blk) - 1),
       Ends(Limit(blk)))

-----------------------------------------------------------------------------
(* Filters: one for the keys of all blocks that start in each kFilterBase  *)
(* bytes of the file.                                                      *)

(* BloomFilterPolicy. *)
Probes == Min({30, Max({1, (BitsPerKey * 69) \div 100})})

(* h >> 17 | h << 15, on HashBits bits. *)
RotatedRight(h) ==
  LET right == (HashBits * 17) \div 32
  IN  h \div 2 ^ right + (h % 2 ^ right) * 2 ^ (HashBits - right)

BitPositions(key, bits, k) ==
  {((Hash(key) + j * RotatedRight(Hash(key))) % 2 ^ HashBits) % bits : j \in 0..k - 1}

CreateFilter(keys) ==
  LET bytes == (Max({MinBits, Len(keys) * BitsPerKey}) + 7) \div 8
  IN  [set |-> UNION {BitPositions(keys[i], 8 * bytes, Probes) : i \in DOMAIN keys},
       length |-> bytes + 1, k |-> Probes]

BloomMayMatch(key, filter) ==
  filter.k > 30 \/ BitPositions(key, 8 * (filter.length - 1), filter.k) \subseteq filter.set

-----------------------------------------------------------------------------
(* FilterBlockBuilder: result_ holds the filters at their offsets. *)
EmptyFilterBuilder == [keys |-> <<>>, offsets |-> <<>>, result |-> <<>>, size |-> 0]

AddKey(f, key) == [f EXCEPT !.keys = Append(@, key)]

GenerateFilter(f) ==
  IF f.keys = <<>> THEN [f EXCEPT !.offsets = Append(@, f.size)]
  ELSE Once(CreateFilter(f.keys), LAMBDA filter :
         [keys |-> <<>>, offsets |-> Append(f.offsets, f.size),
          result |-> Append(f.result, [at |-> f.size, filter |-> filter]),
          size |-> f.size + filter.length])

RECURSIVE StartBlock(_, _)
StartBlock(f, offset) ==
  IF offset \div kFilterBase > Len(f.offsets)
  THEN Once(GenerateFilter(f), LAMBDA g : StartBlock(g, offset))
  ELSE f

FinishFilter(f) == IF f.keys = <<>> THEN f ELSE GenerateFilter(f)

(* FilterBlockReader::KeyMayMatch; an error is a potential match. *)
KeyMayMatch(f, blockOffset, key) ==
  LET index == blockOffset \div kFilterBase
      start == f.offsets[index + 1]
      limit == IF index + 1 = Len(f.offsets) THEN f.size ELSE f.offsets[index + 2]
      here == {i \in DOMAIN f.result : f.result[i].at = start}
  IN  index < Len(f.offsets) =>
        start < limit /\ \E i \in here : BloomMayMatch(key, f.result[i].filter)

-----------------------------------------------------------------------------
(* The table. *)

VARIABLES rep,     \* TableBuilder::Rep
          file,    \* what is in the file, by offset
          added,   \* the keys whose Add returned with status ok
          damaged, \* the offset of the damaged block, or NULL
          reading, \* the block an iterator reads, its state and where it should be
          faults   \* failed writes so far

vars == <<rep, file, added, damaged, reading, faults>>

kBlockTrailerSize == 5
kEncodedLength == 48

Init ==
  /\ rep = [offset |-> 0, ok |-> TRUE, data |-> EmptyBuilder, index |-> EmptyBuilder,
            lastKey |-> NULL, closed |-> FALSE, finished |-> FALSE,
            filter |-> StartBlock(EmptyFilterBuilder, 0),
            pending |-> FALSE, handle |-> NULL]
  /\ file = <<>> /\ added = <<>> /\ damaged = NULL /\ reading = NULL /\ faults = 0

Put(f, offset, contents) ==
  [o \in DOMAIN f \cup {offset} |-> IF o = offset THEN contents ELSE f[o]]

BlockHandle(offset, size) == [offset |-> offset, size |-> size]

(* WriteRawBlock; w is the builder and the file, fails whether the file    *)
(* refuses the append.                                                     *)
Write(w, contents, size, fails) ==
  IF ~w.rep.ok THEN w
  ELSE IF fails THEN [w EXCEPT !.rep.ok = FALSE]
  ELSE [w EXCEPT !.file = Put(@, w.rep.offset, contents),
                 !.rep.handle = BlockHandle(w.rep.offset, size),
                 !.rep.offset = @ + size + kBlockTrailerSize]

WriteBlock(w, b, fails) == Write(w, Finish(b), CurrentSizeEstimate(b), fails)

Flushed(w, fails) ==
  IF ~w.rep.ok \/ w.rep.data.entries = <<>> THEN w
  ELSE Once(WriteBlock(w, w.rep.data, fails), LAMBDA x :
         [x EXCEPT !.rep.data = EmptyBuilder, !.rep.pending = x.rep.ok,
                   !.rep.filter = StartBlock(@, x.rep.offset)])

(* The index entry of the block before, under a key that separates the two.*)
Indexed(r, key) ==
  IF ~r.pending THEN r
  ELSE [r EXCEPT !.index = Add(@, key, r.handle, 1), !.pending = FALSE]

Now == [rep |-> rep, file |-> file]
Becomes(w) == rep' = w.rep /\ file' = w.file

Fails(fails) == faults' = (IF fails THEN faults + 1 ELSE faults) /\ faults' <= 1

AddKeyValue(key, fails) ==
  /\ ~rep.closed /\ rep.ok /\ Fails(fails) /\ Len(added) < MaxKeys
  /\ \A i \in DOMAIN added : Less(added[i], key)
  /\ added' = Append(added, key)
  /\ \E indexed \in {Indexed(rep, IF rep.pending THEN FindShortestSeparator(rep.lastKey, key)
                                  ELSE key)} :
     \E r \in {[indexed EXCEPT !.filter = AddKey(@, key), !.lastKey = key,
                               !.data = Add(@, key, key, RestartInterval)]} :
       Becomes(IF CurrentSizeEstimate(r.data) >= BlockSize
               THEN Flushed([rep |-> r, file |-> file], fails)
               ELSE [rep |-> r, file |-> file])
  /\ UNCHANGED <<damaged, reading>>

Flush(fails) ==
  /\ ~rep.closed /\ rep.data.entries # <<>> /\ Fails(fails)
  /\ Becomes(Flushed(Now, fails))
  /\ UNCHANGED <<added, damaged, reading>>

(* Finish: the last block, the filters, the metaindex, the index, the      *)
(* footer.  The append number fails is refused.                            *)
FinishTable(fails) ==
  /\ ~rep.closed /\ Fails(fails # 0)
  /\ \E last \in {Flushed(Now, fails = 1)} :
     \E f \in {FinishFilter(last.rep.filter)} :
     \E filtered \in {Write(last, f, f.size + 4 * Len(f.offsets) + 5, fails = 2)} :
     \E meta \in {WriteBlock(filtered, Add(EmptyBuilder, <<>>, filtered.rep.handle,
                                           RestartInterval), fails = 3)} :
     \E r \in {Indexed([meta.rep EXCEPT !.handle = last.rep.handle],
                       IF last.rep.pending THEN FindShortSuccessor(meta.rep.lastKey) ELSE <<>>)} :
     \E index \in {WriteBlock([rep |-> r, file |-> meta.file], r.index, fails = 4)} :
     \E end \in {Write(index, [metaindex |-> meta.rep.handle, index |-> index.rep.handle],
                       kEncodedLength - kBlockTrailerSize, fails = 5)} :
       Becomes([end EXCEPT !.rep.closed = TRUE, !.rep.finished = end.rep.ok])
  /\ UNCHANGED <<added, damaged, reading>>

Abandon ==
  /\ ~rep.closed
  /\ rep' = [rep EXCEPT !.closed = TRUE]
  /\ UNCHANGED <<file, added, damaged, reading, faults>>

-----------------------------------------------------------------------------
FooterOffset == rep.offset - kEncodedLength

Damage(o) ==
  /\ rep.finished /\ damaged = NULL /\ reading = NULL /\ o \in DOMAIN file \ {FooterOffset}
  /\ damaged' = o
  /\ UNCHANGED <<rep, file, added, reading, faults>>

(* ReadBlock: NULL is a Corruption.  Without the checksum, the damage      *)
(* shows as an entry that cannot be decoded, or as a filter that is empty. *)
Garbled(contents) ==
  IF "entries" \in DOMAIN contents
  THEN [contents EXCEPT !.entries =
          [i \in DOMAIN @ |-> IF i = Len(@) THEN NULL ELSE @[i]]]
  ELSE EmptyFilterBuilder
ReadBlock(handle, verify) ==
  IF handle.offset # damaged THEN file[handle.offset]
  ELSE IF verify THEN NULL ELSE Garbled(file[handle.offset])

(* The value Seek finds in a block: [ok, valid, value]. *)
Found(blk, key) ==
  IF blk = NULL THEN [ok |-> FALSE, valid |-> FALSE, key |-> NULL, value |-> NULL]
  ELSE Once(IterSeek(blk, NewIterator(blk), key), LAMBDA it :
         [ok |-> it.ok, valid |-> IterValid(blk, it), key |-> it.key, value |-> it.value])

(* Table::Open and ReadMeta: an error in the filter is not one of the      *)
(* table, which is then read without it.                                   *)
Open(paranoid) ==
  LET footer == file[FooterOffset]
      meta == ReadBlock(footer.metaindex, paranoid)
      named == Found(meta, <<>>)
      filter == IF named.valid /\ named.key = <<>>
                THEN ReadBlock(named.value, paranoid) ELSE NULL
  IN  [index |-> ReadBlock(footer.index, paranoid), filter |-> filter,
       metaindex |-> footer.metaindex]

(* Table::InternalGet: what the saver is called with, or NULL, or "error". *)
InternalGet(t, key, verify) ==
  Once(Found(t.index, key), LAMBDA i :
    IF ~i.valid THEN IF i.ok THEN NULL ELSE "error"
    ELSE IF t.filter # NULL /\ ~KeyMayMatch(t.filter, i.value.offset, key) THEN NULL
    ELSE Once(Found(ReadBlock(i.value, verify), key), LAMBDA d :
           IF ~d.ok THEN "error" ELSE IF d.valid THEN d.value ELSE NULL))

ApproximateOffsetOf(t, key) ==
  Once(Found(t.index, key),
       LAMBDA i : IF i.valid THEN i.value.offset ELSE t.metaindex.offset)

(* An iterator over one data block (Table::BlockReader).  should is the    *)
(* place in its keys that the calls so far lead to.                        *)
DataBlocks == {o \in DOMAIN file \ {FooterOffset} :
                 "entries" \in DOMAIN file[o] /\ o < file[FooterOffset].metaindex.offset}
KeysOf(blk) == Accumulate(LAMBDA ks, e : Append(ks, e.value), <<>>, blk.entries)
BlockReader(o) ==
  /\ rep.finished /\ damaged = NULL /\ reading = NULL
  /\ reading' = [blk |-> o, it |-> NewIterator(file[o]), should |-> 0]
  /\ UNCHANGED <<rep, file, added, damaged, faults>>

MovesTo(it, should) ==
  /\ reading' = [reading EXCEPT !.it = it, !.should = should]
  /\ UNCHANGED <<rep, file, added, damaged, faults>>

ReadStep ==
  /\ reading # NULL
  /\ LET blk == file[reading.blk]
         n == Limit(blk)
         it == reading.it
         at == reading.should
     IN  \/ MovesTo(IterSeekToFirst(blk, it), 1)
         \/ MovesTo(IterSeekToLast(blk, it), n)
         \/ at # 0 /\ MovesTo(IterNext(blk, it), (at + 1) % (n + 1))
         \/ at # 0 /\ MovesTo(IterPrev(blk, it), at - 1)
         \/ \E k \in Keys : MovesTo(IterSeek(blk, it, k),
              LET later == {i \in 1..n : ~Less(KeysOf(blk)[i], k)}
              IN  IF later = {} THEN 0 ELSE Min(later))

Next ==
  \/ \E key \in Keys, fails \in BOOLEAN : AddKeyValue(key, fails)
  \/ \E fails \in BOOLEAN : Flush(fails)
  \/ \E fails \in 0..5 : FinishTable(fails)
  \/ Abandon
  \/ \E o \in DOMAIN file : Damage(o)
  \/ rep.finished /\ \E o \in DataBlocks : BlockReader(o)
  \/ ReadStep

Spec == Init /\ [][Next]_vars

-----------------------------------------------------------------------------
(* A table whose Finish succeeded gives back every key that was added,     *)
(* through its index and its filters, or says that it is damaged           *)
(* (table/table.cc:221, table/table_builder.cc:204).                       *)
EveryKeyFound ==
  rep.finished =>
    \A t \in {Open(TRUE)} : \A i \in DOMAIN added :
      t.index # NULL =>
        InternalGet(t, added[i], TRUE) \in {added[i]} \cup (IF damaged = NULL THEN {} ELSE {"error"})

(* The approximate offset of a key never decreases along the keys, and is  *)
(* that of the block that holds the key (table/table.cc:253).              *)
OffsetsAscend ==
  (rep.finished /\ damaged = NULL) =>
    \A t \in {Open(FALSE)} : \A k, m \in Keys :
      Less(k, m) => ApproximateOffsetOf(t, k) <= ApproximateOffsetOf(t, m)

(* Whatever sequence of seeks and steps, in either direction and across    *)
(* restart points, a block iterator is at the entry a walk along the whole *)
(* keys would be at, with its whole key (table/block.cc:149, 259).         *)
BlockIterFollowsKeys ==
  reading # NULL =>
    LET blk == file[reading.blk]
        it == reading.it
    IN  IF reading.should = 0 THEN ~IterValid(blk, it)
        ELSE it.current = reading.should - 1 /\ it.key = KeysOf(blk)[reading.should]

=============================================================================
