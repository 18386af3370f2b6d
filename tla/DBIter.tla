------------------------------- MODULE DBIter -------------------------------
(***************************************************************************)
(* A client's iterator over the database (db/db_iter.cc): DBIter hides the *)
(* entries that a snapshot does not see, those a newer entry covers and    *)
(* deletions, over the merge of a memtable, a table of level 0 and the     *)
(* tables of level 1.  At most one block cannot be read.                   *)
(***************************************************************************)
EXTENDS DBFormat, Sequences

(* The iterators that leveldb reads with.  An iterator is one of:          *)
(*   "list"   sorted items and a position, 0 when it is not at one: a      *)
(*            memtable, a block, the files of a level, or an error;        *)
(*   "two"    TwoLevelIterator, table/two_level_iterator.cc: an index      *)
(*            iterator whose items open data iterators;                    *)
(*   "merge"  MergingIterator, table/merger.cc.                            *)
(* Move(it, m) is the iterator after one of the five movements.            *)

First == [to |-> "first"]
Last  == [to |-> "last"]
Fwd   == [to |-> "next"]
Back  == [to |-> "prev"]
To(k) == [to |-> "seek", key |-> k]

List(items) == [kind |-> "list", items |-> items, at |-> 0, ok |-> TRUE]
ErrorIterator == [List(<<>>) EXCEPT !.ok = FALSE]
TwoLevel(index) ==
  [kind |-> "two", index |-> index, data |-> NULL, handle |-> 0, ok |-> TRUE]
MergingIterator(children) ==
  [kind |-> "merge", children |-> children, current |-> 0, forward |-> TRUE]
Merging(children) ==
  IF children = <<>> THEN List(<<>>)
  ELSE IF Len(children) = 1 THEN children[1]
  ELSE MergingIterator(children)

RECURSIVE Item(_)
Current(it) == IF it.current = 0 THEN NULL ELSE Item(it.children[it.current])
Item(it) ==
  CASE it.kind = "list"  -> IF it.at = 0 THEN NULL ELSE it.items[it.at]
    [] it.kind = "two"   -> IF it.data = NULL THEN NULL ELSE Item(it.data)
    [] it.kind = "merge" -> Current(it)

Valid(it) == Item(it) # NULL
Key(it) == Item(it).key

RECURSIVE Status(_)
MergingStatus(children) == \A i \in DOMAIN children : Status(children[i])
Status(it) ==
  CASE it.kind = "list"  -> it.ok
    [] it.kind = "two"   -> Status(it.index) /\ (it.data # NULL => Status(it.data)) /\ it.ok
    [] it.kind = "merge" -> MergingStatus(it.children)

(* The position a movement takes a list to. *)
AtOrAfter(items, k) ==
  LET later == {i \in DOMAIN items : ~Before(items[i].key, k)}
  IN  IF later = {} THEN 0 ELSE Least(later, <)
MoveList(it, m) ==
  LET n == Len(it.items)
  IN  [it EXCEPT !.at = CASE m.to = "first" -> IF n = 0 THEN 0 ELSE 1
                          [] m.to = "last"  -> n
                          [] m.to = "next"  -> IF @ = n THEN 0 ELSE @ + 1
                          [] m.to = "prev"  -> @ - 1
                          [] m.to = "seek"  -> AtOrAfter(it.items, m.key)]

RECURSIVE Move(_, _)

\* Mutant of SetDataIterator: the error of the old iterator is lost.
SetDataIterator_Forgets(it, data) == [it EXCEPT !.data = data]

(* SetDataIterator keeps the error of the iterator it replaces. *)
SetDataIterator(it, data) ==
  [it EXCEPT !.data = data, !.ok = @ /\ (it.data # NULL => Status(it.data))]

InitDataBlock(it) ==
  IF ~Valid(it.index) THEN SetDataIterator(it, NULL)
  ELSE IF it.data # NULL /\ it.handle = it.index.at THEN it
  ELSE SetDataIterator([it EXCEPT !.handle = it.index.at], Item(it.index).value)

(* Open the data iterator that the index is at, and move it. *)
Enter(it, m) ==
  Once(InitDataBlock(it),
       LAMBDA x : IF x.data = NULL THEN x ELSE [x EXCEPT !.data = Move(@, m)])

RECURSIVE SkipEmptyDataBlocks(_, _, _)
SkipEmptyDataBlocks(it, step, end) ==
  IF it.data # NULL /\ Valid(it.data) THEN it
  ELSE IF ~Valid(it.index) THEN SetDataIterator(it, NULL)
  ELSE Once(Enter([it EXCEPT !.index = Move(@, step)], end),
            LAMBDA x : SkipEmptyDataBlocks(x, step, end))

MoveTwoLevel(it, m) ==
  LET entered == IF m.to \in {"next", "prev"} THEN [it EXCEPT !.data = Move(@, m)]
                 ELSE Enter([it EXCEPT !.index = Move(@, m)], m)
  IN  Once(entered, LAMBDA x :
             IF m.to \in {"last", "prev"} THEN SkipEmptyDataBlocks(x, Back, Last)
             ELSE SkipEmptyDataBlocks(x, Fwd, First))

ValidChildren(children) == {i \in DOMAIN children : Valid(children[i])}

(* Among equal keys the first child is the smallest ... *)
FindSmallest(it) ==
  LET less(i, j) == \/ Before(Key(it.children[i]), Key(it.children[j]))
                    \/ ~Before(Key(it.children[j]), Key(it.children[i])) /\ i < j
      valid == ValidChildren(it.children)
  IN  [it EXCEPT !.current = IF valid = {} THEN 0 ELSE Least(valid, less), !.forward = TRUE]

(* ... and the last child the largest. *)
FindLargest(it) ==
  LET more(i, j) == \/ Before(Key(it.children[j]), Key(it.children[i]))
                    \/ ~Before(Key(it.children[i]), Key(it.children[j])) /\ i > j
      valid == ValidChildren(it.children)
  IN  [it EXCEPT !.current = IF valid = {} THEN 0 ELSE Least(valid, more), !.forward = FALSE]

(* When the direction changes the other children are put after, or before, *)
(* the current key.                                                        *)
After(child, k) ==
  Once(Move(child, To(k)), LAMBDA x : IF Valid(x) /\ Key(x) = k THEN Move(x, Fwd) ELSE x)
\* Mutant of BeforeKey: a child with no entry from the key on stays at its end.
BeforeKey_NotLast(child, k) ==
  Once(Move(child, To(k)), LAMBDA x : IF Valid(x) THEN Move(x, Back) ELSE x)

BeforeKey(child, k) ==
  Once(Move(child, To(k)), LAMBDA x : IF Valid(x) THEN Move(x, Back) ELSE Move(x, Last))

Turned(it, Place(_, _)) ==
  [it EXCEPT !.children =
     [i \in DOMAIN @ |-> IF i = it.current THEN @[i] ELSE Place(@[i], Key(it))]]

MoveMerging(it, m) ==
  LET moved(x) == [x EXCEPT !.children[x.current] = Move(@, m)]
      all == [it EXCEPT !.children = [i \in DOMAIN @ |-> Move(@[i], m)]]
  IN  CASE m.to = "next" ->
             Once(moved(IF it.forward THEN it ELSE Turned(it, After)), FindSmallest)
        [] m.to = "prev" ->
             Once(moved(IF it.forward THEN Turned(it, BeforeKey) ELSE it), FindLargest)
        [] m.to = "last" -> Once(all, FindLargest)
        [] OTHER -> Once(all, FindSmallest)

Move(it, m) ==
  CASE it.kind = "list"  -> MoveList(it, m)
    [] it.kind = "two"   -> MoveTwoLevel(it, m)
    [] it.kind = "merge" -> MoveMerging(it, m)

-----------------------------------------------------------------------------
(* What the iterators are built over. *)

Items(entries) == [i \in DOMAIN entries |-> [key |-> entries[i]]]

(* InternalKeyComparator::FindShortestSeparator and FindShortSuccessor: a  *)
(* user key strictly between, when there is a shorter one.                 *)
FindShortestSeparator(a, b) ==
  IF a.user + 1 < b.user THEN SeekStart(a.user + 1) ELSE a
FindShortSuccessor(a) == SeekStart(a.user + 1)

(* Table::NewIterator over blocks of entries, those of bad unreadable.     *)
TableIterator(blocks, bad) ==
  LET last(i) == blocks[i][Len(blocks[i])]
      key(i) == IF i = Len(blocks) THEN FindShortSuccessor(last(i))
                ELSE FindShortestSeparator(last(i), blocks[i + 1][1])
  IN  TwoLevel(List([i \in DOMAIN blocks |->
        [key |-> key(i),
         value |-> IF i \in bad THEN ErrorIterator ELSE List(Items(blocks[i]))]]))

(* Version::NewConcatenatingIterator: a LevelFileNumIterator over files    *)
(* with their largest keys, which opens the table of each.                 *)
NewConcatenatingIterator(largest, iters) ==
  TwoLevel(List([i \in DOMAIN iters |-> [key |-> largest[i], value |-> iters[i]]]))

-----------------------------------------------------------------------------
CONSTANTS Users,        \* user keys written; those one above are sought too
          Writes,       \* number of writes made before the iterator
          Damage        \* blocks that may be unreadable

VARIABLES history,      \* the writes, in order of their sequence numbers
          place,        \* where each of them is: memtable, level 0 or level 1
          sequence,     \* sequence_: the snapshot
          bad,          \* the unreadable blocks: place and number
          it            \* the DBIter: its iter_ and other fields

vars == <<history, place, sequence, bad, it>>

(* DBIter over them. *)

Entries == {InternalKey(history[i].user, i, history[i].type) : i \in DOMAIN history}
At(p) == Once({e \in Entries : place[e.seq] = p}, LAMBDA S : Sorted(S, Before))

(* One entry to a block, and for level 1 one table to each two entries.    *)
Blocks(entries) == [i \in DOMAIN entries |-> <<entries[i]>>]
BadIn(p) == {b[2] : b \in {x \in bad : x[1] = p}}

(* DBImpl::NewInternalIterator and Version::AddIterators. *)
Level0Iterators(es) ==
  IF es = <<>> THEN <<>> ELSE <<TableIterator(Blocks(es), BadIn("level0"))>>
Level1Iterators(es) ==
  LET file(i) == SubSeq(es, 2 * i - 1, IF 2 * i < Len(es) THEN 2 * i ELSE Len(es))
      n == (Len(es) + 1) \div 2
      damaged(i) == IF i = 1 THEN BadIn("level1") ELSE {}
  IN  IF es = <<>> THEN <<>>
      ELSE <<NewConcatenatingIterator(
               [i \in 1..n |-> file(i)[Len(file(i))]],
               [i \in 1..n |-> TableIterator(Blocks(file(i)), damaged(i))])>>
NewInternalIterator ==
  Merging(<<List(Items(At("mem")))>>
            \o Once(At("level0"), Level0Iterators) \o Once(At("level1"), Level1Iterators))

(* A DBIter over it, which is nowhere yet; DBImpl::NewIterator. *)
NewDBIterator(iter) ==
  [iter |-> iter, forward |-> TRUE, valid |-> FALSE, savedKey |-> NULL, savedValue |-> NULL]
NewIterator == NewDBIterator(NewInternalIterator)

(* Older writes are in deeper places. *)
Depth == [mem |-> 0, level0 |-> 1, level1 |-> 2]
Init ==
  /\ history \in [1..Writes -> [user : Users, type : {kTypeDeletion, kTypeValue}]]
  /\ place \in [1..Writes -> DOMAIN Depth]
  /\ \A i, j \in 1..Writes : i < j => Depth[place[i]] >= Depth[place[j]]
  /\ sequence \in 0..Writes
  /\ bad \in {{}} \cup {{b} : b \in Damage}
  /\ it = NewIterator

(* What the client sees: key() and value(), the latter by its sequence.    *)
Shown(x) == IF ~x.valid THEN NULL
            ELSE IF x.forward THEN [user |-> Key(x.iter).user, seq |-> Key(x.iter).seq]
            ELSE [user |-> x.savedKey, seq |-> x.savedValue]

Moved(x, m) == [x EXCEPT !.iter = Move(@, m)]
End(x) == [x EXCEPT !.valid = FALSE, !.savedKey = NULL]

ParseKey(x) == Key(x.iter)

RECURSIVE FindNextUserEntry(_, _, _)
FindNextUserEntry(x, skipping, skip) ==
  IF ~Valid(x.iter) THEN End(x)
  ELSE LET k == ParseKey(x)
           seen == k.seq <= sequence
           deletes == seen /\ k.type = kTypeDeletion
       IN  IF seen /\ k.type = kTypeValue /\ ~(skipping /\ k.user <= skip)
           THEN [x EXCEPT !.valid = TRUE, !.savedKey = NULL]
           ELSE Once(Moved(x, Fwd), LAMBDA y :
                  FindNextUserEntry(y, skipping \/ deletes, IF deletes THEN k.user ELSE skip))

RECURSIVE FindPrevUserEntry(_, _)
FindPrevUserEntry(x, type) ==
  LET k == ParseKey(x)
      seen == k.seq <= sequence
      kept == IF ~seen THEN x
              ELSE IF k.type = kTypeDeletion
              THEN [x EXCEPT !.savedKey = NULL, !.savedValue = NULL]
              ELSE [x EXCEPT !.savedKey = k.user, !.savedValue = k.seq]
  IN  IF Valid(x.iter) /\ ~(seen /\ type # kTypeDeletion /\ k.user < x.savedKey)
      THEN Once(Moved(kept, Back), LAMBDA y :
             FindPrevUserEntry(y, IF seen THEN k.type ELSE type))
      ELSE IF type = kTypeDeletion
      THEN [End(x) EXCEPT !.savedValue = NULL, !.forward = TRUE]
      ELSE [x EXCEPT !.valid = TRUE]

(* Prev's scan back to before the current user key, when it turns.         *)
RECURSIVE BackBefore(_, _)
BackBefore(x, u) ==
  Once(Moved(x, Back), LAMBDA y :
         IF Valid(y.iter) /\ Key(y.iter).user >= u THEN BackBefore(y, u) ELSE y)

IterNext(x) ==
  IF x.forward THEN FindNextUserEntry(x, TRUE, Key(x.iter).user)
  ELSE Once(Moved([x EXCEPT !.forward = TRUE], IF Valid(x.iter) THEN Fwd ELSE First),
            LAMBDA y : FindNextUserEntry(y, TRUE, y.savedKey))

IterPrev(x) ==
  IF ~x.forward THEN FindPrevUserEntry(x, kTypeDeletion)
  ELSE Once(BackBefore([x EXCEPT !.savedKey = Key(x.iter).user], Key(x.iter).user),
            LAMBDA y : IF ~Valid(y.iter) THEN [End(y) EXCEPT !.savedValue = NULL]
                       ELSE FindPrevUserEntry([y EXCEPT !.forward = FALSE], kTypeDeletion))

Cleared(x, forward) ==
  [x EXCEPT !.forward = forward, !.savedValue = NULL,
            !.savedKey = IF forward THEN NULL ELSE @]
IterSeek(x, u) ==
  Once(Moved(Cleared(x, TRUE), To(LookupKey(u, sequence))),
       LAMBDA y : FindNextUserEntry(y, FALSE, NULL))
IterSeekToFirst(x) ==
  Once(Moved(Cleared(x, TRUE), First), LAMBDA y : FindNextUserEntry(y, FALSE, NULL))
IterSeekToLast(x) ==
  Once(Moved(Cleared(x, FALSE), Last), LAMBDA y : FindPrevUserEntry(y, kTypeDeletion))

Seek(u) == it' = IterSeek(it, u)
SeekToFirst == it' = IterSeekToFirst(it)
SeekToLast == it' = IterSeekToLast(it)
NextEntry == it.valid /\ it' = IterNext(it)
PrevEntry == it.valid /\ it' = IterPrev(it)

Sought == Users \cup {u + 1 : u \in Users}
Next ==
  /\ SeekToFirst \/ SeekToLast \/ (\E u \in Sought : Seek(u)) \/ NextEntry \/ PrevEntry
  /\ UNCHANGED <<history, place, sequence, bad>>

Spec == Init /\ [][Next]_vars

-----------------------------------------------------------------------------
Visible ==
  {e \in Entries :
     /\ e.seq <= sequence /\ e.type = kTypeValue
     /\ \A x \in Entries : x.user = e.user /\ x.seq <= sequence => x.seq <= e.seq}

ShownAt(entries) == {[user |-> e.user, seq |-> e.seq] : e \in entries}
(* The position in an OrderedCursor, over undamaged tables. *)
CursorShown == IF bad = {} THEN ShownAt(Visible) ELSE {}
CursorAt == IF bad = {} THEN Shown(it) ELSE NULL
Cursor == INSTANCE OrderedCursor WITH Users <- Sought, shown <- CursorShown, at <- CursorAt

(* A walk that steps over a block it could not read reports an error: with *)
(* a status that is still ok, an iterator is at a visible entry and steps  *)
(* to the next one, or the one before (table/two_level_iterator.cc:154).   *)
NoSilentSkip ==
  LET here == Shown(it)
      there == Shown(it')
      ok == Status(it'.iter) /\ here # NULL
      seen == ShownAt(Visible)
  IN  /\ (ok /\ NextEntry) => there = Cursor!Least({e \in seen : e.user > here.user})
      /\ (ok /\ PrevEntry) => there = Cursor!Greatest({e \in seen : e.user < here.user})

=============================================================================
