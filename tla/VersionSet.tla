----------------------------- MODULE VersionSet -----------------------------
(***************************************************************************)
(* Versions of leveldb (db/version_set.cc, db/version_edit.cc): the table  *)
(* files of every level, how a read searches them, and how a compaction    *)
(* chooses its inputs and drops entries.  A level is a set of files; the   *)
(* code keeps the same files in a vector sorted by smallest key, which is  *)
(* what Vector gives.  tables maps a file number to the entries of that    *)
(* table; the size of a file is its number of entries.                     *)
(***************************************************************************)
EXTENDS DBFormat, FiniteSetsExt, SequencesExt

CONSTANTS kNumLevels,
          kL0_CompactionTrigger,
          kMaxMemCompactLevel,
          MaxFileSize,        \* options.max_file_size, in entries
          LevelBytes,         \* MaxBytesForLevel(1)
          OverlapFactor,      \* 10 in MaxGrandParentOverlapBytes
          ExpandFactor,       \* 25 in ExpandedCompactionByteSizeLimit
          MinSeeks            \* 100 in Builder::Apply

Levels == 0..kNumLevels - 1

File(n, entries) ==
  [number |-> n, size |-> Cardinality(entries),
   smallest |-> Least(entries, Before),
   largest |-> CHOOSE e \in entries : \A x \in entries \ {e} : Before(x, e)]

BySmallestKey(f, g) ==
  \/ Before(f.smallest, g.smallest)
  \/ f.smallest = g.smallest /\ f.number < g.number

Vector(files) == Sorted(files, BySmallestKey)

TotalFileSize(files) == MapThenSumSet(LAMBDA f : f.size, files)

MaxGrandParentOverlapBytes == OverlapFactor * MaxFileSize
ExpandedCompactionByteSizeLimit == ExpandFactor * MaxFileSize

(* Ten times more for every level above the first. *)
MaxBytesForLevel(level) == LevelBytes * 10 ^ (IF level > 1 THEN level - 1 ELSE 0)

EmptyFiles == [level \in Levels |-> {}]

-----------------------------------------------------------------------------
(* Searching the files. *)

(* The index of the first file whose largest key is not before key, by     *)
(* binary search; Len(vec) + 1 when there is none.                         *)
FindFile(vec, key) ==
  LET search[b \in (1..Len(vec) + 1) \X (1..Len(vec) + 1)] ==
        LET left == b[1]
            right == b[2]
            mid == (left + right) \div 2
        IN  IF left >= right THEN right
            ELSE IF Before(vec[mid].largest, key) THEN search[<<mid + 1, right>>]
            ELSE search[<<left, mid>>]
  IN  search[<<1, Len(vec) + 1>>]

AfterFile(user, f) == user # NULL /\ user > f.largest.user
BeforeFile(user, f) == user # NULL /\ user < f.smallest.user

Overlapping(files, lo, hi) ==
  {f \in files : ~AfterFile(lo, f) /\ ~BeforeFile(hi, f)}

SomeFileOverlapsRange(disjoint, files, lo, hi) ==
  IF ~disjoint THEN Overlapping(files, lo, hi) # {}
  ELSE LET vec == Vector(files)
           index == IF lo = NULL THEN 1 ELSE FindFile(vec, SeekStart(lo))
       IN  index <= Len(vec) /\ ~BeforeFile(hi, vec[index])

OverlapInLevel(files, level, lo, hi) ==
  SomeFileOverlapsRange(level > 0, files[level], lo, hi)

(* Files of a level that meet the user keys lo..hi.  Files of level 0 may  *)
(* meet one another: each one found widens the range, and the search       *)
(* starts again, until the range is stable.                                *)
GetOverlappingInputs(files, level, lo, hi) ==
  LET widen(r) ==
        LET found == Overlapping(files[level], r[1], r[2])
        IN  <<IF r[1] = NULL THEN NULL
              ELSE Min({r[1]} \cup {f.smallest.user : f \in found}),
              IF r[2] = NULL THEN NULL
              ELSE Max({r[2]} \cup {f.largest.user : f \in found})>>
      n == IF level = 0 THEN Cardinality(files[0]) ELSE 0
      range == Accumulate(LAMBDA r, i : widen(r), <<lo, hi>>, [i \in 1..n |-> i])
  IN  Once(range, LAMBDA r : Overlapping(files[level], r[1], r[2]))

(* The files a read of user key u at k opens, in order: those of level 0   *)
(* that cover u, newest first, then at most one of each deeper level.      *)
SearchOrder(files, u, k) ==
  LET level0 == Sorted({f \in files[0] : f.smallest.user <= u /\ u <= f.largest.user},
                       LAMBDA f, g : f.number > g.number)
      deeper(level) ==
        LET vec == Vector(files[level])
            index == FindFile(vec, k)
        IN  IF index <= Len(vec) /\ vec[index].smallest.user <= u
            THEN <<<<level, vec[index]>>>> ELSE <<>>
  IN  [i \in 1..Len(level0) |-> <<0, level0[i]>>]
        \o FlattenSeq([level \in 1..kNumLevels - 1 |-> deeper(level)])

(* What one table answers: its first entry at or after k, when that entry  *)
(* is for the same user key (SaveValue), or NULL.                          *)
TableGet(entries, k) ==
  LET e == SeekEntry(entries, k)
  IN  IF e # NULL /\ e.user = k.user THEN e ELSE NULL

(* Version::Get: the first answer in search order.  The first file read is *)
(* charged with a seek when a second one had to be read.                   *)
VersionGet(files, tables, u, s) ==
  LET k == LookupKey(u, s)
      answer(f) == TableGet(tables[f[2].number], k)
      get(order) ==
        LET answers == {i \in DOMAIN order : answer(order[i]) # NULL}
            from(read) == [entry |-> IF answers = {} THEN NULL ELSE answer(order[read]),
                           seekFile |-> IF read > 1 THEN order[1] ELSE NULL]
        IN  Once(IF answers = {} THEN Len(order) ELSE Min(answers), from)
  IN  Once(SearchOrder(files, u, k), get)

(* RecordReadSample: an iterator charges the first of two files that       *)
(* overlap the sampled key.                                                *)
SampledSeek(files, k) ==
  LET order == SearchOrder(files, k.user, k)
  IN  IF Len(order) >= 2 THEN order[1] ELSE NULL

(* A flushed memtable goes below level 0 while nothing overlaps it there   *)
(* and it would not overlap too much of the level after.                   *)
PickLevelForMemTableOutput(files, lo, hi) ==
  LET fits(level) ==
        /\ ~OverlapInLevel(files, level + 1, lo, hi)
        /\ level + 2 < kNumLevels =>
             TotalFileSize(GetOverlappingInputs(files, level + 2, lo, hi))
               <= MaxGrandParentOverlapBytes
  IN  IF OverlapInLevel(files, 0, lo, hi) THEN 0
      ELSE Max({level \in 0..kMaxMemCompactLevel :
                  \A below \in 0..level - 1 : fits(below)})

(* Where key would be in the version: the sizes of the files before it,    *)
(* and of the entries before it in the files it falls into.                *)
ApproximateOffsetOf(files, tables, key) ==
  LET offset(f) ==
        IF ~Before(key, f.largest) THEN f.size
        ELSE IF Before(key, f.smallest) THEN 0
        ELSE Cardinality({e \in tables[f.number] : Before(e, key)})
  IN  MapThenSumSet(LAMBDA level : MapThenSumSet(offset, files[level]), Levels)

-----------------------------------------------------------------------------
(* Edits. *)

(* compact: set of <<level, key>>; deleted: set of <<level, number>>;      *)
(* added: set of <<level, file>>; a field that is not set is NULL.         *)
NoEdit ==
  [logNumber |-> NULL, prevLogNumber |-> NULL, nextFile |-> NULL,
   lastSequence |-> NULL, compact |-> {}, deleted |-> {}, added |-> {}]

AddFile(edit, level, f) == [edit EXCEPT !.added = @ \cup {<<level, f>>}]
DeleteFile(edit, level, n) == [edit EXCEPT !.deleted = @ \cup {<<level, n>>}]

(* LevelState: what a Builder knows of a level once the edits are applied, *)
(* the numbers they delete and the files they add that no later edit       *)
(* deletes.                                                                *)
LevelState(edits, level) ==
  LET deleted(from) ==
        UNION {{d[2] : d \in {x \in edits[i].deleted : x[1] = level}} : i \in from..Len(edits)}
      new(i) == {a[2] : a \in {x \in edits[i].added :
                                 x[1] = level /\ x[2].number \notin deleted(i + 1)}}
  IN  [deleted |-> deleted(1), added |-> UNION {new(i) : i \in DOMAIN edits}]

(* The files of the base that are not deleted, and the added ones. *)
SaveTo(base, edits) ==
  [level \in Levels |->
     Once(LevelState(edits, level), LAMBDA state :
       {f \in base[level] : f.number \notin state.deleted} \cup state.added)]

Pointers(pointer, edits) ==
  [level \in Levels |->
     LET set == {i \in DOMAIN edits : \E c \in edits[i].compact : c[1] = level}
     IN  IF set = {} THEN pointer[level]
         ELSE (CHOOSE c \in edits[Max(set)].compact : c[1] = level)[2]]

AllowedSeeks(f) == IF f.size \div 16384 < MinSeeks THEN MinSeeks ELSE f.size \div 16384

(* The edit that describes a whole version, the first record of a new      *)
(* MANIFEST.                                                               *)
WriteSnapshot(files, pointer) ==
  [NoEdit EXCEPT
     !.compact = {<<level, pointer[level]>> :
                    level \in {l \in Levels : pointer[l] # NULL}},
     !.added = UNION {{<<level, f>> : f \in files[level]} : level \in Levels}]

-----------------------------------------------------------------------------
(* Compactions. *)

(* The score of a level as a fraction: files over a trigger at level 0,    *)
(* bytes over a limit elsewhere.  Finalize keeps the first best level; the *)
(* last level has no score.                                                *)
Score(files, level) ==
  IF level = 0 THEN <<Cardinality(files[0]), kL0_CompactionTrigger>>
  ELSE <<TotalFileSize(files[level]), MaxBytesForLevel(level)>>

Finalize(files) ==
  LET score(level) == Score(files, level)
      better(l, m) == score(l)[1] * score(m)[2] > score(m)[1] * score(l)[2]
  IN  CHOOSE level \in 0..kNumLevels - 2 :
        /\ \A l \in 0..level - 1 : better(level, l)
        /\ \A l \in level + 1..kNumLevels - 2 : ~better(l, level)

SizeCompaction(files) ==
  LET score == Score(files, Finalize(files)) IN score[1] >= score[2]

(* toCompact is the pair <<level, file>> that ran out of seeks, or NULL.   *)
NeedsCompaction(files, toCompact) == SizeCompaction(files) \/ toCompact # NULL

GetRange(inputs) ==
  [lo |-> Least({f.smallest : f \in inputs}, Before),
   hi |-> CHOOSE k \in {f.largest : f \in inputs} :
            \A f \in inputs : f.largest = k \/ Before(f.largest, k)]

(* A Compaction of a level, with its two sets of inputs. *)
Compaction(level, in, grandparents) ==
  [level |-> level, inputs |-> [which \in 0..1 |-> in[which + 1]],
   grandparents |-> grandparents, pointer |-> GetRange(in[1]).hi]

(* SetupOtherInputs: the files of the next level that meet the inputs, and *)
(* more files of this level when that brings in no other file below.       *)
SetupOtherInputs(files, level, inputs) ==
  LET overlaps(l, S) ==
        Once(GetRange(S), LAMBDA r : GetOverlappingInputs(files, l, r.lo.user, r.hi.user))
      withBelow(S) == <<S, overlaps(level + 1, S)>>
      expands(in, more) ==
        /\ in[2] # {}
        /\ Cardinality(more[1]) > Cardinality(in[1])
        /\ TotalFileSize(in[2]) + TotalFileSize(more[1]) < ExpandedCompactionByteSizeLimit
        /\ Cardinality(more[2]) = Cardinality(in[2])
      compaction(in) ==
        Compaction(level, in,
                   IF level + 2 < kNumLevels THEN overlaps(level + 2, in[1] \cup in[2])
                   ELSE {})
  IN  Once(withBelow(inputs), LAMBDA in :
        Once(withBelow(overlaps(level, in[1] \cup in[2])), LAMBDA more :
          Once(IF expands(in, more) THEN more ELSE in, compaction)))

(* The next file after the compaction pointer of the level, wrapping.      *)
NextFile(files, level, pointer) ==
  LET after == {f \in files[level] :
                  pointer[level] = NULL \/ Before(pointer[level], f.largest)}
  IN  Least(IF after = {} THEN files[level] ELSE after, BySmallestKey)

PickCompaction(files, pointer, toCompact) ==
  LET from(level, first) ==
        SetupOtherInputs(files, level,
          IF level = 0
          THEN GetOverlappingInputs(files, 0, first.smallest.user, first.largest.user)
          ELSE {first})
  IN  IF SizeCompaction(files)
      THEN Once(Finalize(files), LAMBDA level : from(level, NextFile(files, level, pointer)))
      ELSE IF toCompact # NULL THEN from(toCompact[1], toCompact[2])
      ELSE NULL

(* A manual compaction of user keys lo..hi; below level 0 it stops after   *)
(* the file that reaches the limit.                                        *)
CompactRange(files, level, lo, hi) ==
  LET inputs == GetOverlappingInputs(files, level, lo, hi)
      vec == Vector(inputs)
      upTo(i) == {vec[j] : j \in 1..i}
      full == {i \in DOMAIN vec : TotalFileSize(upTo(i)) >= MaxFileSize}
      taken == IF level > 0 /\ full # {} THEN upTo(Min(full)) ELSE inputs
  IN  IF inputs = {} THEN NULL ELSE SetupOtherInputs(files, level, taken)

\* Mutant of IsTrivialMove: the files of the level below are not looked at.
IsTrivialMove_OverOthers(c) ==
  /\ Cardinality(c.inputs[0]) = 1
  /\ TotalFileSize(c.grandparents) <= MaxGrandParentOverlapBytes

IsTrivialMove(c) ==
  /\ Cardinality(c.inputs[1]) = 0
  /\ Cardinality(c.inputs[0]) = 1
  /\ TotalFileSize(c.grandparents) <= MaxGrandParentOverlapBytes

CompactionEdit(c) == [NoEdit EXCEPT !.compact = {<<c.level, c.pointer>>}]

TrivialMoveEdit(c) ==
  LET f == CHOOSE g \in c.inputs[0] : TRUE
  IN  AddFile(DeleteFile(CompactionEdit(c), c.level, f.number), c.level + 1, f)

(* The edit of a finished compaction; outputs is its set of files.         *)
InstallEdit(c, outputs) ==
  [CompactionEdit(c) EXCEPT
     !.deleted = UNION {{<<c.level + which, f.number>> : f \in c.inputs[which]}
                        : which \in 0..1},
     !.added = {<<c.level + 1, f>> : f \in outputs}]

(* No file of the levels below the output covers the user key. *)
IsBaseLevelForKey(files, level, u) ==
  \A l \in level + 2..kNumLevels - 1 :
    \A f \in files[l] : ~(f.smallest.user <= u /\ u <= f.largest.user)

(* ShouldStopBefore: the grandparents from index on that end before e, and *)
(* the bytes the current output overlaps once they are passed.             *)
Passed(grandparents, index, e) ==
  {i \in index..Len(grandparents) :
     \A j \in index..i : Before(grandparents[j].largest, e)}

Overlapped(grandparents, acc, e) ==
  acc.overlapped
    + IF acc.seen
      THEN MapThenSumSet(LAMBDA i : grandparents[i].size,
                         Passed(grandparents, acc.index, e))
      ELSE 0

\* Mutant of Drop: a deletion goes although deeper levels hold its key.
Drop_DeletionsToo(files, level, e, lastSequenceForKey, smallestSnapshot) ==
  \/ lastSequenceForKey <= smallestSnapshot
  \/ e.type = kTypeDeletion /\ e.seq <= smallestSnapshot

(* An entry is hidden by a newer one for its key that every snapshot sees, *)
(* or is a deletion with nothing left to hide.                             *)
Drop(files, level, e, lastSequenceForKey, smallestSnapshot) ==
  \/ lastSequenceForKey <= smallestSnapshot
  \/ /\ e.type = kTypeDeletion
     /\ e.seq <= smallestSnapshot
     /\ IsBaseLevelForKey(files, level, e.user)

(* The merged inputs of a compaction. *)
MakeInputIterator(c, tables) ==
  Sorted(UNION {tables[f.number] : f \in c.inputs[0] \cup c.inputs[1]}, Before)

(* The loop of DoCompactionWork over the merged inputs: the sequence of    *)
(* tables it writes.                                                       *)
CompactedTables(c, files, tables, smallestSnapshot) ==
  LET grandparents == Vector(c.grandparents)
      step(acc, e) ==
        LET overlapped == Overlapped(grandparents, acc, e)
            stop == overlapped > MaxGrandParentOverlapBytes
            closed == IF stop /\ acc.out # {} THEN <<acc.out>> ELSE <<>>
            last == IF acc.user = e.user THEN acc.last ELSE kMaxSequenceNumber
            drop == Drop(files, c.level, e, last, smallestSnapshot)
            kept == IF stop THEN {} ELSE acc.out
            out == IF drop THEN kept ELSE kept \cup {e}
            full == ~drop /\ Cardinality(out) >= MaxFileSize
        IN  [user |-> e.user, last |-> e.seq, seen |-> TRUE,
             index |-> acc.index + Cardinality(Passed(grandparents, acc.index, e)),
             overlapped |-> IF stop THEN 0 ELSE overlapped,
             out |-> IF full THEN {} ELSE out,
             outs |-> acc.outs \o closed \o IF full THEN <<out>> ELSE <<>>]
      start == [user |-> NULL, last |-> kMaxSequenceNumber, seen |-> FALSE,
                index |-> 1, overlapped |-> 0, out |-> {}, outs |-> <<>>]
  IN  Once(Accumulate(step, start, MakeInputIterator(c, tables)),
           LAMBDA end : IF end.out = {} THEN end.outs ELSE Append(end.outs, end.out))

=============================================================================
